-------------------------- MODULE PkgReleaseProofs --------------------------
(***************************************************************************)
(* Proofs about PkgRelease: what a creation publishes (MakersInv), the     *)
(* types of the client (ClientInv), the lines the administrator has in a   *)
(* configuration file (OwnInv), merges and the order of versions.          *)
(***************************************************************************)
EXTENDS PkgRelease, TextMergeProofs

-----------------------------------------------------------------------------
(* The inductive invariant.                                                *)

Working == {"seek", "write", "unlock", "send"}
Busy(w) == worker[w].pc \in {"seek", "write", "unlock"}
Told(w) == Alive(w) /\ worker[w].told

\* Until its manifests are packed, a creation has a file to write to.
Live == parent \notin {"idle", "pack digests"}

\* The parent, its workers and those that earlier creations have left.
Shape ==
  /\ IsInjective(stock)
  /\ \A c \in 1 .. creation : inode[c] \in Creations
  /\ parent # "idle" => creation \in Creations /\ stock # <<>> /\ outcome = "none"
  /\ Live => path = inode[creation]
  /\ parent = "pack digests" => path = 0
  /\ fds \subseteq {<<creation, k>> : k \in 1 .. NumWorkers}
  /\ parent = "idle" => fds = {}
  /\ parent = "fork" =>
       /\ \E n \in 0 .. NumWorkers : fds = {<<creation, k>> : k \in 1 .. n} /\ Cardinality(fds) = n
       /\ \A w \in Workers : w[1] = creation => ~worker[w].told
  /\ parent \notin {"idle", "fork", "poll", "wait"} => fds = {}

Ready ==
  \A w \in Workers :
    /\ w[1] > creation => worker[w] = Nobody
    /\ worker[w].pc = "none" => worker[w] = Nobody /\ w \notin fds
    /\ worker[w].pc \in Working => worker[w].told /\ worker[w].todo # <<>>
    /\ parent # "idle" /\ w[1] = creation /\ worker[w].pc # "none" => w[2] <= NumWorkers
    /\ parent = "fork" /\ w[1] = creation /\ w \notin fds => worker[w] = Nobody

\* Of the workers that earlier creations left, none has a sibling, and it meets
\* one worker only.
Alone ==
  parent # "idle" /\ ~crowded =>
    \A v \in Workers : Told(v) /\ v[1] # creation =>
      /\ NumWorkers = 1
      /\ \A u \in Workers : Told(u) /\ u[1] = v[1] => u = v

\* Then the lock is held by whoever is at the file.
Excludes ==
  parent # "idle" /\ ~crowded /\ NumWorkers = 1 =>
    \A v \in Workers : Busy(v) => lock[inode[v[1]]] = v[1]

\* The manifest of the archive is in the file, behind a position.
Placed(a, n) == \E i \in 1 .. Len(file[path]) : file[path][i] = a /\ i > n

\* What is written goes behind what there is.
Ahead ==
  Live /\ ~crowded =>
    \A w \in Workers : worker[w].pc = "write" /\ inode[w[1]] = path => Len(file[path]) <= offset[w[1]]

\* What the workers have said, or are about to say, is true.
Promised ==
  Live /\ ~crowded =>
    \A w \in Workers : w[1] = creation =>
      /\ worker[w].pc = "write" => worker[w].mpos <= Len(file[path])
      /\ worker[w].pc \in {"unlock", "send"} => Placed(Head(worker[w].todo), worker[w].mpos)
      /\ \A k \in 1 .. Len(worker[w].sock) : worker[w].sock[k] # End =>
           Placed(worker[w].sock[k].of, worker[w].sock[k].pos)

Truthful == Live /\ ~crowded => \A k \in 1 .. Len(dlist) : Placed(dlist[k].of, dlist[k].pos)

\* Of the archives s, a worker has the share behind `from` up to `to`: each is
\* to be done, in a message, or was received (up to Taken), in this order.
Taken(to, todo, sock, done) == to + done - Len(sock) - Len(todo)
InOrder(s, from, to, todo, sock, done) ==
  /\ Taken(to, todo, sock, done) \in from .. to
  /\ done = 1 => todo = <<>> /\ sock # <<>>
  /\ \A m \in 1 .. Len(todo) : todo[m] = s[to - Len(todo) + m]
  /\ \A m \in 1 .. Len(sock) :
       LET j == Taken(to, todo, sock, done) + m IN sock[m].of = IF j <= to THEN s[j] ELSE 0

\* The last archive of worker k whose digest the parent has.
Done(w) == IF worker[w].pc = "gone" THEN 1 ELSE 0
Got(k) ==
  LET w == <<creation, k>>
  IN  IF w \in fds THEN Taken(Before(k), worker[w].todo, worker[w].sock, Done(w))
      ELSE IF parent = "fork" THEN Before(k - 1) ELSE Before(k)

SharedOf(k) ==
  LET w == <<creation, k>>
  IN  IF w \in fds
        THEN InOrder(stock, Before(k - 1), Before(k), worker[w].todo, worker[w].sock, Done(w))
      ELSE ~Alive(w)
Shared == parent # "idle" /\ ~hurt => \A k \in 1 .. NumWorkers : SharedOf(k)

\* The digests that the parent has are those of the archives that were received.
Received == {j \in 1 .. Len(stock) : \E k \in 1 .. NumWorkers : Before(k - 1) < j /\ j <= Got(k)}
Lists(digests, s, received) ==
  /\ \A i \in 1 .. Len(digests) : \E j \in received : digests[i].of = s[j]
  /\ \A j \in received : \E i \in 1 .. Len(digests) : digests[i].of = s[j]
  /\ \A i, j \in 1 .. Len(digests) : digests[i].of = digests[j].of => i = j
Listed == parent # "idle" /\ ~hurt => Lists(dlist, stock, Received)

\* The last archive of worker k whose manifest is in the file.
Wrote(k) ==
  LET w == <<creation, k>>
  IN  IF w \in fds
        THEN Before(k) - Len(worker[w].todo) + (IF worker[w].pc \in {"unlock", "send"} THEN 1 ELSE 0)
      ELSE IF parent = "fork" THEN Before(k - 1) ELSE Before(k)
WrittenUp == {j \in 1 .. Len(stock) : \E k \in 1 .. NumWorkers : Before(k - 1) < j /\ j <= Wrote(k)}

\* The first creation has the file for itself.
First ==
  Live /\ creation = 1 =>
    /\ \A w \in Workers : worker[w].pc = "write" => offset[1] = Len(file[path])
    /\ ~hurt => Len(file[path]) = Cardinality(WrittenUp)

Sorted ==
  parent \in {"meta", "pack meta"} => \A k \in 1 .. Len(dlist) - 1 : dlist[k].of <= dlist[k + 1].of

\* The three archives of the directory are of one creation.
Packed ==
  /\ parent = "pack manifests" => site.meta = creation
  /\ parent = "pack digests" => site.meta = creation /\ site.manifests = creation
  /\ outcome = "ok" => site.meta = site.manifests /\ site.manifests = site.digests

MakersInv ==
  /\ CreateTypeOK /\ Shape /\ Ready
  /\ Alone /\ Excludes /\ Ahead /\ Promised /\ Truthful
  /\ Shared /\ Listed /\ First /\ Sorted /\ Packed

-----------------------------------------------------------------------------
(* The shares of the workers.                                              *)

\* A creation has at least one worker, and none without an archive.
LEMMA SomeWorkers ==
  ASSUME CreateTypeOK, stock # <<>>
  PROVE  NumWorkers \in 1 .. Len(stock) /\ NumWorkers <= MaxWorkers /\ Len(stock) \in Nat \ {0}
<1>1. Len(stock) \in Nat \ {0}
  BY DEF CreateTypeOK
<1> QED  BY <1>1, CreateAssumption DEF CreateTypeOK, NumWorkers

\* The shares follow each other, from the first archive to the last.
LEMMA Intervals ==
  ASSUME CreateTypeOK, stock # <<>>
  PROVE  /\ Before(0) = 0 /\ Before(NumWorkers) = Len(stock)
         /\ \A k \in 0 .. NumWorkers : Before(k) \in 0 .. Len(stock)
         /\ \A k \in 1 .. NumWorkers : Before(k - 1) <= Before(k)
         /\ \A j, k \in 1 .. NumWorkers : j < k => Before(j) <= Before(k - 1)
<1> DEFINE n == NumWorkers  len == Len(stock)  q == len \div n  r == len % n
<1>1. n \in 1 .. len /\ len \in Nat \ {0}
  BY SomeWorkers
<1>2. /\ q \in Nat /\ r \in 0 .. n - 1 /\ len = n * q + r
      /\ \A k \in 0 .. n : Before(k) = k * q + (IF k < r THEN k ELSE r)
  BY <1>1 DEF Before
<1> HIDE DEF q, r, len, n
<1>3. ASSUME NEW j \in 0 .. n, NEW k \in 0 .. n, j <= k
      PROVE  j * q \in Nat /\ k * q \in Nat /\ j * q <= k * q
  BY <1>1, <1>2, <1>3
<1>4. ASSUME NEW j \in 0 .. n, NEW k \in 0 .. n, j <= k
      PROVE  Before(j) \in Nat /\ Before(j) <= Before(k)
  BY <1>1, <1>2, <1>3, <1>4
<1>5. Before(0) = 0 /\ Before(n) = len
  BY <1>1, <1>2
<1>6. \A k \in 0 .. n : Before(k) \in 0 .. len
  <2> TAKE k \in 0 .. n
  <2>1. Before(k) \in Nat /\ Before(k) <= Before(n)
    BY <1>1, <1>4
  <2> QED  BY <1>1, <1>5, <2>1
<1>7. \A j, k \in 1 .. n : Before(k - 1) <= Before(k) /\ (j < k => Before(j) <= Before(k - 1))
  <2> TAKE j, k \in 1 .. n
  <2>1. j \in 0 .. n /\ k \in 0 .. n /\ k - 1 \in 0 .. n /\ k - 1 <= k
    BY <1>1
  <2>2. Before(k - 1) <= Before(k)
    BY <1>4, <2>1
  <2>3. ASSUME j < k PROVE Before(j) <= Before(k - 1)
    <3>1. j <= k - 1
      BY <2>3, <2>1, <1>1
    <3> QED  BY <1>4, <2>1, <3>1
  <2> QED  BY <2>2, <2>3
<1> QED  BY <1>5, <1>6, <1>7 DEF n, len

\* Every archive is in the share of a worker.
LEMMA Covered ==
  ASSUME CreateTypeOK, stock # <<>>, NEW j \in 1 .. Len(stock)
  PROVE  \E k \in 1 .. NumWorkers : Before(k - 1) < j /\ j <= Before(k)
<1> DEFINE S == {k \in 0 .. NumWorkers : j <= Before(k)}  R == OpToRel(<, Nat)
<1>1. NumWorkers \in Nat \ {0} /\ Len(stock) \in Nat
  BY SomeWorkers
<1>2. S \in SUBSET Nat /\ NumWorkers \in S /\ 0 \notin S
  BY <1>1, Intervals
<1>3. PICK m \in S : \A k \in S : ~(<<k, m>> \in R)
  <2>1. IsWellFoundedOn(R, Nat)
    BY NatLessThanWellFounded
  <2> HIDE DEF R, S
  <2> QED  BY <1>2, <2>1, WFMin
<1>4. m \in 1 .. NumWorkers /\ m - 1 \in 0 .. NumWorkers
  BY <1>1, <1>2
<1>5. <<m - 1, m>> \in R
  BY <1>4, <1>1 DEF OpToRel
<1>6. m - 1 \notin S
  BY <1>3, <1>5
<1>7. Before(m - 1) \in Nat
  BY <1>4, Intervals
<1> QED  BY <1>1, <1>4, <1>6, <1>7

\* A share is of its worker alone.
LEMMA Disjoint ==
  ASSUME CreateTypeOK, stock # <<>>, NEW j \in Nat,
         NEW k \in 1 .. NumWorkers, Before(k - 1) < j, j <= Before(k),
         NEW n \in 1 .. NumWorkers, Before(n - 1) < j, j <= Before(n)
  PROVE  k = n
<1>1. NumWorkers \in Nat
  BY SomeWorkers
<1>2. /\ Before(k) \in Nat /\ Before(n) \in Nat
      /\ Before(k - 1) \in Nat /\ Before(n - 1) \in Nat
  <2>1. k \in 0 .. NumWorkers /\ n \in 0 .. NumWorkers /\ k - 1 \in 0 .. NumWorkers /\ n - 1 \in 0 .. NumWorkers
    BY <1>1
  <2> QED  BY <2>1, Intervals
<1>3. ~(k < n) /\ ~(n < k)
  BY <1>1, <1>2, Intervals
<1> QED  BY <1>1, <1>3

-----------------------------------------------------------------------------
(* The steps of the makers, and the types.                                 *)

\* A step of a worker, or something that goes wrong with it.
WorkerMove(w) ==
  \/ WorkerStep(w)
  \/ /\ (Skips(w) \/ GivesUp(w) \/ Killed(w)) /\ Hurts(w) /\ faults' \in 0 .. MaxFaults
     /\ UNCHANGED <<stock, count, creation, parent, inode, path, fds, dlist, site, outcome, crowded>>

\* The creation is over, well or not.
Ending == (PackDigests \/ ForkFails \/ ParentKilled \/ PackFails) /\ faults' \in 0 .. MaxFaults

MakersNext ==
  \/ Deposit /\ stock' \in Seq(Archives) /\ IsInjective(stock')
  \/ Create \/ Fork \/ Mark
  \/ \E w \in fds : parent = "poll" /\ (ReadDigest(w) \/ ReadEnd(w))
  \/ Wait \/ Sort \/ WriteMeta \/ PackMeta \/ PackManifests \/ Ending
  \/ \E w \in Workers : WorkerMove(w)
  \/ CreateInit'
  \/ UNCHANGED makers

\* The makers make these steps, and the client leaves them alone.
LEMMA MakersSteps ==
  ASSUME CreateTypeOK, [Next]_vars
  PROVE  MakersNext
<1>1. CASE Deposit
  <2>1. creation + 1 \in Creations
    BY <1>1, CreateAssumption DEF Deposit, CreateTypeOK, Creations
  <2> QED  BY <1>1, <2>1, ReleaseAssumption DEF Deposit, MakersNext
<1>2. CASE CreateFault
  <2>1. faults' \in 0 .. MaxFaults
    BY <1>2, CreateAssumption DEF CreateFault, CreateTypeOK
  <2> QED  BY <1>2, <2>1 DEF CreateFault, WorkerFault, MakersNext, Ending, WorkerMove
<1>3. CASE ParentStep
  <2>1. PackDigests => faults' \in 0 .. MaxFaults
    BY DEF PackDigests, CreateTypeOK
  <2> QED  BY <1>3, <2>1 DEF ParentStep, MakersNext, Ending
<1>4. CASE \E w \in Workers : WorkerStep(w)
  BY <1>4 DEF MakersNext, WorkerMove
<1>5. CASE Hand
  <2>1. CreateInit'
    BY <1>5, CreateAssumption DEF Hand, CreateInit
  <2> QED  BY <2>1 DEF MakersNext
<1>6. CASE UNCHANGED makers
  BY <1>6 DEF MakersNext
<1> QED  BY <1>1, <1>2, <1>3, <1>4, <1>5, <1>6 DEF Next, Make, CreateNext, Update, Use, vars

\* Archives and digests.
LEMMA Data ==
  /\ Hole \notin Archives /\ End \in Messages /\ Nobody \in WorkerStates
  /\ \A a \in Archives, n \in Nat : [of |-> a, pos |-> n] \in Messages /\ [of |-> a, pos |-> n] # End
  /\ \A d \in Messages : d # End => d \in Digests
BY CreateAssumption DEF Hole, End, Digests, Messages, Nobody, WorkerStates, WorkerPcs

\* Creations and workers have these.
LEMMA WorkersType ==
  ASSUME CreateTypeOK, NEW w \in Workers
  PROVE  /\ w[1] \in Creations /\ w[2] \in 1 .. MaxWorkers /\ w = <<w[1], w[2]>>
         /\ worker[w] \in WorkerStates /\ inode[w[1]] \in 0 .. MaxCreations /\ offset[w[1]] \in Nat
BY DEF Workers, CreateTypeOK

LEMMA CurrentWorkers ==
  ASSUME CreateTypeOK, parent # "idle", creation \in Creations, stock # <<>>, NEW k \in 1 .. NumWorkers
  PROVE  <<creation, k>> \in Workers
BY SomeWorkers, CreateAssumption DEF Workers

\* What is written is a text.
LEMMA WrittenType ==
  ASSUME NEW text \in Seq(Archives \cup {Hole}), NEW at \in Nat, NEW a \in Archives
  PROVE  /\ Written(text, at, a) \in Seq(Archives \cup {Hole})
         /\ Len(Written(text, at, a)) = IF at < Len(text) THEN Len(text) ELSE at + 1
         /\ Written(text, at, a)[at + 1] = a
         /\ at >= Len(text) => \A i \in 1 .. Len(text) : Written(text, at, a)[i] = text[i]
<1> DEFINE n == IF at < Len(text) THEN Len(text) ELSE at + 1
<1>1. n \in Nat /\ Len(text) \in Nat
  OBVIOUS
<1>2. \A k \in 1 .. n : (IF k = at + 1 THEN a ELSE IF k <= Len(text) THEN text[k] ELSE Hole) \in Archives \cup {Hole}
  OBVIOUS
<1>3. Written(text, at, a) \in [1 .. n -> Archives \cup {Hole}]
  BY <1>2 DEF Written
<1>4. Written(text, at, a) \in Seq(Archives \cup {Hole}) /\ Len(Written(text, at, a)) = n
  BY <1>1, <1>3
<1> QED  BY <1>1, <1>4 DEF Written

\* What a move of a worker changes.
LEMMA MoveFrame ==
  ASSUME CreateTypeOK, NEW w \in Workers, WorkerMove(w)
  PROVE  /\ UNCHANGED <<stock, count, creation, parent, inode, path, fds, dlist, site, outcome, crowded>>
         /\ hurt' \in BOOLEAN /\ faults' \in 0 .. MaxFaults
         /\ ~hurt' => ~hurt /\ (w[1] = creation /\ parent # "idle" => WorkerStep(w))
<1>1. CASE WorkerStep(w)
  BY <1>1 DEF WorkerStep, CreateTypeOK
<1>2. CASE Hurts(w)
  BY <1>2 DEF Hurts, WorkerMove, CreateTypeOK, WorkerStep
<1> QED  BY <1>1, <1>2 DEF WorkerMove

LEMMA MoveKinds ==
  ASSUME NEW w \in Workers, WorkerMove(w)
  PROVE  \/ Lock(w) \/ Seek(w) \/ Write(w) \/ Unlock(w) \/ Send(w) \/ Finish(w)
         \/ Skips(w) \/ GivesUp(w) \/ Killed(w)
BY DEF WorkerMove, WorkerStep

\* Workers are of a creation that was begun, and it has a file.
LEMMA HasFile ==
  ASSUME CreateTypeOK, Shape, Ready, NEW v \in Workers, Alive(v)
  PROVE  v[1] \in 1 .. creation /\ inode[v[1]] \in Creations /\ v # <<>>
<1>1. ~(v[1] > creation)
  BY DEF Ready, Alive, Nobody
<1>2. v[1] \in Creations /\ creation \in 0 .. MaxCreations /\ v = <<v[1], v[2]>>
  BY WorkersType DEF CreateTypeOK
<1>3. v[1] \in 1 .. creation
  BY <1>1, <1>2, CreateAssumption DEF Creations
<1>4. <<v[1], v[2]>> # <<>>
  OBVIOUS
<1> QED  BY <1>2, <1>3, <1>4 DEF Shape

\* A worker changes itself only, and keeps the types.
LEMMA MoveType ==
  ASSUME CreateTypeOK, Shape, Ready, NEW w \in Workers, WorkerMove(w)
  PROVE  /\ CreateTypeOK'
         /\ \A v \in Workers \ {w} : worker'[v] = worker[v]
<1> DEFINE me == worker[w]  i == inode[w[1]]
           Effect(x) == worker' = [worker EXCEPT ![w] = x] /\ x \in WorkerStates
           Rest == /\ offset' \in [Creations -> Nat]
                   /\ file' \in [Creations -> Seq(Archives \cup {Hole})]
                   /\ lock' \in [Creations -> 0 .. MaxCreations] /\ zombies' \in Nat
<1>1. /\ me \in WorkerStates /\ w[1] \in Creations /\ offset[w[1]] \in Nat
      /\ worker \in [Workers -> WorkerStates] /\ offset \in [Creations -> Nat]
      /\ file \in [Creations -> Seq(Archives \cup {Hole})]
      /\ lock \in [Creations -> 0 .. MaxCreations] /\ zombies \in Nat
      /\ me.todo \in Seq(Archives) /\ me.sock \in Seq(Messages) /\ me.mpos \in Nat
      /\ w[1] \in 0 .. MaxCreations
  <2>1. w[1] \in Creations => w[1] \in 0 .. MaxCreations
    BY CreateAssumption DEF Creations
  <2> QED  BY <2>1, WorkersType DEF CreateTypeOK, WorkerStates
<1>2. Alive(w) => i \in Creations
  BY HasFile
<1>3. me.pc \in Working => Alive(w) /\ me.todo # <<>> /\ Head(me.todo) \in Archives /\ Tail(me.todo) \in Seq(Archives)
  <2>1. me.pc \in Working => Alive(w) /\ me.todo # <<>>
    BY DEF Ready, Alive, Working
  <2> QED  BY <1>1, <2>1
<1>4. ASSUME NEW c \in Creations, NEW v PROVE Unlocked(c, v) \in [Creations -> 0 .. MaxCreations]
  BY <1>1, CreateAssumption DEF Unlocked, Creations
<1>5. Released(w) \in [Creations -> 0 .. MaxCreations]
  BY <1>1, CreateAssumption DEF Released
<1>6. ASSUME NEW sock \in Seq(Messages), Exits(w, sock)
      PROVE  (\E x : Effect(x)) /\ lock' \in [Creations -> 0 .. MaxCreations] /\ zombies' \in Nat
  <2>1. CASE Orphan(w)
    <3>1. Effect(Nobody)
      BY <1>6, <2>1, Data DEF Exits
    <3> QED  BY <1>1, <1>4, <1>6, <2>1, <3>1 DEF Exits
  <2>2. CASE ~Orphan(w)
    <3>1. Effect([Nobody EXCEPT !.pc = "gone", !.sock = sock])
      BY <1>6, <2>2, Data DEF Exits, WorkerStates, WorkerPcs
    <3>2. zombies' = zombies + 1 /\ lock' = lock
      BY <1>6, <2>2 DEF Exits
    <3>3. zombies' \in Nat /\ lock' \in [Creations -> 0 .. MaxCreations]
      BY <1>1, <3>2
    <3> QED  BY <3>1, <3>3
  <2> QED  BY <2>1, <2>2
<1>7. ASSUME Lock(w) PROVE (\E x : Effect(x)) /\ Rest
  <2>1. Effect([me EXCEPT !.pc = "seek"])
    BY <1>1, <1>7 DEF Lock, Goes, WorkerStates, WorkerPcs
  <2>2. lock' \in [Creations -> 0 .. MaxCreations]
    BY <1>1, <1>7 DEF Lock
  <2> QED  BY <1>1, <1>7, <2>1, <2>2 DEF Lock
<1>8. ASSUME Seek(w) PROVE (\E x : Effect(x)) /\ Rest
  <2>1. i \in Creations
    BY <1>2, <1>3, <1>8 DEF Seek, Working
  <2>2. Len(file[i]) \in Nat
    BY <1>1, <2>1
  <2>3. Effect([me EXCEPT !.pc = "write", !.mpos = Len(file[i])])
    BY <1>1, <1>8, <2>2 DEF Seek, WorkerStates, WorkerPcs
  <2>4. offset' \in [Creations -> Nat]
    BY <1>1, <1>8, <2>2 DEF Seek
  <2> QED  BY <1>1, <1>8, <2>3, <2>4 DEF Seek
<1>9. ASSUME Write(w) PROVE (\E x : Effect(x)) /\ Rest
  <2>1. i \in Creations /\ Head(me.todo) \in Archives
    BY <1>2, <1>3, <1>9 DEF Write, Working
  <2>2. Written(file[i], offset[w[1]], Head(me.todo)) \in Seq(Archives \cup {Hole})
    BY <1>1, <2>1, WrittenType
  <2>3. file' \in [Creations -> Seq(Archives \cup {Hole})]
    BY <1>1, <1>9, <2>2 DEF Write
  <2>4. Effect([me EXCEPT !.pc = "unlock"])
    BY <1>1, <1>9 DEF Write, Goes, WorkerStates, WorkerPcs
  <2>5. offset' \in [Creations -> Nat]
    BY <1>1, <1>9 DEF Write
  <2> QED  BY <1>1, <1>9, <2>3, <2>4, <2>5 DEF Write
<1>10. ASSUME Unlock(w) PROVE (\E x : Effect(x)) /\ Rest
  <2>1. Effect([me EXCEPT !.pc = "send"])
    BY <1>1, <1>10 DEF Unlock, Goes, WorkerStates, WorkerPcs
  <2> QED  BY <1>1, <1>5, <1>10, <2>1 DEF Unlock
<1>11. ASSUME Send(w) PROVE (\E x : Effect(x)) /\ Rest
  <2>1. me.todo # <<>> /\ Head(me.todo) \in Archives /\ Tail(me.todo) \in Seq(Archives) /\ me.mpos \in Nat
    BY <1>1, <1>3, <1>11 DEF Send, Working, WorkerStates
  <2>2. Append(me.sock, [of |-> Head(me.todo), pos |-> me.mpos]) \in Seq(Messages)
    BY <1>1, <2>1, Data DEF WorkerStates
  <2>3. Effect([me EXCEPT !.sock = Append(@, [of |-> Head(me.todo), pos |-> me.mpos]),
                          !.todo = Tail(@), !.mpos = 0, !.pc = "open"])
    BY <1>1, <1>11, <2>1, <2>2 DEF Send, WorkerStates, WorkerPcs
  <2> QED  BY <1>1, <1>11, <2>3 DEF Send
<1>12. ASSUME Finish(w) PROVE (\E x : Effect(x)) /\ Rest
  <2>1. Append(me.sock, End) \in Seq(Messages)
    BY <1>1, Data DEF WorkerStates
  <2> QED  BY <1>1, <1>6, <1>12, <2>1 DEF Finish
<1>13. ASSUME Skips(w) PROVE (\E x : Effect(x)) /\ Rest
  <2>1. Tail(me.todo) \in Seq(Archives)
    BY <1>1, <1>13 DEF Skips, WorkerStates
  <2>2. Effect([me EXCEPT !.todo = Tail(@)])
    BY <1>1, <1>13, <2>1 DEF Skips, WorkerStates
  <2> QED  BY <1>1, <1>13, <2>2 DEF Skips
<1>14. ASSUME GivesUp(w) PROVE (\E x : Effect(x)) /\ Rest
  <2>1. Effect([me EXCEPT !.pc = "open", !.todo = <<>>, !.mpos = 0])
    BY <1>1, <1>14 DEF GivesUp, WorkerStates, WorkerPcs
  <2> QED  BY <1>1, <1>5, <1>14, <2>1 DEF GivesUp
<1>15. ASSUME Killed(w) PROVE (\E x : Effect(x)) /\ Rest
  BY <1>1, <1>6, <1>15 DEF Killed, WorkerStates
<1>16. (\E x : Effect(x)) /\ Rest
  BY <1>7, <1>8, <1>9, <1>10, <1>11, <1>12, <1>13, <1>14, <1>15, MoveKinds
<1>17. PICK x : Effect(x)
  BY <1>16
<1>18. worker' \in [Workers -> WorkerStates] /\ \A v \in Workers \ {w} : worker'[v] = worker[v]
  BY <1>1, <1>17
<1> QED  BY <1>16, <1>18, MoveFrame DEF CreateTypeOK

\* A part of a sequence.
LEMMA PartType ==
  ASSUME NEW S, NEW s \in Seq(S), NEW a \in Nat, NEW b \in 0 .. Len(s), a <= b
  PROVE  /\ SubSeq(s, a + 1, b) \in Seq(S) /\ Len(SubSeq(s, a + 1, b)) = b - a
         /\ \A m \in 1 .. b - a : SubSeq(s, a + 1, b)[m] = s[a + m]
<1> DEFINE t == SubSeq(s, a + 1, b)
<1>1. t = [m \in 1 .. b - a |-> s[a + m]] /\ b - a \in Nat
  OBVIOUS
<1>2. \A m \in 1 .. b - a : s[a + m] \in S
  OBVIOUS
<1>3. t \in [1 .. b - a -> S]
  BY <1>1, <1>2
<1>4. \A m \in 1 .. b - a : t[m] = s[a + m]
  BY <1>1
<1> HIDE DEF t
<1>5. t \in Seq(S) /\ Len(t) = b - a
  BY <1>1, <1>3
<1> QED  BY <1>4, <1>5 DEF t

\* The archives that a parent gives a worker.
LEMMA ShareType ==
  ASSUME CreateTypeOK, stock # <<>>, NEW k \in 1 .. NumWorkers
  PROVE  /\ SubSeq(stock, Before(k - 1) + 1, Before(k)) \in Seq(Archives)
         /\ Len(SubSeq(stock, Before(k - 1) + 1, Before(k))) = Before(k) - Before(k - 1)
         /\ \A m \in 1 .. Before(k) - Before(k - 1) :
              SubSeq(stock, Before(k - 1) + 1, Before(k))[m] = stock[Before(k - 1) + m]
<1> DEFINE a == Before(k - 1)  b == Before(k)
<1>1. a \in Nat /\ b \in 0 .. Len(stock) /\ a <= b /\ stock \in Seq(Archives) /\ Len(stock) \in Nat
  <2>1. NumWorkers \in Nat
    BY SomeWorkers
  <2>2. k \in 0 .. NumWorkers /\ k - 1 \in 0 .. NumWorkers
    BY <2>1
  <2> QED  BY <2>2, Intervals DEF CreateTypeOK
<1> HIDE DEF a, b
<1>2. /\ SubSeq(stock, a + 1, b) \in Seq(Archives) /\ Len(SubSeq(stock, a + 1, b)) = b - a
      /\ \A m \in 1 .. b - a : SubSeq(stock, a + 1, b)[m] = stock[a + m]
  BY <1>1, PartType
<1> QED  BY <1>2 DEF a, b

\* The parent keeps the types.
LEMMA ParentType ==
  ASSUME CreateTypeOK, Shape, Ready, MakersNext, \A w \in Workers : ~WorkerMove(w)
  PROVE  CreateTypeOK'
<1>0. /\ Creations = 1 .. MaxCreations /\ MaxCreations \in Nat /\ 1 <= MaxCreations
      /\ 0 \in 0 .. MaxCreations /\ \A n \in Creations : n \in 0 .. MaxCreations
  BY CreateAssumption DEF Creations
<1>18. /\ <<>> \in Seq(Archives) /\ <<>> \in Seq(Archives \cup {Hole})
       /\ <<>> \in Seq(Digests) /\ <<>> \in Seq(Messages)
  OBVIOUS
<1>1. CASE CreateInit'
  <2>1. worker' \in [Workers -> WorkerStates]
    BY <1>1, Data DEF CreateInit
  <2>2. /\ offset' \in [Creations -> Nat] /\ inode' \in [Creations -> 0 .. MaxCreations]
        /\ file' \in [Creations -> Seq(Archives \cup {Hole})]
        /\ lock' \in [Creations -> 0 .. MaxCreations]
    BY <1>0, <1>1, <1>18 DEF CreateInit
  <2>3. site' \in Catalogues
    BY <1>0, <1>1 DEF CreateInit, Catalogues
  <2>4. /\ stock' = <<>> /\ count' \in 1 .. MaxWorkers /\ creation' = 0 /\ parent' = "idle"
        /\ path' = 0 /\ fds' = {} /\ zombies' = 0 /\ dlist' = <<>> /\ outcome' = "none"
        /\ faults' = 0 /\ hurt' = FALSE /\ crowded' = FALSE
    BY <1>1 DEF CreateInit
  <2>5. 0 \in 0 .. MaxCreations /\ 0 \in 0 .. MaxFaults /\ "idle" \in ParentPcs
    BY <1>0, CreateAssumption DEF ParentPcs
  <2> QED  BY <1>18, <2>1, <2>2, <2>3, <2>4, <2>5 DEF CreateTypeOK
<1>2. CASE Deposit /\ stock' \in Seq(Archives) /\ IsInjective(stock')
  BY <1>2 DEF Deposit, CreateTypeOK
<1>3. CASE Create
  <2>1. creation' \in 1 .. MaxCreations /\ path' \in 1 .. MaxCreations
    BY <1>0, <1>3 DEF Create, CreateTypeOK
  <2>2. inode' \in [Creations -> 0 .. MaxCreations]
    <3>1. inode' = [inode EXCEPT ![creation'] = path']
      BY <1>3 DEF Create
    <3>2. path' \in 0 .. MaxCreations /\ inode \in [Creations -> 0 .. MaxCreations]
      BY <1>0, <2>1 DEF CreateTypeOK
    <3> QED  BY <3>1, <3>2
  <2>3. file' \in [Creations -> Seq(Archives \cup {Hole})]
    <3>1. file' = [file EXCEPT ![path'] = <<>>]
      BY <1>3 DEF Create
    <3> QED  BY <1>18, <3>1 DEF CreateTypeOK
  <2>4. /\ dlist' \in Seq(Digests) /\ parent' \in ParentPcs
        /\ hurt' \in BOOLEAN /\ fds' \subseteq Workers /\ zombies' \in Nat
        /\ outcome' \in {"none", "ok", "failed", "killed"}
        /\ creation' \in 0 .. MaxCreations /\ path' \in 0 .. MaxCreations
    BY <1>0, <1>3, <1>18, <2>1 DEF Create, ParentPcs
  <2>5. UNCHANGED <<stock, count, worker, offset, lock, site, faults>>
    BY <1>3 DEF Create
  <2>6. crowded' \in BOOLEAN
    BY <1>3, Zenon DEF Create
  <2> QED  BY <2>2, <2>3, <2>4, <2>5, <2>6 DEF CreateTypeOK
<1>4. CASE Fork
  <2>1. PICK k \in 1 .. NumWorkers : k = Cardinality(fds) + 1
    <3>1. Cardinality(fds) \in Nat /\ Cardinality(fds) < NumWorkers
      BY <1>4 DEF Fork, Shape
    <3> QED  BY <3>1, <1>4, SomeWorkers DEF Shape, Fork
  <2>2. stock # <<>> /\ <<creation, k>> \in Workers
    BY <1>4, CurrentWorkers DEF Fork, Shape
  <2>3. [Nobody EXCEPT !.pc = "open", !.todo = SubSeq(stock, Before(k - 1) + 1, Before(k))] \in WorkerStates
    BY <2>2, ShareType, Data DEF WorkerStates, WorkerPcs
  <2>4. worker' \in [Workers -> WorkerStates]
    BY <1>4, <2>1, <2>3 DEF Fork, CreateTypeOK
  <2> QED  BY <1>4, <2>1, <2>2, <2>4 DEF Fork, CreateTypeOK
<1>5. CASE Mark
  <2>1. worker' \in [Workers -> WorkerStates]
    <3> SUFFICES ASSUME NEW w \in Workers PROVE worker'[w] \in WorkerStates
      BY <1>5 DEF Mark
    <3> QED  BY <1>5, WorkersType DEF Mark, WorkerStates
  <2> QED  BY <1>5, <2>1 DEF Mark, CreateTypeOK, ParentPcs
<1>6. ASSUME NEW w \in fds, ReadDigest(w) \/ ReadEnd(w)  PROVE CreateTypeOK'
  <2>1. w \in Workers /\ worker[w] \in WorkerStates
    BY WorkersType DEF CreateTypeOK
  <2>2. CASE ReadDigest(w)
    <3>1. Head(worker[w].sock) \in Messages /\ Tail(worker[w].sock) \in Seq(Messages)
      BY <2>1, <2>2 DEF ReadDigest, WorkerStates
    <3>2. Head(worker[w].sock) \in Digests
      BY <2>2, <3>1, Data DEF ReadDigest
    <3>3. [worker[w] EXCEPT !.sock = Tail(@)] \in WorkerStates
      BY <2>1, <3>1 DEF WorkerStates
    <3>4. worker' \in [Workers -> WorkerStates]
      BY <2>1, <2>2, <3>3 DEF ReadDigest, CreateTypeOK
    <3>5. dlist' \in Seq(Digests)
      BY <2>2, <3>2 DEF ReadDigest, CreateTypeOK
    <3> QED  BY <2>2, <3>4, <3>5 DEF ReadDigest, CreateTypeOK
  <2>3. CASE ReadEnd(w)
    <3>1. [worker[w] EXCEPT !.sock = <<>>] \in WorkerStates
      BY <1>18, <2>1 DEF WorkerStates
    <3>2. worker' \in [Workers -> WorkerStates]
      BY <2>1, <2>3, <3>1 DEF ReadEnd, CreateTypeOK
    <3> QED  BY <2>3, <3>2 DEF ReadEnd, CreateTypeOK, ParentPcs
  <2> QED  BY <1>6, <2>2, <2>3
<1>7. CASE Wait
  BY <1>7 DEF Wait, CreateTypeOK, ParentPcs
<1>8. CASE Sort
  <2>1. PICK order \in Bijection(DOMAIN dlist, DOMAIN dlist) : dlist' = [k \in DOMAIN dlist |-> dlist[order[k]]]
    BY <1>8 DEF Sort
  <2>2. order \in [DOMAIN dlist -> DOMAIN dlist]
    BY DEF Bijection, Injection
  <2>3. dlist \in Seq(Digests) /\ DOMAIN dlist = 1 .. Len(dlist) /\ Len(dlist) \in Nat
    BY DEF CreateTypeOK
  <2>4. dlist' \in [1 .. Len(dlist) -> Digests]
    <3> SUFFICES ASSUME NEW k \in 1 .. Len(dlist) PROVE dlist[order[k]] \in Digests
      BY <2>1, <2>3
    <3>1. order[k] \in 1 .. Len(dlist)
      BY <2>2, <2>3
    <3> QED  BY <2>3, <3>1
  <2>5. dlist' \in Seq(Digests)
    BY <2>3, <2>4
  <2> QED  BY <1>8, <2>5 DEF Sort, CreateTypeOK, ParentPcs
<1>9. ASSUME NEW c \in 1 .. MaxCreations, NEW v PROVE Unlocked(c, v) \in [Creations -> 0 .. MaxCreations]
  BY <1>0 DEF Unlocked, CreateTypeOK
<1>10. [w \in Workers |-> IF worker[w].pc = "gone" THEN Nobody ELSE worker[w]] \in [Workers -> WorkerStates]
  BY Data DEF CreateTypeOK
<1>11. CASE WriteMeta
  <2>1. creation \in 1 .. MaxCreations
    BY <1>0, <1>11 DEF WriteMeta, Shape
  <2> QED  BY <1>9, <1>10, <1>11, <2>1 DEF WriteMeta, CreateTypeOK, ParentPcs
<1>12. CASE PackMeta
  <2>1. site' \in Catalogues
    BY <1>12 DEF PackMeta, CreateTypeOK, Catalogues
  <2> QED  BY <1>12, <2>1 DEF PackMeta, CreateTypeOK, ParentPcs
<1>13. Live => path \in Creations
  <2>1. ASSUME Live PROVE creation \in 1 .. creation /\ path = inode[creation]
    <3>1. creation \in Creations /\ path = inode[creation]
      BY <2>1 DEF Live, Shape
    <3>2. creation \in 1 .. MaxCreations
      BY <1>0, <3>1
    <3> QED  BY <1>0, <3>1, <3>2
  <2> QED  BY <2>1 DEF Shape
<1>14. Unlinked \in [Creations -> Seq(Archives \cup {Hole})]
  BY <1>18 DEF Unlinked, CreateTypeOK
<1>15. CASE PackManifests
  <2>1. file[path] \in Seq(Archives \cup {Hole})
    BY <1>13, <1>15 DEF Live, PackManifests, CreateTypeOK
  <2>2. {file[path][k] : k \in 1 .. Len(file[path])} \ {Hole} \subseteq Archives
    BY <2>1
  <2>3. site' \in Catalogues
    BY <1>15, <2>2 DEF PackManifests, CreateTypeOK, Catalogues
  <2>4. /\ parent' \in ParentPcs /\ path' \in 0 .. MaxCreations /\ file' = Unlinked
        /\ UNCHANGED <<stock, count, creation, worker, offset, inode, lock, fds, zombies, dlist,
                       outcome, faults, hurt, crowded>>
    <3>1. /\ parent' = "pack digests" /\ path' = 0 /\ file' = Unlinked
          /\ UNCHANGED <<stock, count, creation, worker, offset, inode, lock, fds, zombies, dlist,
                         outcome, faults, hurt, crowded>>
      BY <1>15 DEF PackManifests
    <3> QED  BY <1>0, <3>1 DEF ParentPcs
  <2> QED  BY <1>14, <2>3, <2>4 DEF CreateTypeOK
<1>16. CASE Ending
  <2>1. PICK result \in {"ok", "failed", "killed"} : Leaves(result, worker)
    BY <1>16 DEF Ending, PackDigests, ForkFails, ParentKilled, PackFails
  <2>2. /\ parent' \in ParentPcs /\ outcome' \in {"none", "ok", "failed", "killed"}
        /\ worker' \in [Workers -> WorkerStates] /\ fds' \subseteq Workers /\ zombies' \in Nat
        /\ dlist' \in Seq(Digests) /\ hurt' \in BOOLEAN /\ crowded' \in BOOLEAN
    BY <1>10, <1>18, <2>1 DEF Leaves, ParentPcs
  <2>3. UNCHANGED <<stock, count, creation, offset, inode>> /\ faults' \in 0 .. MaxFaults
    BY <1>16 DEF Ending, PackDigests, ForkFails, ParentKilled, PackFails
  <2>4. path' \in 0 .. MaxCreations /\ file' \in [Creations -> Seq(Archives \cup {Hole})]
    <3>1. (path' = path \/ path' = 0) /\ (file' = file \/ file' = Unlinked)
      BY <1>16 DEF Ending, PackDigests, ForkFails, ParentKilled, PackFails
    <3> QED  BY <1>0, <1>14, <3>1 DEF CreateTypeOK
  <2>5. lock' \in [Creations -> 0 .. MaxCreations]
    <3>1. parent # "idle" => creation \in 1 .. MaxCreations
      BY <1>0 DEF Shape
    <3> QED  BY <1>9, <1>16, <3>1 DEF Ending, PackDigests, ForkFails, ParentKilled, PackFails, CreateTypeOK
  <2>6. {dlist[k].of : k \in 1 .. Len(dlist)} \subseteq Archives
    <3> SUFFICES ASSUME NEW k \in 1 .. Len(dlist) PROVE dlist[k].of \in Archives
      OBVIOUS
    <3>1. dlist[k] \in Digests
      <4>1. dlist \in Seq(Digests)
        BY DEF CreateTypeOK
      <4> QED  BY <4>1
    <3> QED  BY <3>1 DEF Digests
  <2>7. site' \in Catalogues
    <3>1. \/ site' = site \/ site' = [site EXCEPT !.meta = 0]
          \/ site' = [site EXCEPT !.manifests = 0, !.offers = {}]
          \/ site' = [site EXCEPT !.digests = 0, !.listed = {}]
          \/ site' = [site EXCEPT !.digests = creation, !.listed = {dlist[k].of : k \in 1 .. Len(dlist)}]
      BY <1>16 DEF Ending, PackDigests, ForkFails, ParentKilled, PackFails
    <3>2. creation \in 0 .. MaxCreations /\ 0 \in 0 .. MaxCreations /\ site \in Catalogues
      BY <1>0 DEF CreateTypeOK
    <3> QED  BY <2>6, <3>1, <3>2 DEF Catalogues
  <2> QED  BY <2>2, <2>3, <2>4, <2>5, <2>7 DEF CreateTypeOK
<1>17. CASE UNCHANGED makers
  BY <1>17 DEF makers, CreateTypeOK
<1> QED  BY <1>1, <1>2, <1>3, <1>4, <1>5, <1>6, <1>7, <1>8, <1>11, <1>12, <1>15, <1>16, <1>17 DEF MakersNext

\* The workers that the parent still listens to.
LEMMA Polled ==
  ASSUME CreateTypeOK, Shape, NEW w \in fds
  PROVE  /\ w \in Workers /\ w[1] = creation /\ parent # "idle"
         /\ w[2] \in 1 .. NumWorkers /\ w = <<creation, w[2]>>
<1>1. w \in Workers /\ parent # "idle"
  BY DEF Shape, CreateTypeOK
<1>2. PICK k \in 1 .. NumWorkers : w = <<creation, k>>
  BY DEF Shape
<1> QED  BY <1>1, <1>2

\* What the moves make of a worker.
Same(w) ==
  /\ worker'[w].told = worker[w].told /\ worker'[w].todo = worker[w].todo
  /\ worker'[w].sock = worker[w].sock

LEMMA MoveFields ==
  ASSUME CreateTypeOK, NEW w \in Workers
  PROVE  /\ Lock(w) => Same(w) /\ worker'[w].pc = "seek" /\ worker'[w].mpos = worker[w].mpos
         /\ Seek(w) => Same(w) /\ worker'[w].pc = "write" /\ worker'[w].mpos = Len(file[inode[w[1]]])
         /\ Write(w) => Same(w) /\ worker'[w].pc = "unlock" /\ worker'[w].mpos = worker[w].mpos
         /\ Unlock(w) => Same(w) /\ worker'[w].pc = "send" /\ worker'[w].mpos = worker[w].mpos
         /\ Send(w) => /\ worker'[w].told = worker[w].told /\ worker'[w].todo = Tail(worker[w].todo)
                       /\ worker'[w].sock =
                            Append(worker[w].sock, [of |-> Head(worker[w].todo), pos |-> worker[w].mpos])
                       /\ worker'[w].pc = "open"
         /\ Skips(w) => /\ worker'[w].told = worker[w].told /\ worker'[w].todo = Tail(worker[w].todo)
                        /\ worker'[w].sock = worker[w].sock /\ worker'[w].pc = "open"
         /\ GivesUp(w) => /\ worker'[w].told = worker[w].told /\ worker'[w].todo = <<>>
                          /\ worker'[w].sock = worker[w].sock /\ worker'[w].pc = "open"
<1> DEFINE me == worker[w]
<1>1. worker \in [Workers -> WorkerStates] /\ me \in WorkerStates
  BY WorkersType DEF CreateTypeOK
<1>2. Lock(w) => Same(w) /\ worker'[w].pc = "seek" /\ worker'[w].mpos = me.mpos
  BY <1>1 DEF Lock, Goes, Same, WorkerStates
<1>3. Seek(w) => Same(w) /\ worker'[w].pc = "write" /\ worker'[w].mpos = Len(file[inode[w[1]]])
  BY <1>1 DEF Seek, Same, WorkerStates
<1>4. Write(w) => Same(w) /\ worker'[w].pc = "unlock" /\ worker'[w].mpos = me.mpos
  BY <1>1 DEF Write, Goes, Same, WorkerStates
<1>5. Unlock(w) => Same(w) /\ worker'[w].pc = "send" /\ worker'[w].mpos = me.mpos
  BY <1>1 DEF Unlock, Goes, Same, WorkerStates
<1>6. Send(w) => /\ worker'[w].told = me.told /\ worker'[w].todo = Tail(me.todo)
                 /\ worker'[w].sock = Append(me.sock, [of |-> Head(me.todo), pos |-> me.mpos])
                 /\ worker'[w].pc = "open"
  BY <1>1 DEF Send, WorkerStates
<1>7. Skips(w) => /\ worker'[w].told = me.told /\ worker'[w].todo = Tail(me.todo)
                  /\ worker'[w].sock = me.sock /\ worker'[w].pc = "open"
  BY <1>1 DEF Skips, WorkerStates
<1>8. GivesUp(w) => /\ worker'[w].told = me.told /\ worker'[w].todo = <<>>
                    /\ worker'[w].sock = me.sock /\ worker'[w].pc = "open"
  BY <1>1 DEF GivesUp, WorkerStates
<1> QED  BY <1>2, <1>3, <1>4, <1>5, <1>6, <1>7, <1>8

\* A worker that ends.
LEMMA ExitFields ==
  ASSUME CreateTypeOK, NEW w \in Workers, NEW sock, Exits(w, sock)
  PROVE  /\ worker'[w].pc \in {"none", "gone"} /\ worker'[w].todo = <<>> /\ ~worker'[w].told
         /\ worker'[w].pc = "none" <=> Orphan(w)
         /\ worker'[w].pc = "none" => worker'[w] = Nobody
         /\ worker'[w].pc = "gone" => worker'[w].sock = sock
<1>1. worker \in [Workers -> WorkerStates]
  BY DEF CreateTypeOK
<1>2. CASE Orphan(w)
  <2>1. worker'[w] = Nobody
    BY <1>1, <1>2 DEF Exits
  <2> QED  BY <1>2, <2>1 DEF Nobody
<1>3. CASE ~Orphan(w)
  <2>1. worker'[w] = [Nobody EXCEPT !.pc = "gone", !.sock = sock]
    BY <1>1, <1>3 DEF Exits
  <2> QED  BY <1>3, <2>1 DEF Nobody
<1> QED  BY <1>2, <1>3

\* A worker that moves was there, and what it becomes makes sense.
LEMMA MoveSelf ==
  ASSUME CreateTypeOK, Shape, Ready, NEW w \in Workers, WorkerMove(w)
  PROVE  /\ Alive(w) /\ (worker'[w].told => worker[w].told)
         /\ worker'[w].pc = "none" => worker'[w] = Nobody /\ w \notin fds
         /\ worker'[w].pc \in Working => worker'[w].told /\ worker'[w].todo # <<>>
<1>1. worker[w].pc \in Working => worker[w].told /\ worker[w].todo # <<>>
  BY DEF Ready
<1>2. CASE Lock(w)
  BY <1>2, MoveFields DEF Lock, Alive, Same
<1>3. CASE Seek(w) \/ Write(w) \/ Unlock(w)
  BY <1>1, <1>3, MoveFields DEF Seek, Write, Unlock, Alive, Same, Working
<1>4. CASE Send(w) \/ Skips(w) \/ GivesUp(w)
  BY <1>4, MoveFields DEF Send, Skips, GivesUp, Alive, Working
<1>5. CASE Finish(w) \/ Killed(w)
  <2>1. Alive(w) /\ \E sock : Exits(w, sock)
    BY <1>5 DEF Finish, Killed, Alive
  <2>2. PICK sock : Exits(w, sock)
    BY <2>1
  <2>3. w \in fds => ~Orphan(w)
    BY Polled DEF Orphan
  <2> QED  BY <2>1, <2>2, <2>3, ExitFields DEF Working
<1> QED  BY <1>2, <1>3, <1>4, <1>5, MoveKinds

-----------------------------------------------------------------------------
(* The shape of a creation.                                                *)

\* The shares depend on these only.
LEMMA SameShares ==
  ASSUME UNCHANGED <<stock, count>>
  PROVE  NumWorkers' = NumWorkers /\ \A k : Before(k)' = Before(k)
BY DEF NumWorkers, Before

\* Forking: the worker is the next one.
LEMMA ForkNext ==
  ASSUME CreateTypeOK, Shape, Ready, Fork
  PROVE  \E k \in 1 .. NumWorkers :
           /\ fds = {<<creation, j>> : j \in 1 .. k - 1} /\ fds' = {<<creation, j>> : j \in 1 .. k}
           /\ Cardinality(fds) = k - 1 /\ Cardinality(fds') = k
           /\ <<creation, k>> \in Workers \ fds /\ fds' = fds \cup {<<creation, k>>}
           /\ worker' = [worker EXCEPT ![<<creation, k>>] =
                [Nobody EXCEPT !.pc = "open", !.todo = SubSeq(stock, Before(k - 1) + 1, Before(k))]]
<1>1. PICK n \in 0 .. NumWorkers : fds = {<<creation, j>> : j \in 1 .. n} /\ Cardinality(fds) = n
  BY DEF Shape, Fork
<1>2. creation \in Creations /\ stock # <<>> /\ parent # "idle" /\ NumWorkers \in Nat
  BY SomeWorkers DEF Fork, Shape
<1>3. PICK k \in 1 .. NumWorkers : k = n + 1
  BY <1>1, <1>2 DEF Fork
<1>4. <<creation, k>> \in Workers /\ n \in Nat /\ n = k - 1
  BY <1>2, <1>3, CurrentWorkers
<1>5. fds' = fds \cup {<<creation, k>>}
  BY <1>1, <1>3 DEF Fork
<1>6. <<creation, k>> \notin fds
  BY <1>1, <1>3
<1>7. fds' = {<<creation, j>> : j \in 1 .. k}
  BY <1>1, <1>3, <1>4, <1>5
<1>8. Cardinality(fds') = k
  <2>1. IsFiniteSet(1 .. n)
    BY <1>4, FS_Interval
  <2>2. IsFiniteSet(fds)
    <3> DEFINE f == [j \in 1 .. n |-> <<creation, j>>]
    <3>1. f \in Surjection(1 .. n, fds)
      BY <1>1 DEF Surjection
    <3> QED  BY <2>1, <3>1, FS_Surjection
  <2> QED  BY <1>1, <1>3, <1>5, <1>6, <2>2, FS_AddElement
<1>9. worker' = [worker EXCEPT ![<<creation, k>>] =
        [Nobody EXCEPT !.pc = "open", !.todo = SubSeq(stock, Before(k - 1) + 1, Before(k))]]
  <2>1. k = Cardinality(fds) + 1
    BY <1>1, <1>3
  <2> QED  BY <2>1 DEF Fork
<1>10. fds = {<<creation, j>> : j \in 1 .. k - 1} /\ Cardinality(fds) = k - 1
  BY <1>1, <1>4
<1> QED  BY <1>4, <1>5, <1>6, <1>7, <1>8, <1>9, <1>10

\* The shape is kept.
LEMMA ShapeStep ==
  ASSUME CreateTypeOK, Shape, Ready, MakersNext
  PROVE  Shape'
<1>0. /\ creation \in 0 .. MaxCreations /\ MaxCreations \in Nat /\ Creations = 1 .. MaxCreations
      /\ parent # "idle" => creation \in 1 .. MaxCreations
  BY CreateAssumption DEF CreateTypeOK, Shape, Creations
<1>1. CASE CreateInit'
  <2>1. IsInjective(<<>>)
    BY DEF IsInjective
  <2>2. stock' = <<>> /\ creation' = 0 /\ parent' = "idle" /\ fds' = {}
    BY <1>1 DEF CreateInit
  <2>3. IsInjective(stock') /\ \A c \in 1 .. creation' : inode'[c] \in Creations
    BY <2>1, <2>2
  <2>4. fds' \subseteq {<<creation', k>> : k \in 1 .. NumWorkers'}
    BY <2>2
  <2> QED  BY <2>2, <2>3, <2>4 DEF Shape, Live
<1>2. CASE Deposit /\ stock' \in Seq(Archives) /\ IsInjective(stock')
  BY <1>2 DEF Deposit, Shape, Live
<1>3. CASE Create
  <2>1. creation' \in 1 .. MaxCreations /\ creation' = creation + 1 /\ path' \in 1 .. MaxCreations
    BY <1>0, <1>3 DEF Create, CreateTypeOK
  <2>2. inode' = [inode EXCEPT ![creation'] = path'] /\ inode \in [Creations -> 0 .. MaxCreations]
    BY <1>3 DEF Create, CreateTypeOK
  <2>3. \A c \in 1 .. creation' : inode'[c] \in Creations
    <3> SUFFICES ASSUME NEW c \in 1 .. creation' PROVE inode'[c] \in Creations
      OBVIOUS
    <3>1. c \in Creations /\ (c = creation' \/ c \in 1 .. creation)
      BY <1>0, <2>1
    <3>2. c \in 1 .. creation => inode[c] \in Creations
      BY DEF Shape
    <3> QED  BY <1>0, <2>1, <2>2, <3>1, <3>2
  <2>4. inode'[creation'] = path'
    BY <1>0, <2>1, <2>2
  <2>5. /\ stock' = stock /\ stock # <<>> /\ parent' = "fork" /\ fds' = {} /\ outcome' = "none"
        /\ worker' = worker /\ UNCHANGED <<stock, count>>
    BY <1>3 DEF Create
  <2>6. NumWorkers' \in Nat
    BY <2>5, SomeWorkers, SameShares
  <2>7. \E n \in 0 .. NumWorkers' : fds' = {<<creation', k>> : k \in 1 .. n} /\ Cardinality(fds') = n
    <3>1. {} = {<<creation', k>> : k \in 1 .. 0} /\ Cardinality({}) = 0
      BY FS_EmptySet
    <3> QED  BY <2>5, <2>6, <3>1
  <2>8. ASSUME NEW w \in Workers, w[1] = creation' PROVE ~worker'[w].told
    <3>1. worker[w] = Nobody
      BY <1>0, <2>1, <2>8 DEF Ready
    <3> QED  BY <2>5, <3>1 DEF Nobody
  <2> QED  BY <1>0, <2>1, <2>3, <2>4, <2>5, <2>7, <2>8 DEF Shape, Live
<1>4. CASE Fork
  <2>1. PICK k \in 1 .. NumWorkers :
           /\ fds' = {<<creation, j>> : j \in 1 .. k}
           /\ Cardinality(fds') = k /\ <<creation, k>> \in Workers
           /\ worker' = [worker EXCEPT ![<<creation, k>>] =
                [Nobody EXCEPT !.pc = "open", !.todo = SubSeq(stock, Before(k - 1) + 1, Before(k))]]
    BY <1>4, ForkNext
  <2>2. /\ parent = "fork" /\ UNCHANGED <<stock, count, creation, parent, inode, path, outcome>>
        /\ NumWorkers' = NumWorkers
    BY <1>4, SameShares DEF Fork
  <2>3. NumWorkers \in Nat /\ k \in 0 .. NumWorkers
    BY <2>2, SomeWorkers DEF Shape
  <2>4. \A w \in Workers : w[1] = creation => ~worker'[w].told
    <3>1. \A w \in Workers : w[1] = creation => ~worker[w].told
      BY <2>2 DEF Shape
    <3> QED  BY <2>1, <3>1 DEF Nobody, CreateTypeOK
  <2>5. fds' \subseteq {<<creation, j>> : j \in 1 .. NumWorkers}
    BY <2>1, <2>3
  <2> QED  BY <2>1, <2>2, <2>3, <2>4, <2>5 DEF Shape, Live
<1>5. CASE Mark
  <2>1. parent' = "poll" /\ UNCHANGED <<stock, count, creation, inode, path, fds, outcome>> /\ parent = "fork"
    BY <1>5 DEF Mark
  <2> QED  BY <2>1, SameShares DEF Shape, Live
<1>6. ASSUME NEW w \in fds, parent = "poll", ReadDigest(w) \/ ReadEnd(w)  PROVE Shape'
  <2>1. /\ parent' \in {"poll", "wait"} /\ fds' \subseteq fds
        /\ UNCHANGED <<stock, count, creation, inode, path, outcome>>
    BY <1>6 DEF ReadDigest, ReadEnd
  <2> QED  BY <1>6, <2>1, SameShares DEF Shape, Live
<1>7. CASE Wait \/ Sort \/ WriteMeta \/ PackMeta
  <2>1. /\ UNCHANGED <<stock, count, creation, inode, path, outcome, fds>>
        /\ parent \in {"wait", "sort", "meta", "pack meta"}
        /\ \/ parent' = "poll"
           \/ parent' \in {"sort", "meta", "pack meta", "pack manifests"} /\ fds = {}
    BY <1>7 DEF Wait, Sort, WriteMeta, PackMeta, Shape
  <2> QED  BY <2>1, SameShares DEF Shape, Live
<1>8. CASE PackManifests
  <2>1. /\ UNCHANGED <<stock, count, creation, inode, outcome, fds>> /\ path' = 0
        /\ parent = "pack manifests" /\ parent' = "pack digests"
    BY <1>8 DEF PackManifests
  <2> QED  BY <2>1, SameShares DEF Shape, Live
<1>9. CASE Ending
  <2>1. UNCHANGED <<stock, creation, inode>> /\ parent' = "idle" /\ fds' = {}
    BY <1>9 DEF Ending, PackDigests, ForkFails, ParentKilled, PackFails, Leaves
  <2> QED  BY <2>1 DEF Shape, Live
<1>10. ASSUME NEW w \in Workers, WorkerMove(w) PROVE Shape'
  <2>1. UNCHANGED <<stock, count, creation, parent, inode, path, fds, outcome>>
    BY <1>10, MoveFrame
  <2>2. \A v \in Workers : worker'[v].told => worker[v].told
    BY <1>10, MoveType, MoveSelf
  <2> QED  BY <2>1, <2>2, SameShares DEF Shape, Live
<1>11. CASE UNCHANGED makers
  BY <1>11, SameShares DEF makers, Shape, Live
<1> QED  BY <1>1, <1>2, <1>3, <1>4, <1>5, <1>6, <1>7, <1>8, <1>9, <1>10, <1>11 DEF MakersNext

\* So is the state of the workers.
LEMMA ReadyStep ==
  ASSUME CreateTypeOK, Shape, Ready, MakersNext
  PROVE  Ready'
<1>0. /\ creation \in 0 .. MaxCreations /\ Creations = 1 .. MaxCreations /\ MaxCreations \in Nat
      /\ \A w \in Workers : w[1] \in 1 .. MaxCreations
      /\ Nobody.pc = "none"
  BY CreateAssumption DEF CreateTypeOK, Creations, Workers, Nobody
<1>1. CASE CreateInit'
  BY <1>1, <1>0 DEF CreateInit, Ready, Working
<1>2. CASE Deposit
  BY <1>2 DEF Deposit, Ready
<1>3. CASE Create
  <2>1. /\ creation' = creation + 1 /\ worker' = worker /\ fds' = {}
    BY <1>3 DEF Create
  <2> SUFFICES ASSUME NEW w \in Workers PROVE
        /\ w[1] > creation' => worker'[w] = Nobody
        /\ worker'[w].pc = "none" => worker'[w] = Nobody
        /\ worker'[w].pc \in Working => worker'[w].told /\ worker'[w].todo # <<>>
        /\ w[1] = creation' => worker'[w] = Nobody
    BY <1>0, <2>1 DEF Ready
  <2> QED  BY <1>0, <2>1 DEF Ready
<1>4. CASE Fork
  <2>1. PICK k \in 1 .. NumWorkers :
           /\ fds = {<<creation, j>> : j \in 1 .. k - 1} /\ fds' = {<<creation, j>> : j \in 1 .. k}
           /\ <<creation, k>> \in Workers \ fds /\ fds' = fds \cup {<<creation, k>>}
           /\ worker' = [worker EXCEPT ![<<creation, k>>] =
                [Nobody EXCEPT !.pc = "open", !.todo = SubSeq(stock, Before(k - 1) + 1, Before(k))]]
    BY <1>4, ForkNext
  <2>2. parent = "fork" /\ UNCHANGED <<stock, count, creation, parent>> /\ NumWorkers' = NumWorkers
    BY <1>4, SameShares DEF Fork
  <2>3. k <= NumWorkers
    BY <2>2, SomeWorkers DEF Shape
  <2>4. worker'[<<creation, k>>].pc = "open" /\ \A w \in Workers \ {<<creation, k>>} : worker'[w] = worker[w]
    BY <2>1 DEF CreateTypeOK, Nobody
  <2> SUFFICES ASSUME NEW w \in Workers PROVE
        /\ w[1] > creation => worker'[w] = Nobody
        /\ worker'[w].pc = "none" => worker'[w] = Nobody
        /\ worker'[w].pc \in Working => worker'[w].told /\ worker'[w].todo # <<>>
        /\ w[1] = creation /\ worker'[w].pc # "none" => w[2] <= NumWorkers
        /\ w[1] = creation /\ w \notin fds' => worker'[w] = Nobody
        /\ worker'[w].pc = "none" => w \notin fds'
    BY <2>2 DEF Ready
  <2>5. CASE w = <<creation, k>>
    BY <1>0, <2>1, <2>3, <2>4, <2>5 DEF Working
  <2>6. CASE w # <<creation, k>>
    <3>1. worker'[w] = worker[w] /\ (w \notin fds' => w \notin fds)
      BY <2>1, <2>4, <2>6
    <3> QED  BY <2>1, <2>2, <2>6, <3>1 DEF Ready
  <2> QED  BY <2>5, <2>6
<1>5. CASE Mark
  <2>1. /\ parent = "fork" /\ parent' = "poll" /\ UNCHANGED <<stock, count, creation, fds>> /\ NumWorkers' = NumWorkers
        /\ worker' = [w \in Workers |-> IF w \in fds THEN [worker[w] EXCEPT !.told = TRUE] ELSE worker[w]]
    BY <1>5, SameShares DEF Mark
  <2> SUFFICES ASSUME NEW w \in Workers PROVE
        /\ w[1] > creation => worker'[w] = Nobody
        /\ worker'[w].pc = "none" => worker'[w] = Nobody
        /\ worker'[w].pc \in Working => worker'[w].told /\ worker'[w].todo # <<>>
        /\ w[1] = creation /\ worker'[w].pc # "none" => w[2] <= NumWorkers
        /\ w \in fds => worker'[w].pc # "none"
    BY <2>1 DEF Ready
  <2>2. CASE w \in fds
    <3>1. worker[w] \in WorkerStates /\ worker'[w].pc = worker[w].pc /\ worker'[w].todo = worker[w].todo /\ worker'[w].told
      BY <2>1, <2>2, WorkersType DEF WorkerStates
    <3>2. w[1] = creation
      BY <2>2, Polled
    <3> QED  BY <1>0, <2>1, <2>2, <3>1, <3>2 DEF Ready
  <2>3. CASE w \notin fds
    BY <2>1, <2>3 DEF Ready
  <2> QED  BY <2>2, <2>3
<1>6. ASSUME NEW v \in fds, parent = "poll", ReadDigest(v) \/ ReadEnd(v)  PROVE Ready'
  <2>1. v \in Workers /\ v[1] = creation
    BY Polled
  <2>2. /\ parent' \in {"poll", "wait"} /\ UNCHANGED <<stock, count, creation>> /\ NumWorkers' = NumWorkers
        /\ \E s : worker' = [worker EXCEPT ![v].sock = s]
    BY <1>6, SameShares DEF ReadDigest, ReadEnd
  <2>3. fds' \subseteq fds
    BY <1>6 DEF ReadDigest, ReadEnd
  <2>4. worker[v].pc # "none"
    BY <2>1 DEF Ready
  <2>5. /\ worker'[v].pc = worker[v].pc /\ worker'[v].todo = worker[v].todo /\ worker'[v].told = worker[v].told
        /\ \A w \in Workers \ {v} : worker'[w] = worker[w]
    BY <2>1, <2>2 DEF CreateTypeOK, WorkerStates
  <2>6. ~(v[1] > creation)
    BY <1>0, <2>1
  <2> SUFFICES ASSUME NEW w \in Workers PROVE
        /\ w[1] > creation => worker'[w] = Nobody
        /\ worker'[w].pc = "none" => worker'[w] = Nobody /\ w \notin fds
        /\ worker'[w].pc \in Working => worker'[w].told /\ worker'[w].todo # <<>>
        /\ w[1] = creation /\ worker'[w].pc # "none" => w[2] <= NumWorkers
    BY <2>2, <2>3 DEF Ready
  <2> QED  BY <1>6, <2>4, <2>5, <2>6 DEF Ready
<1>7. CASE Wait \/ Sort \/ PackMeta \/ PackManifests
  <2>1. /\ UNCHANGED <<stock, count, creation, worker, fds>> /\ parent # "idle" /\ parent' # "fork" /\ NumWorkers' = NumWorkers
    BY <1>7, SameShares DEF Wait, Sort, PackMeta, PackManifests
  <2> QED  BY <2>1 DEF Ready
<1>8. CASE WriteMeta
  <2>1. /\ UNCHANGED <<stock, count, creation>> /\ parent # "idle" /\ parent' # "fork" /\ NumWorkers' = NumWorkers
        /\ (\A w \in Workers : worker'[w] = worker[w] \/ worker'[w] = Nobody) /\ fds' = {}
    BY <1>8, SameShares DEF WriteMeta, Shape
  <2> QED  BY <1>0, <2>1 DEF Ready, Working
<1>9. CASE Ending
  <2>1. UNCHANGED creation /\ parent' = "idle" /\ fds' = {} /\ \A w \in Workers : worker'[w] = worker[w] \/ worker'[w] = Nobody
    BY <1>9 DEF Ending, PackDigests, ForkFails, ParentKilled, PackFails, Leaves
  <2> QED  BY <1>0, <2>1 DEF Ready, Working
<1>10. ASSUME NEW w \in Workers, WorkerMove(w) PROVE Ready'
  <2>1. UNCHANGED <<stock, count, creation, parent, fds>> /\ NumWorkers' = NumWorkers
    BY <1>10, MoveFrame, SameShares
  <2>2. /\ \A v \in Workers \ {w} : worker'[v] = worker[v]
        /\ Alive(w) /\ (worker'[w].pc = "none" => worker'[w] = Nobody /\ w \notin fds)
        /\ (worker'[w].pc \in Working => worker'[w].told /\ worker'[w].todo # <<>>)
    BY <1>10, MoveType, MoveSelf
  <2>3. worker[w].pc # "none" /\ worker[w] # Nobody
    BY <1>0, <2>2 DEF Alive
  <2> QED  BY <2>1, <2>2, <2>3 DEF Ready
<1>11. CASE UNCHANGED makers
  BY <1>11, SameShares DEF makers, Ready
<1> QED  BY <1>1, <1>2, <1>3, <1>4, <1>5, <1>6, <1>7, <1>8, <1>9, <1>10, <1>11 DEF MakersNext

-----------------------------------------------------------------------------
(* The lock.                                                               *)

\* Workers that share the creation, when one worker is all there is.
LEMMA Sole ==
  ASSUME CreateTypeOK, Shape, Ready, Alone, parent # "idle", ~crowded, NumWorkers = 1,
         NEW u \in Workers, NEW v \in Workers, Told(u), Told(v), u[1] = v[1]
  PROVE  u = v
<1>1. CASE v[1] # creation
  BY <1>1 DEF Alone
<1>2. CASE v[1] = creation
  <2>1. u[2] <= 1 /\ v[2] <= 1
    BY <1>2 DEF Ready, Told, Alive
  <2> QED  BY <1>2, <2>1, WorkersType, CreateAssumption
<1> QED  BY <1>1, <1>2

LEMMA BusyTold ==
  ASSUME Ready, NEW w \in Workers, worker[w].pc \in Working
  PROVE  Told(w)
BY DEF Ready, Working, Told, Alive

\* Of the workers at a file, all are of one creation.
LEMMA OneCreation ==
  ASSUME CreateTypeOK, Shape, Ready, Alone, Excludes, parent # "idle", ~crowded,
         NEW u \in Workers, NEW v \in Workers, Busy(u), Busy(v), inode[u[1]] = inode[v[1]]
  PROVE  u[1] = v[1]
<1>1. Told(u) /\ Told(v)
  BY BusyTold DEF Busy, Working
<1>2. CASE u[1] = creation /\ v[1] = creation
  BY <1>2
<1>3. CASE u[1] # creation \/ v[1] # creation
  <2>1. NumWorkers = 1
    BY <1>1, <1>3 DEF Alone
  <2> QED  BY <2>1 DEF Excludes
<1> QED  BY <1>2, <1>3

\* What the steps of a running creation do to the workers of other creations.
LEMMA Others ==
  ASSUME CreateTypeOK, Shape, Ready, MakersNext, parent # "idle", parent' # "idle"
  PROVE  /\ UNCHANGED <<stock, count, creation, crowded>> /\ NumWorkers' = NumWorkers
         /\ \A v \in Workers : Told(v)' /\ v[1] # creation => Told(v)
<1>1. CASE Fork
  <2>1. PICK k \in 1 .. NumWorkers :
           /\ <<creation, k>> \in Workers \ fds
           /\ worker' = [worker EXCEPT ![<<creation, k>>] =
                [Nobody EXCEPT !.pc = "open", !.todo = SubSeq(stock, Before(k - 1) + 1, Before(k))]]
    BY <1>1, ForkNext
  <2>2. \A v \in Workers : v[1] # creation => worker'[v] = worker[v]
    BY <2>1 DEF CreateTypeOK
  <2> QED  BY <1>1, <2>2, SameShares DEF Fork, Told, Alive
<1>2. CASE Mark
  <2>1. \A v \in Workers : v[1] # creation => v \notin fds
    BY Polled
  <2>2. \A v \in Workers : v[1] # creation => worker'[v] = worker[v]
    BY <1>2, <2>1 DEF Mark
  <2> QED  BY <1>2, <2>2, SameShares DEF Mark, Told, Alive
<1>3. ASSUME NEW w \in fds, ReadDigest(w) \/ ReadEnd(w)
      PROVE  /\ UNCHANGED <<stock, count, creation, crowded>>
             /\ \A v \in Workers : Told(v)' /\ v[1] # creation => Told(v)
  <2>1. w \in Workers /\ w[1] = creation
    BY Polled
  <2>2. \A v \in Workers : v[1] # creation => worker'[v] = worker[v]
    BY <1>3, <2>1 DEF ReadDigest, ReadEnd, CreateTypeOK
  <2> QED  BY <1>3, <2>2 DEF ReadDigest, ReadEnd, Told, Alive
<1>4. CASE Wait \/ Sort \/ PackMeta \/ PackManifests \/ UNCHANGED makers
  BY <1>4, SameShares DEF Wait, Sort, PackMeta, PackManifests, makers, Told, Alive
<1>5. CASE WriteMeta
  BY <1>5, SameShares DEF WriteMeta, Told, Alive, Nobody
<1>6. ASSUME NEW w \in Workers, WorkerMove(w)
      PROVE  /\ UNCHANGED <<stock, count, creation, crowded>>
             /\ \A v \in Workers : Told(v)' /\ v[1] # creation => Told(v)
  BY <1>6, MoveFrame, MoveType, MoveSelf DEF Told, Alive
<1>7. ~Deposit /\ ~Create /\ ~CreateInit' /\ ~Ending
  BY DEF Deposit, Create, CreateInit, Ending, PackDigests, ForkFails, ParentKilled, PackFails, Leaves
<1> QED  BY <1>1, <1>2, <1>3, <1>4, <1>5, <1>6, <1>7, SameShares DEF MakersNext

\* Only a creation begins when there is none.
LEMMA Starts ==
  ASSUME CreateTypeOK, Shape, MakersNext, parent = "idle", parent' # "idle"
  PROVE  Create
<1>1. ~Deposit /\ ~CreateInit' /\ ~Fork /\ ~Mark /\ ~Wait /\ ~Sort /\ ~WriteMeta /\ ~PackMeta /\ ~PackManifests
  BY DEF Deposit, CreateInit, Fork, Mark, Wait, Sort, WriteMeta, PackMeta, PackManifests
<1>2. ~Ending /\ ~(UNCHANGED makers)
  BY DEF makers, Ending, PackDigests, ForkFails, ParentKilled, PackFails, Leaves
<1>3. ~\E w \in Workers : WorkerMove(w)
  BY MoveFrame
<1> QED  BY <1>1, <1>2, <1>3 DEF MakersNext

\* The workers of earlier creations are still alone.
LEMMA AloneStep ==
  ASSUME CreateTypeOK, Shape, Ready, Alone, MakersNext
  PROVE  Alone'
<1>1. CASE parent' = "idle"
  BY <1>1 DEF Alone
<1>2. CASE parent # "idle" /\ parent' # "idle"
  <2> SUFFICES ASSUME ~crowded, NEW v \in Workers, Told(v)', v[1] # creation
               PROVE  NumWorkers = 1 /\ \A u \in Workers : Told(u)' /\ u[1] = v[1] => u = v
    BY <1>2, Others DEF Alone
  <2> QED  BY <1>2, Others DEF Alone
<1>3. CASE parent = "idle" /\ parent' # "idle"
  <2>1. Create
    BY <1>3, Starts
  <2>2. UNCHANGED <<stock, count, worker>> /\ NumWorkers' = NumWorkers /\ stock # <<>>
    BY <2>1, SameShares DEF Create
  <2> SUFFICES ASSUME ~crowded', NEW v \in Workers, Told(v)
               PROVE  NumWorkers = 1 /\ \A u \in Workers : Told(u) /\ u[1] = v[1] => u = v
    BY <2>2 DEF Alone, Told, Alive
  <2>3. Orphan(v) /\ worker[v].told
    BY <1>3 DEF Told, Orphan
  <2>4. ~(NumWorkers > 1) /\ ~Shares(v)
    BY <2>1, <2>3 DEF Create
  <2> QED  BY <2>2, <2>4, SomeWorkers DEF Shares, Told
<1> QED  BY <1>1, <1>2, <1>3

\* What the parent, while it runs, leaves of the workers and of their file.
LEMMA Calm ==
  ASSUME CreateTypeOK, Shape, Ready, MakersNext, parent # "idle", parent' # "idle",
         \A w \in Workers : ~WorkerMove(w)
  PROVE  /\ UNCHANGED <<offset, inode>> /\ (lock' = lock \/ lock' = Unlocked(creation, <<>>))
         /\ Live' => Live /\ UNCHANGED <<file, path>>
         /\ \A v \in Workers : worker'[v].pc \in Working =>
              /\ worker'[v].pc = worker[v].pc /\ worker'[v].todo = worker[v].todo
              /\ worker'[v].mpos = worker[v].mpos
         /\ \A v \in Workers : \A m \in 1 .. Len(worker'[v].sock) :
              \E n \in 1 .. Len(worker[v].sock) : worker'[v].sock[m] = worker[v].sock[n]
<1> DEFINE Still == /\ UNCHANGED <<offset, inode>> /\ (lock' = lock \/ lock' = Unlocked(creation, <<>>))
                    /\ Live' => Live /\ UNCHANGED <<file, path>>
           Quiet(v) == /\ worker'[v].pc \in Working =>
                           /\ worker'[v].pc = worker[v].pc /\ worker'[v].todo = worker[v].todo
                           /\ worker'[v].mpos = worker[v].mpos
                      /\ \A m \in 1 .. Len(worker'[v].sock) :
                           \E n \in 1 .. Len(worker[v].sock) : worker'[v].sock[m] = worker[v].sock[n]
<1>1. ASSUME NEW v \in Workers, worker'[v] = worker[v] PROVE Quiet(v)
  BY <1>1
<1>2. ASSUME NEW v \in Workers, worker'[v].pc \notin Working, worker'[v].sock = <<>> PROVE Quiet(v)
  BY <1>2
<1>3. Nobody.pc = "none" /\ Nobody.sock = <<>> /\ "none" \notin Working /\ "open" \notin Working
  BY DEF Nobody, Working
<1>4. CASE Fork
  <2>1. PICK k \in 1 .. NumWorkers :
           /\ <<creation, k>> \in Workers \ fds
           /\ worker' = [worker EXCEPT ![<<creation, k>>] =
                [Nobody EXCEPT !.pc = "open", !.todo = SubSeq(stock, Before(k - 1) + 1, Before(k))]]
    BY <1>4, ForkNext
  <2>2. \A v \in Workers \ {<<creation, k>>} : worker'[v] = worker[v]
    BY <2>1 DEF CreateTypeOK
  <2>3. worker'[<<creation, k>>].pc = "open" /\ worker'[<<creation, k>>].sock = <<>>
    BY <2>1 DEF CreateTypeOK, Nobody
  <2>4. \A v \in Workers : Quiet(v)
    BY <1>1, <1>2, <1>3, <2>2, <2>3
  <2> QED  BY <1>4, <2>4 DEF Fork, Live
<1>5. CASE Mark
  <2>1. \A v \in Workers : /\ worker'[v].pc = worker[v].pc /\ worker'[v].todo = worker[v].todo
                           /\ worker'[v].mpos = worker[v].mpos /\ worker'[v].sock = worker[v].sock
    BY <1>5 DEF Mark, CreateTypeOK, WorkerStates
  <2> QED  BY <1>5, <2>1 DEF Mark, Live
<1>6. ASSUME NEW w \in fds, ReadDigest(w) \/ ReadEnd(w), parent = "poll"
      PROVE  Still /\ \A v \in Workers : Quiet(v)
  <2>1. w \in Workers /\ worker[w] \in WorkerStates /\ worker \in [Workers -> WorkerStates]
    BY Polled, WorkersType DEF CreateTypeOK
  <2>2. PICK s : worker' = [worker EXCEPT ![w].sock = s] /\
                 (s = <<>> \/ (s = Tail(worker[w].sock) /\ worker[w].sock # <<>>))
    BY <1>6 DEF ReadDigest, ReadEnd
  <2>3. \A v \in Workers \ {w} : Quiet(v)
    BY <1>1, <2>1, <2>2
  <2>4. /\ worker'[w].pc = worker[w].pc /\ worker'[w].todo = worker[w].todo
        /\ worker'[w].mpos = worker[w].mpos /\ worker'[w].sock = s
    BY <2>1, <2>2 DEF WorkerStates
  <2>5. \A m \in 1 .. Len(s) : \E n \in 1 .. Len(worker[w].sock) : s[m] = worker[w].sock[n]
    <3>1. worker[w].sock \in Seq(Messages)
      BY <2>1 DEF WorkerStates
    <3>2. CASE s = <<>>
      BY <3>2
    <3>3. CASE s = Tail(worker[w].sock) /\ worker[w].sock # <<>>
      <4>1. \A m \in 1 .. Len(s) : m + 1 \in 1 .. Len(worker[w].sock) /\ s[m] = worker[w].sock[m + 1]
        BY <3>1, <3>3
      <4> QED  BY <4>1
    <3> QED  BY <2>2, <3>2, <3>3
  <2>6. Quiet(w)
    BY <2>4, <2>5
  <2>7. Still
    BY <1>6 DEF ReadDigest, ReadEnd, Live
  <2> QED  BY <2>3, <2>6, <2>7
<1>7. CASE WriteMeta
  <2>1. \A v \in Workers : worker'[v] = worker[v] \/ worker'[v] = Nobody
    BY <1>7 DEF WriteMeta
  <2>2. \A v \in Workers : Quiet(v)
    BY <1>1, <1>2, <1>3, <2>1
  <2> QED  BY <1>7, <2>2 DEF WriteMeta, Live
<1>8. CASE Wait \/ Sort \/ PackMeta \/ PackManifests \/ UNCHANGED makers
  <2>1. \A v \in Workers : Quiet(v)
    BY <1>1, <1>8 DEF Wait, Sort, PackMeta, PackManifests, makers
  <2> QED  BY <1>8, <2>1 DEF Wait, Sort, PackMeta, PackManifests, makers, Live
<1>9. ~Deposit /\ ~Create /\ ~CreateInit' /\ ~Ending
  BY DEF Deposit, Create, CreateInit, Ending, PackDigests, ForkFails, ParentKilled, PackFails, Leaves
<1> QED  BY <1>4, <1>5, <1>6, <1>7, <1>8, <1>9 DEF MakersNext

\* The lock is held by the workers at the file.
LEMMA ExcludesStep ==
  ASSUME CreateTypeOK, Shape, Ready, Alone, Excludes, MakersNext
  PROVE  Excludes'
<1>0. lock \in [Creations -> 0 .. MaxCreations] /\ \A v \in Workers : v[1] \in Creations
  BY DEF CreateTypeOK, Workers
<1>1. CASE parent' = "idle"
  BY <1>1 DEF Excludes
<1>2. CASE parent = "idle" /\ parent' # "idle"
  <2>1. Create
    BY <1>2, Starts
  <2>2. UNCHANGED <<worker, lock>> /\ inode' = [inode EXCEPT ![creation + 1] = inode'[creation + 1]]
    BY <2>1 DEF Create, CreateTypeOK, Creations
  <2> SUFFICES ASSUME ~crowded', NEW v \in Workers, Busy(v)
               PROVE  lock[inode'[v[1]]] = v[1]
    BY <2>2 DEF Excludes, Busy
  <2>3. Told(v)
    BY BusyTold DEF Busy, Working
  <2>4. ~Bare(v)
    BY <1>2, <2>1, <2>3 DEF Create, Told, Orphan
  <2>5. v[1] # creation + 1
    <3>1. creation \in Nat
      BY CreateAssumption DEF CreateTypeOK
    <3>2. v[1] = creation + 1 => worker[v] = Nobody
      BY <3>1 DEF Ready
    <3> QED  BY <3>2, <2>3 DEF Told, Alive, Nobody
  <2>6. inode'[v[1]] = inode[v[1]]
    BY <1>0, <2>2, <2>5 DEF CreateTypeOK
  <2> QED  BY <2>4, <2>6 DEF Bare, Busy
<1>3. CASE parent # "idle" /\ parent' # "idle"
  <2>0. UNCHANGED <<stock, count, creation, crowded>> /\ NumWorkers' = NumWorkers
    BY <1>3, Others
  <2>1. CASE \A w \in Workers : ~WorkerMove(w)
    <3> SUFFICES ASSUME ~crowded, NumWorkers = 1, NEW v \in Workers, Busy(v)'
                 PROVE  lock'[inode[v[1]]] = v[1]
      BY <1>3, <2>0, <2>1, Calm DEF Excludes
    <3>1. Busy(v) /\ Alive(v)
      BY <1>3, <2>1, Calm DEF Busy, Working, Alive
    <3>2. lock[inode[v[1]]] = v[1]
      BY <1>3, <3>1 DEF Excludes
    <3>3. v[1] = creation => v \in Writers(creation, <<>>)
      BY <3>1, HasFile DEF Writers
    <3>4. inode[v[1]] \in Creations
      BY <3>1, HasFile
    <3>5. Unlocked(creation, <<>>)[inode[v[1]]] = v[1]
      BY <3>2, <3>3, <3>4 DEF Unlocked
    <3> QED  BY <1>3, <2>1, <3>2, <3>5, Calm
  <2>2. ASSUME NEW w \in Workers, WorkerMove(w) PROVE Excludes'
    <3>0. UNCHANGED <<inode, parent>> /\ \A v \in Workers \ {w} : worker'[v] = worker[v]
      BY <2>2, MoveFrame, MoveType
    <3> SUFFICES ASSUME ~crowded, NumWorkers = 1, NEW v \in Workers, Busy(v)'
                 PROVE  lock'[inode[v[1]]] = v[1]
      BY <2>0, <3>0 DEF Excludes
    <3>1. CASE v = w
      <4>1. Busy(w)' => Busy(w) \/ Lock(w)
        BY <2>2, MoveKinds, MoveFields, ExitFields DEF Busy, Unlock, Seek, Write, Send, Skips, GivesUp, Finish, Killed
      <4>2. CASE Lock(w)
        <5>1. inode[w[1]] \in Creations
          BY <4>2, HasFile DEF Lock, Alive
        <5> QED  BY <1>0, <3>1, <4>2, <5>1 DEF Lock
      <4>3. CASE ~Lock(w)
        <5>1. Busy(w)
          BY <3>1, <4>1, <4>3
        <5>2. lock[inode[w[1]]] = w[1]
          BY <1>3, <5>1 DEF Excludes
        <5>3. Seek(w) \/ Write(w)
          BY <2>2, <3>1, <4>3, MoveKinds, MoveFields, ExitFields DEF Busy, Finish, Killed
        <5> QED  BY <3>1, <5>2, <5>3 DEF Seek, Write
      <4> QED  BY <4>2, <4>3
    <3>2. CASE v # w
      <4>1. Busy(v) /\ Alive(v) /\ Told(v)
        BY <3>0, <3>2, BusyTold DEF Busy, Working, Told
      <4>2. lock[inode[v[1]]] = v[1] /\ inode[v[1]] \in Creations
        BY <1>3, <4>1, HasFile DEF Excludes
      <4>3. ~(v[1] = w[1] /\ Told(w))
        BY <1>3, <3>2, <4>1, Sole
      <4>4. Unlocked(w[1], w)[inode[v[1]]] = v[1]
        BY <3>2, <4>1, <4>2 DEF Unlocked, Writers
      <4>5. Told(w) => Released(w)[inode[v[1]]] = v[1]
        BY <4>2, <4>3 DEF Released
      <4>6. CASE Lock(w)
        BY <1>0, <4>2, <4>6, CreateAssumption DEF Lock, Creations
      <4>7. CASE Unlock(w) \/ GivesUp(w)
        <5>1. Told(w)
          BY <4>7, BusyTold DEF Unlock, GivesUp, Told, Alive, Working
        <5> QED  BY <4>2, <4>5, <4>7, <5>1 DEF Unlock, GivesUp
      <4>8. CASE Finish(w) \/ Killed(w)
        BY <4>2, <4>4, <4>8 DEF Finish, Killed, Exits
      <4>9. CASE Seek(w) \/ Write(w) \/ Send(w) \/ Skips(w)
        BY <4>2, <4>9 DEF Seek, Write, Send, Skips
      <4> QED  BY <2>2, <4>6, <4>7, <4>8, <4>9, MoveKinds
    <3> QED  BY <3>1, <3>2
  <2> QED  BY <2>1, <2>2
<1> QED  BY <1>1, <1>2, <1>3

-----------------------------------------------------------------------------
(* What is said is true.                                                   *)

\* The digests that the parent has were there, or it reads them from a worker.
LEMMA Heard ==
  ASSUME CreateTypeOK, Shape, Ready, MakersNext, parent # "idle", parent' # "idle",
         NEW k \in 1 .. Len(dlist')
  PROVE  \/ \E n \in 1 .. Len(dlist) : dlist'[k] = dlist[n]
         \/ \E w \in fds : \E m \in 1 .. Len(worker[w].sock) :
              worker[w].sock[m] # End /\ dlist'[k] = worker[w].sock[m]
<1>0. dlist \in Seq(Digests) /\ Len(dlist) \in Nat /\ DOMAIN dlist = 1 .. Len(dlist)
  BY DEF CreateTypeOK
<1>1. CASE UNCHANGED dlist
  BY <1>1
<1>2. ASSUME NEW w \in fds, ReadDigest(w)
      PROVE  \/ \E n \in 1 .. Len(dlist) : dlist'[k] = dlist[n]
             \/ \E m \in 1 .. Len(worker[w].sock) :
                  worker[w].sock[m] # End /\ dlist'[k] = worker[w].sock[m]
  <2>1. worker[w].sock \in Seq(Messages) /\ worker[w].sock # <<>>
    BY <1>2, Polled, WorkersType DEF WorkerStates, ReadDigest
  <2>2. 1 \in 1 .. Len(worker[w].sock) /\ worker[w].sock[1] = Head(worker[w].sock)
    BY <2>1
  <2>3. dlist' = Append(dlist, worker[w].sock[1]) /\ worker[w].sock[1] # End
    BY <1>2, <2>2 DEF ReadDigest
  <2>4. k \in 1 .. Len(dlist) => dlist'[k] = dlist[k]
    BY <1>0, <2>3
  <2>5. k \notin 1 .. Len(dlist) => dlist'[k] = worker[w].sock[1]
    BY <1>0, <2>3
  <2> QED  BY <2>2, <2>3, <2>4, <2>5
<1>3. CASE Sort
  <2>1. PICK order \in Bijection(DOMAIN dlist, DOMAIN dlist) : dlist' = [j \in DOMAIN dlist |-> dlist[order[j]]]
    BY <1>3 DEF Sort
  <2>2. order \in [1 .. Len(dlist) -> 1 .. Len(dlist)]
    BY <1>0 DEF Bijection, Injection
  <2>3. Len(dlist') = Len(dlist)
    BY <1>0, <2>1
  <2> QED  BY <1>0, <2>1, <2>2, <2>3
<1>4. ~Deposit /\ ~Create /\ ~CreateInit' /\ ~Ending
  BY DEF Deposit, Create, CreateInit, Ending, PackDigests, ForkFails, ParentKilled, PackFails, Leaves
<1>5. \/ UNCHANGED dlist \/ Sort \/ \E w \in fds : ReadDigest(w)
  BY <1>4, MoveFrame DEF MakersNext, Fork, Mark, ReadEnd, Wait, WriteMeta, PackMeta, PackManifests, makers
<1> QED  BY <1>1, <1>2, <1>3, <1>5

\* A new creation has nothing to tell.
LEMMA TruthBegins ==
  ASSUME CreateTypeOK, CreateTypeOK', Shape, Ready, Create
  PROVE  Ahead' /\ Promised' /\ Truthful'
<1>1. /\ creation' = creation + 1 /\ worker' = worker /\ dlist' = <<>> /\ offset' = offset
      /\ creation \in 0 .. MaxCreations /\ creation' \in 0 .. MaxCreations
  BY DEF Create, CreateTypeOK
<1>2. path' \in Creations /\ file' = [file EXCEPT ![path'] = <<>>]
  BY <1>1, CreateAssumption DEF Create, CreateTypeOK, Creations
<1>3. file'[path'] = <<>> /\ Len(file'[path']) = 0
  BY <1>2 DEF CreateTypeOK
<1>4. \A w \in Workers : w[1] = creation' => worker'[w] = Nobody
  BY <1>1, CreateAssumption DEF Ready
<1>5. Ahead'
  BY <1>1, <1>3, WorkersType DEF Ahead
<1>6. Promised'
  BY <1>4 DEF Promised, Nobody
<1>7. Truthful'
  BY <1>1 DEF Truthful
<1> QED  BY <1>5, <1>6, <1>7

\* The parent hears what is true.
LEMMA TruthHeard ==
  ASSUME CreateTypeOK, Shape, Ready, Ahead, Promised, Truthful, MakersNext, Live', parent # "idle",
         \A w \in Workers : ~WorkerMove(w)
  PROVE  Ahead' /\ Promised' /\ Truthful'
<1>1. parent' # "idle"
  BY DEF Live
<1>2. /\ Live /\ UNCHANGED <<file, path, offset, inode, creation, crowded>>
      /\ \A v \in Workers : worker'[v].pc \in Working =>
           /\ worker'[v].pc = worker[v].pc /\ worker'[v].todo = worker[v].todo
           /\ worker'[v].mpos = worker[v].mpos
      /\ \A v \in Workers : \A m \in 1 .. Len(worker'[v].sock) :
           \E n \in 1 .. Len(worker[v].sock) : worker'[v].sock[m] = worker[v].sock[n]
  BY <1>1, Calm, Others
<1>3. Ahead'
  BY <1>2 DEF Ahead, Working
<1>4. \A a, n : Placed(a, n)' <=> Placed(a, n)
  BY <1>2 DEF Placed
<1>5. ASSUME ~crowded, NEW w \in Workers, w[1] = creation
      PROVE  /\ worker'[w].pc = "write" => worker'[w].mpos <= Len(file[path])
             /\ worker'[w].pc \in {"unlock", "send"} => Placed(Head(worker'[w].todo), worker'[w].mpos)
             /\ \A k \in 1 .. Len(worker'[w].sock) : worker'[w].sock[k] # End =>
                  Placed(worker'[w].sock[k].of, worker'[w].sock[k].pos)
  <2>1. worker'[w].pc \in {"write", "unlock", "send"} =>
           /\ worker'[w].pc = worker[w].pc /\ worker'[w].todo = worker[w].todo
           /\ worker'[w].mpos = worker[w].mpos
    BY <1>2 DEF Working
  <2>2. /\ worker[w].pc = "write" => worker[w].mpos <= Len(file[path])
        /\ worker[w].pc \in {"unlock", "send"} => Placed(Head(worker[w].todo), worker[w].mpos)
        /\ \A k \in 1 .. Len(worker[w].sock) : worker[w].sock[k] # End =>
             Placed(worker[w].sock[k].of, worker[w].sock[k].pos)
    BY <1>2, <1>5 DEF Promised
  <2>3. ASSUME NEW m \in 1 .. Len(worker'[w].sock), worker'[w].sock[m] # End
        PROVE  Placed(worker'[w].sock[m].of, worker'[w].sock[m].pos)
    <3>1. PICK n \in 1 .. Len(worker[w].sock) : worker'[w].sock[m] = worker[w].sock[n]
      BY <1>2
    <3> QED  BY <2>2, <2>3, <3>1
  <2> QED  BY <2>1, <2>2, <2>3
<1>6. Promised'
  BY <1>2, <1>4, <1>5 DEF Promised
<1>7. ASSUME ~crowded, NEW k \in 1 .. Len(dlist') PROVE Placed(dlist'[k].of, dlist'[k].pos)
  <2>1. CASE \E n \in 1 .. Len(dlist) : dlist'[k] = dlist[n]
    BY <1>2, <1>7, <2>1 DEF Truthful
  <2>2. CASE \E w \in fds : \E m \in 1 .. Len(worker[w].sock) :
               worker[w].sock[m] # End /\ dlist'[k] = worker[w].sock[m]
    <3>1. PICK w \in fds : \E m \in 1 .. Len(worker[w].sock) :
            worker[w].sock[m] # End /\ dlist'[k] = worker[w].sock[m]
      BY <2>2
    <3>2. w \in Workers /\ w[1] = creation
      BY Polled
    <3> QED  BY <1>2, <1>7, <3>1, <3>2 DEF Promised
  <2> QED  BY <1>1, <2>1, <2>2, Heard
<1>8. Truthful'
  BY <1>2, <1>4, <1>7 DEF Truthful
<1> QED  BY <1>3, <1>6, <1>8

PlacedNext(a, n) == \E i \in 1 .. Len(file'[path]) : file'[path][i] = a /\ i > n

\* A manifest goes behind those that are in the file.
LEMMA Appends ==
  ASSUME CreateTypeOK, Shape, Ready, Ahead, Live, ~crowded,
         NEW w \in Workers, WorkerMove(w)
  PROVE  /\ path \in Creations /\ path = inode[creation] /\ parent # "idle"
         /\ Len(file[path]) \in Nat /\ Len(file'[path]) \in Nat /\ Len(file[path]) <= Len(file'[path])
         /\ \A a, n : Placed(a, n) => PlacedNext(a, n)
         /\ Write(w) /\ inode[w[1]] = path =>
              /\ Len(file[path]) <= offset[w[1]] /\ Len(file'[path]) = offset[w[1]] + 1
              /\ file'[path][offset[w[1]] + 1] = Head(worker[w].todo)
         /\ ~(Write(w) /\ inode[w[1]] = path) => file'[path] = file[path]
<1>1. parent # "idle" /\ path = inode[creation] /\ path' = path
  BY MoveFrame DEF Live, Shape
<1>2. path \in Creations
  <2>1. creation \in 1 .. MaxCreations
    BY <1>1 DEF Shape, Creations
  <2>2. creation \in 1 .. creation
    BY <2>1, CreateAssumption
  <2> QED  BY <1>1, <2>2 DEF Shape
<1>3. /\ file[path] \in Seq(Archives \cup {Hole}) /\ file \in [Creations -> Seq(Archives \cup {Hole})]
      /\ Len(file[path]) \in Nat /\ offset[w[1]] \in Nat
  <2>1. file \in [Creations -> Seq(Archives \cup {Hole})] /\ offset[w[1]] \in Nat
    BY WorkersType DEF CreateTypeOK
  <2>2. file[path] \in Seq(Archives \cup {Hole})
    BY <1>2, <2>1
  <2> QED  BY <2>1, <2>2
<1>4. CASE ~(Write(w) /\ inode[w[1]] = path)
  <2>1. file'[path] = file[path]
    <3>1. Write(w) => file'[path] = file[path]
      BY <1>2, <1>3, <1>4 DEF Write
    <3>2. ~Write(w) => file' = file
      BY MoveKinds DEF Lock, Seek, Unlock, Send, Finish, Skips, GivesUp, Killed
    <3> QED  BY <3>1, <3>2
  <2> QED  BY <1>1, <1>2, <1>3, <1>4, <2>1 DEF Placed, PlacedNext
<1>5. CASE Write(w) /\ inode[w[1]] = path
  <2> DEFINE at == offset[w[1]]  text == file[path]  a == Head(worker[w].todo)
  <2>1. Len(text) <= at
    BY <1>5 DEF Ahead, Write
  <2>2. a \in Archives
    <3>1. worker[w].todo \in Seq(Archives) /\ worker[w].todo # <<>>
      BY <1>5, WorkersType DEF WorkerStates, Ready, Write, Working
    <3> QED  BY <3>1
  <2>3. file'[path] = Written(text, at, a)
    BY <1>2, <1>3, <1>5 DEF Write
  <2>4. at \in Nat /\ text \in Seq(Archives \cup {Hole}) /\ Len(text) \in Nat
    BY <1>3
  <2> HIDE DEF at, text, a
  <2>5. /\ Len(file'[path]) = at + 1 /\ file'[path][at + 1] = a
        /\ \A i \in 1 .. Len(text) : file'[path][i] = text[i]
    <3>1. /\ Len(Written(text, at, a)) = IF at < Len(text) THEN Len(text) ELSE at + 1
          /\ Written(text, at, a)[at + 1] = a
          /\ at >= Len(text) => \A i \in 1 .. Len(text) : Written(text, at, a)[i] = text[i]
      BY <2>2, <2>4, WrittenType
    <3>2. at >= Len(text) /\ ~(at < Len(text))
      BY <2>1, <2>4
    <3> QED  BY <2>3, <3>1, <3>2
  <2>6. \A b, n : Placed(b, n) => PlacedNext(b, n)
    BY <1>1, <2>1, <2>4, <2>5 DEF Placed, PlacedNext, text
  <2> QED  BY <1>1, <1>2, <1>5, <2>1, <2>4, <2>5, <2>6 DEF at, text, a
<1> QED  BY <1>4, <1>5

\* What the workers write, say and are about to say is true.
LEMMA TruthTold ==
  ASSUME CreateTypeOK, Shape, Ready, Alone, Excludes, Ahead, Promised, Truthful,
         Live, ~crowded, NEW w \in Workers, WorkerMove(w)
  PROVE  Ahead' /\ Promised' /\ Truthful'
<1>0. /\ UNCHANGED <<creation, parent, path, inode, dlist, crowded>>
      /\ \A v \in Workers \ {w} : worker'[v] = worker[v]
  BY MoveFrame, MoveType
<1>1. /\ path = inode[creation] /\ Len(file[path]) \in Nat /\ Len(file'[path]) \in Nat
      /\ Len(file[path]) <= Len(file'[path]) /\ parent # "idle"
      /\ \A a, n : Placed(a, n) => PlacedNext(a, n)
      /\ Write(w) /\ inode[w[1]] = path =>
           /\ Len(file[path]) <= offset[w[1]] /\ Len(file'[path]) = offset[w[1]] + 1
           /\ file'[path][offset[w[1]] + 1] = Head(worker[w].todo)
      /\ ~(Write(w) /\ inode[w[1]] = path) => file'[path] = file[path]
  BY Appends
<1>2. /\ worker[w] \in WorkerStates /\ offset[w[1]] \in Nat /\ offset \in [Creations -> Nat]
      /\ \A v \in Workers : v[1] \in Creations
  BY WorkersType DEF CreateTypeOK
<1>3. /\ worker[w].mpos \in Nat /\ worker[w].sock \in Seq(Messages) /\ worker[w].todo \in Seq(Archives)
  BY <1>2 DEF WorkerStates
<1>4. Truthful'
  <2>1. \A k \in 1 .. Len(dlist) : PlacedNext(dlist[k].of, dlist[k].pos)
    BY <1>1 DEF Truthful
  <2> QED  BY <1>0, <2>1 DEF Truthful, Placed, PlacedNext
<1>5. ASSUME NEW v \in Workers, worker'[v].pc = "write", inode[v[1]] = path
      PROVE  Len(file'[path]) <= offset'[v[1]]
  <2>1. CASE Write(w) /\ inode[w[1]] = path
    <3>1. v # w
      BY <1>5, <2>1, MoveFields
    <3>2. Busy(v) /\ Busy(w)
      BY <1>0, <1>5, <2>1, <3>1 DEF Busy, Write
    <3>3. v[1] = w[1]
      BY <1>1, <1>5, <2>1, <3>2, OneCreation
    <3>4. offset'[w[1]] = offset[w[1]] + 1
      BY <1>2, <2>1 DEF Write
    <3> QED  BY <1>1, <2>1, <3>3, <3>4
  <2>2. CASE Seek(w)
    <3>1. file'[path] = file[path] /\ offset' = [offset EXCEPT ![w[1]] = Len(file[inode[w[1]]])]
      BY <1>1, <2>2 DEF Seek, Write
    <3>2. CASE v[1] = w[1]
      BY <1>1, <1>2, <1>5, <3>1, <3>2
    <3>3. CASE v[1] # w[1]
      <4>1. v # w /\ worker[v].pc = "write"
        BY <1>0, <1>5, <3>3
      <4> QED  BY <1>2, <1>5, <3>1, <3>3, <4>1 DEF Ahead
    <3> QED  BY <3>2, <3>3
  <2>3. CASE Write(w) /\ inode[w[1]] # path
    <3>1. v[1] # w[1] /\ v # w
      BY <1>5, <2>3
    <3>2. file'[path] = file[path] /\ offset'[v[1]] = offset[v[1]] /\ worker[v].pc = "write"
      BY <1>0, <1>1, <1>2, <1>5, <2>3, <3>1 DEF Write
    <3> QED  BY <1>5, <3>2 DEF Ahead
  <2>4. CASE ~Write(w) /\ ~Seek(w)
    <3>1. offset' = offset /\ file'[path] = file[path]
      BY <1>1, <2>4, MoveKinds DEF Lock, Unlock, Send, Finish, Skips, GivesUp, Killed
    <3>2. v # w
      BY <1>5, <2>4, MoveKinds, MoveFields, ExitFields DEF Finish, Killed
    <3> QED  BY <1>0, <1>5, <3>1, <3>2 DEF Ahead
  <2> QED  BY <2>1, <2>2, <2>3, <2>4
<1>6. Ahead'
  BY <1>0, <1>5 DEF Ahead
<1>7. ASSUME NEW v \in Workers, v[1] = creation
      PROVE  /\ worker'[v].pc = "write" => worker'[v].mpos <= Len(file'[path])
             /\ worker'[v].pc \in {"unlock", "send"} => PlacedNext(Head(worker'[v].todo), worker'[v].mpos)
             /\ \A k \in 1 .. Len(worker'[v].sock) : worker'[v].sock[k] # End =>
                  PlacedNext(worker'[v].sock[k].of, worker'[v].sock[k].pos)
  <2>1. /\ worker[v].pc = "write" => worker[v].mpos <= Len(file[path])
        /\ worker[v].pc \in {"unlock", "send"} => Placed(Head(worker[v].todo), worker[v].mpos)
        /\ \A k \in 1 .. Len(worker[v].sock) : worker[v].sock[k] # End =>
             Placed(worker[v].sock[k].of, worker[v].sock[k].pos)
        /\ worker[v].mpos \in Nat
    BY <1>7, WorkersType DEF Promised, WorkerStates
  <2>2. CASE v # w
    <3>1. worker'[v] = worker[v]
      BY <1>0, <2>2
    <3> QED  BY <1>1, <2>1, <3>1
  <2>3. CASE v = w /\ (Lock(w) \/ Skips(w) \/ GivesUp(w))
    BY <1>1, <2>1, <2>3, MoveFields DEF Same
  <2>4. CASE v = w /\ Seek(w)
    BY <1>1, <1>7, <2>1, <2>4, MoveFields DEF Same
  <2>5. CASE v = w /\ Write(w)
    <3>1. inode[w[1]] = path /\ worker[w].mpos <= offset[w[1]]
      BY <1>1, <1>2, <1>3, <1>7, <2>1, <2>5 DEF Write
    <3>2. PlacedNext(Head(worker[w].todo), worker[w].mpos)
      <4> DEFINE i == offset[w[1]] + 1
      <4>1. i \in 1 .. Len(file'[path]) /\ file'[path][i] = Head(worker[w].todo) /\ i > worker[w].mpos
        BY <1>1, <1>2, <1>3, <2>5, <3>1
      <4> QED  BY <1>0, <4>1 DEF PlacedNext
    <3> QED  BY <1>1, <2>1, <2>5, <3>2, MoveFields DEF Same
  <2>6. CASE v = w /\ Unlock(w)
    BY <1>1, <2>1, <2>6, MoveFields DEF Same, Unlock
  <2>7. CASE v = w /\ Send(w)
    <3>1. worker'[w].sock = Append(worker[w].sock, [of |-> Head(worker[w].todo), pos |-> worker[w].mpos])
          /\ worker'[w].pc = "open"
      BY <2>7, MoveFields
    <3>2. PlacedNext(Head(worker[w].todo), worker[w].mpos)
      BY <1>1, <2>1, <2>7 DEF Send
    <3>3. \A k \in 1 .. Len(worker'[w].sock) :
             \/ k \in 1 .. Len(worker[w].sock) /\ worker'[w].sock[k] = worker[w].sock[k]
             \/ worker'[w].sock[k] = [of |-> Head(worker[w].todo), pos |-> worker[w].mpos]
      BY <1>3, <3>1
    <3> QED  BY <1>1, <2>1, <2>7, <3>1, <3>2, <3>3
  <2>8. CASE v = w /\ (Finish(w) \/ Killed(w))
    <3>1. \/ Exits(w, worker[w].sock) \/ Exits(w, Append(worker[w].sock, End))
      BY <2>8 DEF Finish, Killed
    <3>2. worker'[w].pc \in {"none", "gone"}
      BY <3>1, ExitFields
    <3>3. \A k \in 1 .. Len(worker'[w].sock) : worker'[w].sock[k] # End =>
            k \in 1 .. Len(worker[w].sock) /\ worker'[w].sock[k] = worker[w].sock[k]
      <4>1. \/ worker'[w].sock = <<>> \/ worker'[w].sock = worker[w].sock
            \/ worker'[w].sock = Append(worker[w].sock, End)
        <5>1. \A sock : Exits(w, sock) => worker'[w].sock = <<>> \/ worker'[w].sock = sock
          BY ExitFields DEF Nobody
        <5> QED  BY <3>1, <5>1
      <4>2. \A k \in 1 .. Len(Append(worker[w].sock, End)) : Append(worker[w].sock, End)[k] # End =>
              k \in 1 .. Len(worker[w].sock) /\ Append(worker[w].sock, End)[k] = worker[w].sock[k]
        BY <1>3
      <4> QED  BY <4>1, <4>2
    <3> QED  BY <1>1, <2>1, <2>8, <3>2, <3>3
  <2> QED  BY <2>2, <2>3, <2>4, <2>5, <2>6, <2>7, <2>8, MoveKinds
<1>8. Promised'
  BY <1>0, <1>7 DEF Promised, Placed, PlacedNext
<1> QED  BY <1>4, <1>6, <1>8

\* No digest is without its manifest.
LEMMA TruthStep ==
  ASSUME CreateTypeOK, CreateTypeOK', Shape, Ready, Alone, Excludes, Ahead, Promised, Truthful, MakersNext
  PROVE  Ahead' /\ Promised' /\ Truthful'
<1>1. CASE ~Live' \/ crowded'
  BY <1>1 DEF Ahead, Promised, Truthful
<1>2. CASE Live' /\ ~crowded' /\ parent = "idle"
  <2>1. Create
    BY <1>2, Starts DEF Live
  <2> QED  BY <2>1, TruthBegins
<1>3. CASE Live' /\ ~crowded' /\ parent # "idle"
  <2>1. CASE \A w \in Workers : ~WorkerMove(w)
    BY <1>3, <2>1, TruthHeard
  <2>2. ASSUME NEW w \in Workers, WorkerMove(w) PROVE Ahead' /\ Promised' /\ Truthful'
    <3>1. Live /\ ~crowded
      BY <1>3, <2>2, MoveFrame DEF Live
    <3> QED  BY <2>2, <3>1, TruthTold
  <2> QED  BY <2>1, <2>2
<1> QED  BY <1>1, <1>2, <1>3

-----------------------------------------------------------------------------
(* The shares, from the directory to the parent.                           *)

\* The share of a worker that was made.
LEMMA OrderBegins ==
  ASSUME NEW s, NEW from \in Nat, NEW to \in Nat, from <= to,
         NEW todo \in Seq(Archives), Len(todo) = to - from,
         \A m \in 1 .. to - from : todo[m] = s[from + m]
  PROVE  InOrder(s, from, to, todo, <<>>, 0) /\ Taken(to, todo, <<>>, 0) = from
<1>1. Len(todo) \in Nat /\ Len(<<>>) = 0
  OBVIOUS
<1>2. Taken(to, todo, <<>>, 0) = from
  BY <1>1 DEF Taken
<1>3. \A m \in 1 .. Len(todo) : todo[m] = s[to - Len(todo) + m]
  BY <1>1
<1> QED  BY <1>1, <1>2, <1>3 DEF InOrder

\* A digest takes the place of the archive.
LEMMA OrderSends ==
  ASSUME NEW s, NEW from \in Nat, NEW to \in Nat,
         NEW todo \in Seq(Archives), NEW sock \in Seq(Messages), todo # <<>>, NEW n \in Nat,
         InOrder(s, from, to, todo, sock, 0)
  PROVE  LET t == Tail(todo)  q == Append(sock, [of |-> Head(todo), pos |-> n])
         IN  InOrder(s, from, to, t, q, 0) /\ Taken(to, t, q, 0) = Taken(to, todo, sock, 0)
<1> DEFINE t == Tail(todo)  d == [of |-> Head(todo), pos |-> n]  q == Append(sock, d)
           r == Taken(to, todo, sock, 0)
<1>1. d \in Messages /\ d.of = todo[1]
  BY Data
<1>2. /\ t \in Seq(Archives) /\ Len(t) = Len(todo) - 1 /\ Len(todo) \in Nat \ {0}
      /\ \A m \in 1 .. Len(t) : t[m] = todo[m + 1] /\ m + 1 \in 1 .. Len(todo)
  OBVIOUS
<1>3. /\ Len(q) = Len(sock) + 1 /\ Len(sock) \in Nat /\ q[Len(sock) + 1] = d
      /\ \A m \in 1 .. Len(sock) : q[m] = sock[m]
  BY <1>1
<1> HIDE DEF t, q, d
<1>4. Taken(to, t, q, 0) = r /\ r = to - Len(sock) - Len(todo) /\ r \in from .. to
  BY <1>2, <1>3 DEF Taken, InOrder
<1>5. \A m \in 1 .. Len(t) : t[m] = s[to - Len(t) + m]
  <2> SUFFICES ASSUME NEW m \in 1 .. Len(t) PROVE t[m] = s[to - Len(t) + m]
    OBVIOUS
  <2>1. t[m] = todo[m + 1] /\ m + 1 \in 1 .. Len(todo) /\ m \in Nat
    BY <1>2
  <2>2. todo[m + 1] = s[to - Len(todo) + (m + 1)]
    BY <2>1 DEF InOrder
  <2>3. to - Len(todo) + (m + 1) = to - Len(t) + m
    BY <1>2, <2>1
  <2> QED  BY <2>1, <2>2, <2>3
<1>6. \A m \in 1 .. Len(q) : q[m].of = IF r + m <= to THEN s[r + m] ELSE 0
  <2> SUFFICES ASSUME NEW m \in 1 .. Len(q) PROVE q[m].of = IF r + m <= to THEN s[r + m] ELSE 0
    OBVIOUS
  <2>1. CASE m \in 1 .. Len(sock)
    BY <1>3, <2>1 DEF InOrder
  <2>2. CASE m = Len(sock) + 1
    <3>1. todo[1] = s[to - Len(todo) + 1]
      BY <1>2 DEF InOrder
    <3>2. r + m = to - Len(todo) + 1 /\ r + m <= to
      <4>1. Len(todo) \in Nat \ {0} /\ Len(sock) \in Nat
        BY <1>2, <1>3
      <4> HIDE DEF r
      <4> QED  BY <1>4, <2>2, <4>1
    <3>3. q[m].of = todo[1]
      BY <1>1, <1>3, <2>2
    <3>4. s[r + m] = s[to - Len(todo) + 1]
      BY <3>2
    <3> HIDE DEF r
    <3> QED  BY <3>1, <3>2, <3>3, <3>4
  <2> QED  BY <1>3, <2>1, <2>2
<1> QED  BY <1>4, <1>5, <1>6 DEF InOrder, t, q, d

\* The end marker follows the last digest.
LEMMA OrderEnds ==
  ASSUME NEW s, NEW from \in Nat, NEW to \in Nat, NEW sock \in Seq(Messages),
         InOrder(s, from, to, <<>>, sock, 0)
  PROVE  /\ InOrder(s, from, to, <<>>, Append(sock, End), 1)
         /\ Taken(to, <<>>, Append(sock, End), 1) = Taken(to, <<>>, sock, 0)
<1> DEFINE q == Append(sock, End)  r == Taken(to, <<>>, sock, 0)
<1>1. /\ Len(q) = Len(sock) + 1 /\ Len(sock) \in Nat /\ q[Len(sock) + 1] = End
      /\ \A m \in 1 .. Len(sock) : q[m] = sock[m]
  BY Data
<1>2. Len(<<>>) = 0
  OBVIOUS
<1> HIDE DEF q
<1>3. Taken(to, <<>>, q, 1) = r /\ r = to - Len(sock) /\ r \in from .. to
  BY <1>1, <1>2 DEF Taken, InOrder
<1>4. \A m \in 1 .. Len(q) : q[m].of = IF r + m <= to THEN s[r + m] ELSE 0
  <2> SUFFICES ASSUME NEW m \in 1 .. Len(q) PROVE q[m].of = IF r + m <= to THEN s[r + m] ELSE 0
    OBVIOUS
  <2>1. CASE m \in 1 .. Len(sock)
    BY <1>1, <2>1 DEF InOrder
  <2>2. CASE m = Len(sock) + 1
    BY <1>1, <1>3, <2>2 DEF End
  <2> QED  BY <1>1, <2>1, <2>2
<1>5. q # <<>>
  BY <1>1, <1>2
<1> QED  BY <1>2, <1>3, <1>4, <1>5 DEF InOrder, q

\* The first digest is of the next archive.
LEMMA OrderRead ==
  ASSUME NEW s, NEW from \in Nat, NEW to \in Nat,
         NEW todo \in Seq(Archives), NEW sock \in Seq(Messages), NEW done \in {0, 1},
         sock # <<>>, Head(sock) # End, InOrder(s, from, to, todo, sock, done)
  PROVE  LET r == Taken(to, todo, sock, done)
         IN  /\ InOrder(s, from, to, todo, Tail(sock), done)
             /\ Taken(to, todo, Tail(sock), done) = r + 1
             /\ r + 1 <= to /\ Head(sock).of = s[r + 1]
<1> DEFINE q == Tail(sock)  r == Taken(to, todo, sock, done)
<1>1. /\ Len(q) = Len(sock) - 1 /\ Len(sock) \in Nat \ {0} /\ Len(todo) \in Nat /\ Head(sock) = sock[1]
      /\ \A m \in 1 .. Len(q) : q[m] = sock[m + 1] /\ m + 1 \in 1 .. Len(sock)
      /\ Head(sock) \in Messages
  OBVIOUS
<1>2. r = to + done - Len(sock) - Len(todo) /\ r \in from .. to
  BY DEF Taken, InOrder
<1>3. sock[1].of = IF r + 1 <= to THEN s[r + 1] ELSE 0
  BY <1>1 DEF InOrder
<1>4. sock[1].of # 0
  <2>1. sock[1] \in Digests
    BY <1>1, Data
  <2> QED  BY <2>1, CreateAssumption DEF Digests
<1>5. r + 1 <= to /\ Head(sock).of = s[r + 1]
  BY <1>1, <1>3, <1>4
<1> HIDE DEF q, r
<1>6. Taken(to, todo, q, done) = r + 1
  BY <1>1, <1>2 DEF Taken
<1>7. \A m \in 1 .. Len(q) : q[m].of = IF (r + 1) + m <= to THEN s[(r + 1) + m] ELSE 0
  <2> SUFFICES ASSUME NEW m \in 1 .. Len(q) PROVE q[m].of = IF (r + 1) + m <= to THEN s[(r + 1) + m] ELSE 0
    OBVIOUS
  <2>1. q[m] = sock[m + 1] /\ m + 1 \in 1 .. Len(sock) /\ m \in Nat
    BY <1>1
  <2>2. sock[m + 1].of = IF r + (m + 1) <= to THEN s[r + (m + 1)] ELSE 0
    BY <2>1 DEF InOrder, r
  <2>3. r + (m + 1) = (r + 1) + m
    BY <1>2, <2>1
  <2> QED  BY <2>1, <2>2, <2>3
<1>8. done = 1 => todo = <<>> /\ q # <<>>
  <2>1. ASSUME done = 1 PROVE todo = <<>> /\ Len(q) # 0
    <3>1. todo = <<>>
      BY <2>1 DEF InOrder
    <3>2. Len(todo) = 0
      BY <3>1
    <3> QED  BY <1>1, <1>2, <1>5, <2>1, <3>1, <3>2
  <2> QED  BY <2>1
<1>9. r + 1 \in from .. to
  BY <1>2, <1>5
<1> QED  BY <1>5, <1>6, <1>7, <1>8, <1>9 DEF InOrder, q, r

\* The end marker is the last message of a worker that has done its share.
LEMMA OrderOver ==
  ASSUME NEW s \in Seq(Archives), NEW from \in Nat, NEW to \in Nat, to <= Len(s),
         NEW todo \in Seq(Archives), NEW sock \in Seq(Messages), NEW done \in {0, 1},
         sock # <<>>, Head(sock) = End, InOrder(s, from, to, todo, sock, done)
  PROVE  done = 1 /\ todo = <<>> /\ Taken(to, todo, sock, done) = to
<1> DEFINE r == Taken(to, todo, sock, done)
<1>1. Len(sock) \in Nat \ {0} /\ Len(todo) \in Nat /\ sock[1] = End
  OBVIOUS
<1>2. r = to + done - Len(sock) - Len(todo) /\ r \in from .. to
  BY DEF Taken, InOrder
<1>3. sock[1].of = IF r + 1 <= to THEN s[r + 1] ELSE 0
  BY <1>1 DEF InOrder
<1>4. ~(r + 1 <= to)
  <2>1. ASSUME r + 1 <= to PROVE s[r + 1] # 0
    <3>1. r + 1 \in 1 .. Len(s)
      BY <1>2, <2>1
    <3> QED  BY <3>1, CreateAssumption
  <2> QED  BY <1>1, <1>3, <2>1 DEF End
<1>5. r = to /\ done = 1
  BY <1>1, <1>2, <1>4
<1> QED  BY <1>5 DEF InOrder

\* The worker that has a share, and what it has.
LEMMA ShareFacts ==
  ASSUME CreateTypeOK, Shape, parent # "idle", NEW k \in 1 .. NumWorkers
  PROVE  /\ <<creation, k>> \in Workers /\ worker[<<creation, k>>] \in WorkerStates
         /\ worker[<<creation, k>>].todo \in Seq(Archives) /\ worker[<<creation, k>>].sock \in Seq(Messages)
         /\ Done(<<creation, k>>) \in {0, 1}
         /\ stock # <<>> /\ stock \in Seq(Archives) /\ Len(stock) \in Nat /\ NumWorkers \in Nat
         /\ Before(k - 1) \in Nat /\ Before(k) \in Nat /\ Before(k - 1) <= Before(k) /\ Before(k) <= Len(stock)
         /\ \A j \in 1 .. Len(stock) : stock[j] \in Archives /\ stock[j] # 0
<1>1. stock # <<>> /\ stock \in Seq(Archives) /\ <<creation, k>> \in Workers
  BY CurrentWorkers DEF Shape, CreateTypeOK
<1>2. NumWorkers \in Nat /\ Len(stock) \in Nat
  BY <1>1, SomeWorkers
<1>3. k \in 0 .. NumWorkers /\ k - 1 \in 0 .. NumWorkers
  BY <1>2
<1>4. Before(k - 1) \in Nat /\ Before(k) \in Nat /\ Before(k - 1) <= Before(k) /\ Before(k) <= Len(stock)
  BY <1>1, <1>2, <1>3, Intervals
<1>5. \A j \in 1 .. Len(stock) : stock[j] \in Archives /\ stock[j] # 0
  BY <1>1, CreateAssumption
<1>6. worker[<<creation, k>>] \in WorkerStates
  BY <1>1, WorkersType
<1>7. worker[<<creation, k>>].todo \in Seq(Archives) /\ worker[<<creation, k>>].sock \in Seq(Messages)
  BY <1>6 DEF WorkerStates
<1> QED  BY <1>1, <1>2, <1>4, <1>5, <1>6, <1>7 DEF Done

\* What was received is of the share.
LEMMA GotRange ==
  ASSUME CreateTypeOK, Shape, parent # "idle", NEW k \in 1 .. NumWorkers, SharedOf(k)
  PROVE  Got(k) \in Before(k - 1) .. Before(k)
BY ShareFacts DEF SharedOf, Got, InOrder

\* A step that leaves a worker, its socket and its archives alone.
LEMMA ShareStays ==
  ASSUME UNCHANGED <<stock, count, creation>>, NEW k, SharedOf(k),
         <<creation, k>> \in fds' <=> <<creation, k>> \in fds,
         <<creation, k>> \in fds =>
           /\ worker'[<<creation, k>>].todo = worker[<<creation, k>>].todo
           /\ worker'[<<creation, k>>].sock = worker[<<creation, k>>].sock
           /\ worker'[<<creation, k>>].pc = "gone" <=> worker[<<creation, k>>].pc = "gone",
         <<creation, k>> \notin fds =>
           /\ parent' = "fork" <=> parent = "fork"
           /\ ~Alive(<<creation, k>>) => ~Alive(<<creation, k>>)'
  PROVE  SharedOf(k)' /\ Got(k)' = Got(k)
<1>1. Before(k)' = Before(k) /\ Before(k - 1)' = Before(k - 1) /\ <<creation, k>>' = <<creation, k>>
  BY SameShares
<1>2. CASE <<creation, k>> \in fds
  <2>1. Done(<<creation, k>>)' = Done(<<creation, k>>)
    BY <1>2 DEF Done
  <2> QED  BY <1>1, <1>2, <2>1 DEF SharedOf, Got
<1>3. CASE <<creation, k>> \notin fds
  BY <1>1, <1>3 DEF SharedOf, Got
<1> QED  BY <1>2, <1>3

\* A worker is given its share.
LEMMA ShareForked ==
  ASSUME CreateTypeOK, Shape, Ready, Fork, NEW k \in 1 .. NumWorkers, SharedOf(k)
  PROVE  SharedOf(k)' /\ Got(k)' = Got(k)
<1>1. PICK j \in 1 .. NumWorkers :
        /\ <<creation, j>> \in Workers \ fds /\ fds' = fds \cup {<<creation, j>>}
        /\ worker' = [worker EXCEPT ![<<creation, j>>] =
             [Nobody EXCEPT !.pc = "open", !.todo = SubSeq(stock, Before(j - 1) + 1, Before(j))]]
  BY ForkNext
<1>2. parent = "fork" /\ UNCHANGED <<stock, count, creation, parent>> /\ stock # <<>>
  BY DEF Fork, Shape
<1>3. CASE k = j
  <2>1. /\ worker'[<<creation, k>>].todo = SubSeq(stock, Before(k - 1) + 1, Before(k))
        /\ worker'[<<creation, k>>].sock = <<>> /\ worker'[<<creation, k>>].pc = "open"
    BY <1>1, <1>3 DEF CreateTypeOK, Nobody
  <2>2. /\ InOrder(stock, Before(k - 1), Before(k), worker'[<<creation, k>>].todo, <<>>, 0)
        /\ Taken(Before(k), worker'[<<creation, k>>].todo, <<>>, 0) = Before(k - 1)
    <3>1. /\ Before(k - 1) \in Nat /\ Before(k) \in Nat /\ Before(k - 1) <= Before(k)
      BY <1>2, ShareFacts
    <3>2. LET t == SubSeq(stock, Before(k - 1) + 1, Before(k))
          IN  /\ t \in Seq(Archives) /\ Len(t) = Before(k) - Before(k - 1)
              /\ \A m \in 1 .. Before(k) - Before(k - 1) : t[m] = stock[Before(k - 1) + m]
      BY <1>2, ShareType
    <3> QED  BY <2>1, <3>1, <3>2, OrderBegins
  <2>3. Done(<<creation, k>>)' = 0
    BY <1>2, <2>1 DEF Done
  <2>4. /\ Before(k)' = Before(k) /\ Before(k - 1)' = Before(k - 1) /\ <<creation, k>>' = <<creation, k>>
        /\ stock' = stock
    BY <1>2, SameShares
  <2>5. <<creation, k>> \in fds' /\ <<creation, k>> \notin fds
    BY <1>1, <1>3
  <2> QED  BY <1>2, <2>1, <2>2, <2>3, <2>4, <2>5 DEF SharedOf, Got
<1>4. CASE k # j
  <2>1. <<creation, k>> \in fds' <=> <<creation, k>> \in fds
    BY <1>1, <1>4
  <2>2. worker'[<<creation, k>>] = worker[<<creation, k>>]
    BY <1>1, <1>2, <1>4, ShareFacts DEF CreateTypeOK
  <2> QED  BY <1>2, <2>1, <2>2, ShareStays DEF Alive
<1> QED  BY <1>3, <1>4

\* Digests are received in the order of the share.
LEMMA ShareRead ==
  ASSUME CreateTypeOK, Shape, NEW v \in fds, ReadDigest(v), NEW k \in 1 .. NumWorkers, SharedOf(k)
  PROVE  /\ SharedOf(k)'
         /\ v # <<creation, k>> => Got(k)' = Got(k)
         /\ v = <<creation, k>> =>
              Got(k)' = Got(k) + 1 /\ Got(k) + 1 <= Before(k) /\ Head(worker[v].sock).of = stock[Got(k) + 1]
<1>1. /\ parent = "poll" /\ UNCHANGED <<stock, count, creation, parent, fds>>
      /\ worker[v].sock # <<>> /\ Head(worker[v].sock) # End
      /\ worker' = [worker EXCEPT ![v].sock = Tail(@)] /\ worker \in [Workers -> WorkerStates]
  BY DEF ReadDigest, CreateTypeOK
<1>2. v \in Workers
  BY Polled
<1>3. CASE v # <<creation, k>>
  <2>1. worker'[<<creation, k>>] = worker[<<creation, k>>]
    BY <1>1, <1>3, ShareFacts
  <2> QED  BY <1>1, <1>3, <2>1, ShareStays DEF Alive
<1>4. CASE v = <<creation, k>>
  <2>1. /\ worker'[v].todo = worker[v].todo /\ worker'[v].pc = worker[v].pc
        /\ worker'[v].sock = Tail(worker[v].sock)
    BY <1>1, <1>2 DEF WorkerStates
  <2>2. /\ worker[v].todo \in Seq(Archives) /\ worker[v].sock \in Seq(Messages) /\ Done(v) \in {0, 1}
        /\ Before(k - 1) \in Nat /\ Before(k) \in Nat
    BY <1>1, <1>4, ShareFacts
  <2>3. InOrder(stock, Before(k - 1), Before(k), worker[v].todo, worker[v].sock, Done(v))
    BY <1>4 DEF SharedOf
  <2>4. LET r == Taken(Before(k), worker[v].todo, worker[v].sock, Done(v))
        IN  /\ InOrder(stock, Before(k - 1), Before(k), worker[v].todo, Tail(worker[v].sock), Done(v))
            /\ Taken(Before(k), worker[v].todo, Tail(worker[v].sock), Done(v)) = r + 1
            /\ r + 1 <= Before(k) /\ Head(worker[v].sock).of = stock[r + 1]
    BY <1>1, <2>2, <2>3, OrderRead
  <2>5. Got(k) = Taken(Before(k), worker[v].todo, worker[v].sock, Done(v))
    BY <1>4 DEF Got
  <2>6. Done(v)' = Done(v)
    BY <2>1 DEF Done
  <2>7. Before(k)' = Before(k) /\ Before(k - 1)' = Before(k - 1) /\ v = <<creation, k>>' /\ v \in fds'
    BY <1>1, <1>4, SameShares
  <2>8. Got(k)' = Got(k) + 1
    BY <1>1, <2>1, <2>4, <2>5, <2>6, <2>7 DEF Got
  <2>9. SharedOf(k)'
    BY <1>1, <2>1, <2>4, <2>6, <2>7 DEF SharedOf
  <2> QED  BY <1>4, <2>4, <2>5, <2>8, <2>9
<1> QED  BY <1>3, <1>4

\* The socket that is given up has nothing left.
LEMMA ShareEnded ==
  ASSUME CreateTypeOK, Shape, Ready, NEW v \in fds, ReadEnd(v), NEW k \in 1 .. NumWorkers, SharedOf(k)
  PROVE  /\ SharedOf(k)' /\ Got(k)' = Got(k)
         /\ v = <<creation, k>> => Got(k) = Before(k) /\ worker[v].pc = "gone" /\ worker[v].todo = <<>>
<1>1. /\ parent = "poll" /\ parent' = "wait" /\ UNCHANGED <<stock, count, creation>> /\ fds' = fds \ {v}
      /\ worker' = [worker EXCEPT ![v].sock = <<>>] /\ worker \in [Workers -> WorkerStates]
      /\ Ended(v) \/ (worker[v].sock # <<>> /\ Head(worker[v].sock) = End)
  BY DEF ReadEnd, CreateTypeOK
<1>2. v \in Workers /\ worker[v].pc # "none"
  BY Polled DEF Ready
<1>3. CASE v # <<creation, k>>
  <2>1. worker'[<<creation, k>>] = worker[<<creation, k>>]
    BY <1>1, <1>3, ShareFacts
  <2>2. <<creation, k>> \in fds' <=> <<creation, k>> \in fds
    BY <1>1, <1>3
  <2> QED  BY <1>1, <1>3, <2>1, <2>2, ShareStays DEF Alive
<1>4. CASE v = <<creation, k>>
  <2>1. InOrder(stock, Before(k - 1), Before(k), worker[v].todo, worker[v].sock, Done(v))
    BY <1>4 DEF SharedOf
  <2>2. /\ worker[v].todo \in Seq(Archives) /\ worker[v].sock \in Seq(Messages) /\ Done(v) \in {0, 1}
        /\ Before(k - 1) \in Nat /\ Before(k) \in Nat /\ Before(k) <= Len(stock) /\ Len(stock) \in Nat
        /\ stock \in Seq(Archives)
    BY <1>1, <1>4, ShareFacts
  <2>3. worker[v].sock # <<>> /\ Head(worker[v].sock) = End
    <3>1. ASSUME Ended(v) PROVE FALSE
      <4>1. Done(v) = 1 /\ worker[v].sock = <<>>
        BY <1>2, <3>1 DEF Ended, Alive, Done
      <4> QED  BY <2>1, <4>1 DEF InOrder
    <3> QED  BY <1>1, <3>1
  <2>5. Done(v) = 1 /\ worker[v].todo = <<>> /\ Taken(Before(k), worker[v].todo, worker[v].sock, Done(v)) = Before(k)
    BY <2>1, <2>2, <2>3, OrderOver
  <2>6. Got(k) = Before(k) /\ worker[v].pc = "gone"
    BY <1>4, <2>5 DEF Got, Done
  <2>7. v = <<creation, k>>' /\ v \notin fds' /\ Before(k)' = Before(k) /\ worker'[v].pc = "gone"
    BY <1>1, <1>2, <1>4, <2>6, SameShares DEF WorkerStates
  <2>8. SharedOf(k)' /\ Got(k)' = Before(k)
    BY <1>1, <2>7 DEF SharedOf, Got, Alive
  <2> QED  BY <1>4, <2>5, <2>6, <2>8
<1> QED  BY <1>3, <1>4

\* A worker that works keeps its share in order.
LEMMA ShareWorked ==
  ASSUME CreateTypeOK, Shape, Ready, parent # "idle",
         NEW v \in Workers, v[1] = creation, WorkerStep(v), NEW k \in 1 .. NumWorkers, SharedOf(k)
  PROVE  SharedOf(k)' /\ Got(k)' = Got(k)
<1>1. /\ WorkerMove(v) /\ UNCHANGED <<stock, count, creation, parent, fds>>
      /\ Lock(v) \/ Seek(v) \/ Write(v) \/ Unlock(v) \/ Send(v) \/ Finish(v)
  BY DEF WorkerStep, WorkerMove
<1>2. Alive(v) /\ \A u \in Workers \ {v} : worker'[u] = worker[u]
  BY <1>1, MoveType, MoveSelf
<1>3. CASE v # <<creation, k>>
  <2>1. worker'[<<creation, k>>] = worker[<<creation, k>>]
    BY <1>2, <1>3, ShareFacts
  <2> QED  BY <1>1, <2>1, ShareStays DEF Alive
<1>4. CASE v = <<creation, k>>
  <2>1. v \in fds /\ InOrder(stock, Before(k - 1), Before(k), worker[v].todo, worker[v].sock, Done(v))
    BY <1>2, <1>4 DEF SharedOf
  <2>2. Done(v) = 0
    BY <1>2 DEF Alive, Done
  <2>3. /\ worker[v].todo \in Seq(Archives) /\ worker[v].sock \in Seq(Messages)
        /\ Before(k - 1) \in Nat /\ Before(k) \in Nat /\ worker[v] \in WorkerStates /\ worker[v].mpos \in Nat
    BY <1>4, ShareFacts DEF WorkerStates
  <2>4. Before(k)' = Before(k) /\ Before(k - 1)' = Before(k - 1) /\ v = <<creation, k>>' /\ v \in fds'
    BY <1>1, <1>4, <2>1, SameShares
  <2>5. Got(k) = Taken(Before(k), worker[v].todo, worker[v].sock, 0)
    BY <1>4, <2>1, <2>2 DEF Got
  <2>6. CASE Lock(v) \/ Seek(v) \/ Write(v) \/ Unlock(v)
    <3>1. Same(v) /\ worker'[v].pc # "gone" /\ worker[v].pc # "gone"
      BY <1>2, <2>6, MoveFields DEF Alive
    <3> QED  BY <1>1, <1>4, <2>1, <3>1, ShareStays DEF Same
  <2>7. CASE Send(v)
    <3>1. /\ worker'[v].todo = Tail(worker[v].todo) /\ worker'[v].pc = "open"
          /\ worker'[v].sock = Append(worker[v].sock, [of |-> Head(worker[v].todo), pos |-> worker[v].mpos])
      BY <2>7, MoveFields
    <3>2. worker[v].todo # <<>>
      BY <2>7 DEF Send, Ready, Working
    <3>3. /\ InOrder(stock, Before(k - 1), Before(k), worker'[v].todo, worker'[v].sock, 0)
          /\ Taken(Before(k), worker'[v].todo, worker'[v].sock, 0) = Got(k)
      BY <2>1, <2>2, <2>3, <2>5, <3>1, <3>2, OrderSends
    <3>4. Done(v)' = 0
      BY <3>1 DEF Done
    <3> QED  BY <1>1, <2>4, <3>3, <3>4 DEF SharedOf, Got
  <2>8. CASE Finish(v)
    <3>1. worker[v].todo = <<>> /\ Exits(v, Append(worker[v].sock, End)) /\ ~Orphan(v)
      BY <1>4, <2>8 DEF Finish, Orphan
    <3>2. worker'[v].pc \in {"none", "gone"} /\ worker'[v].pc # "none"
      BY <3>1, ExitFields
    <3>3. worker'[v].pc = "gone" /\ worker'[v].todo = <<>> /\ worker'[v].sock = Append(worker[v].sock, End)
      BY <3>1, <3>2, ExitFields
    <3>4. /\ InOrder(stock, Before(k - 1), Before(k), <<>>, Append(worker[v].sock, End), 1)
          /\ Taken(Before(k), <<>>, Append(worker[v].sock, End), 1) = Got(k)
      BY <2>1, <2>2, <2>3, <2>5, <3>1, OrderEnds
    <3>5. Done(v)' = 1
      BY <3>3 DEF Done
    <3> QED  BY <1>1, <2>4, <3>3, <3>4, <3>5 DEF SharedOf, Got
  <2> QED  BY <1>1, <2>6, <2>7, <2>8
<1> QED  BY <1>3, <1>4

\* What goes wrong in a creation is remembered until it ends.
LEMMA Unhurt ==
  ASSUME CreateTypeOK, Shape, MakersNext, parent # "idle", parent' # "idle", ~hurt'
  PROVE  ~hurt
<1>1. ~Deposit /\ ~Create /\ ~CreateInit' /\ ~Ending
  BY DEF Deposit, Create, CreateInit, Ending, PackDigests, ForkFails, ParentKilled, PackFails, Leaves
<1>2. UNCHANGED hurt \/ \E w \in Workers : WorkerMove(w)
  BY <1>1 DEF MakersNext, Fork, Mark, ReadDigest, ReadEnd, Wait, Sort, WriteMeta, PackMeta, PackManifests, makers
<1> QED  BY <1>2, MoveFrame

\* Only the receipt of a digest advances a share.
LEMMA ShareKept ==
  ASSUME CreateTypeOK, Shape, Ready, Shared, MakersNext, parent # "idle", parent' # "idle", ~hurt',
         NEW k \in 1 .. NumWorkers
  PROVE  /\ SharedOf(k) /\ SharedOf(k)'
         /\ Got(k)' = Got(k) \/ \E v \in fds : ReadDigest(v)
<1>1. /\ SharedOf(k) /\ UNCHANGED <<stock, count, creation>> /\ NumWorkers' = NumWorkers
  BY Unhurt, Others DEF Shared
<1>2. <<creation, k>> \in Workers
  BY ShareFacts
<1>3. CASE Fork
  BY <1>1, <1>3, ShareForked
<1>4. CASE Mark
  <2>1. parent = "fork" /\ Cardinality(fds) = NumWorkers /\ UNCHANGED fds
    BY <1>4 DEF Mark
  <2>2. <<creation, k>> \in fds
    BY <2>1 DEF Shape
  <2>3. /\ worker'[<<creation, k>>].todo = worker[<<creation, k>>].todo
        /\ worker'[<<creation, k>>].sock = worker[<<creation, k>>].sock
        /\ worker'[<<creation, k>>].pc = worker[<<creation, k>>].pc
    BY <1>2, <1>4 DEF Mark, CreateTypeOK, WorkerStates
  <2> QED  BY <1>1, <2>1, <2>2, <2>3, ShareStays
<1>5. ASSUME NEW v \in fds, ReadDigest(v) PROVE SharedOf(k)'
  BY <1>1, <1>5, ShareRead
<1>6. ASSUME NEW v \in fds, ReadEnd(v) PROVE SharedOf(k)' /\ Got(k)' = Got(k)
  BY <1>1, <1>6, ShareEnded
<1>7. CASE Wait \/ Sort \/ PackMeta \/ PackManifests \/ UNCHANGED makers
  <2>1. UNCHANGED <<worker, fds>> /\ (parent' = "fork" <=> parent = "fork")
    BY <1>7 DEF Wait, Sort, PackMeta, PackManifests, makers
  <2> QED  BY <1>1, <2>1, ShareStays DEF Alive
<1>8. CASE WriteMeta
  <2>1. /\ fds = {} /\ UNCHANGED fds /\ (parent' = "fork" <=> parent = "fork")
        /\ worker'[<<creation, k>>] \in {worker[<<creation, k>>], Nobody}
    BY <1>2, <1>8 DEF WriteMeta, Shape
  <2>2. ~Alive(<<creation, k>>) => ~Alive(<<creation, k>>)'
    BY <1>1, <2>1 DEF Alive, Nobody
  <2> QED  BY <1>1, <2>1, <2>2, ShareStays
<1>9. ASSUME NEW v \in Workers, WorkerMove(v) PROVE SharedOf(k)' /\ Got(k)' = Got(k)
  <2>1. CASE v[1] = creation
    <3>1. WorkerStep(v)
      BY <1>9, <2>1, MoveFrame
    <3> QED  BY <1>1, <2>1, <3>1, ShareWorked
  <2>2. CASE v[1] # creation
    <3>1. worker'[<<creation, k>>] = worker[<<creation, k>>] /\ UNCHANGED <<fds, parent>>
      BY <1>2, <1>9, <2>2, MoveType, MoveFrame
    <3> QED  BY <1>1, <3>1, ShareStays DEF Alive
  <2> QED  BY <2>1, <2>2
<1>10. ~Deposit /\ ~Create /\ ~CreateInit' /\ ~Ending
  BY DEF Deposit, Create, CreateInit, Ending, PackDigests, ForkFails, ParentKilled, PackFails, Leaves
<1> QED  BY <1>1, <1>3, <1>4, <1>5, <1>6, <1>7, <1>8, <1>9, <1>10 DEF MakersNext

\* The shares of a creation that begins.
LEMMA ShareBegins ==
  ASSUME CreateTypeOK, CreateTypeOK', Shape, Shape', Ready, Create, NEW k \in 1 .. NumWorkers'
  PROVE  SharedOf(k)' /\ Got(k)' = Before(k - 1)'
<1>1. /\ creation' = creation + 1 /\ worker' = worker /\ fds' = {} /\ parent' = "fork" /\ creation \in Nat
  BY CreateAssumption DEF Create, CreateTypeOK
<1>2. <<creation', k>> \in Workers
  <2>1. creation' \in Creations /\ stock' # <<>>
    BY <1>1 DEF Shape
  <2>2. NumWorkers' <= MaxWorkers /\ NumWorkers' \in Nat
    <3>1. stock' = stock /\ stock # <<>> /\ NumWorkers' = NumWorkers
      BY SameShares DEF Create
    <3> QED  BY <3>1, SomeWorkers
  <2> QED  BY <2>1, <2>2, CreateAssumption DEF Workers
<1>3. worker[<<creation', k>>] = Nobody
  BY <1>1, <1>2 DEF Ready
<1> QED  BY <1>1, <1>3 DEF SharedOf, Got, Alive, Nobody

\* The shares are kept.
LEMMA SharedStep ==
  ASSUME CreateTypeOK, CreateTypeOK', Shape, Shape', Ready, Shared, MakersNext
  PROVE  Shared'
<1>1. CASE parent' = "idle" \/ hurt'
  BY <1>1 DEF Shared
<1>2. CASE parent = "idle" /\ parent' # "idle"
  <2>1. Create
    BY <1>2, Starts
  <2> QED  BY <2>1, ShareBegins DEF Shared
<1>3. CASE parent # "idle" /\ parent' # "idle" /\ ~hurt'
  <2>1. NumWorkers' = NumWorkers
    BY <1>3, Others
  <2>2. \A k \in 1 .. NumWorkers : SharedOf(k)'
    BY <1>3, ShareKept
  <2> QED  BY <2>1, <2>2 DEF Shared
<1> QED  BY <1>1, <1>2, <1>3

-----------------------------------------------------------------------------
(* The list of digests.                                                    *)

\* A digest of another archive is added.
LEMMA ListGrows ==
  ASSUME NEW digests \in Seq(Digests), NEW s \in Seq(Archives), IsInjective(s),
         NEW received \in SUBSET (1 .. Len(s)), NEW new \in 1 .. Len(s), new \notin received,
         NEW d \in Digests, d.of = s[new], Lists(digests, s, received)
  PROVE  Lists(Append(digests, d), s, received \cup {new})
<1> DEFINE n == Len(digests)  more == Append(digests, d)
<1>1. n \in Nat /\ Len(more) = n + 1 /\ more[n + 1] = d /\ \A i \in 1 .. n : more[i] = digests[i]
  OBVIOUS
<1> HIDE DEF more
<1>2. \A i \in 1 .. n + 1 : i = n + 1 \/ i \in 1 .. n
  BY <1>1
<1>3. ASSUME NEW i \in 1 .. n PROVE more[i].of # s[new]
  <2>1. PICK j \in received : digests[i].of = s[j]
    BY DEF Lists
  <2>2. j \in DOMAIN s /\ new \in DOMAIN s /\ j # new
    OBVIOUS
  <2> QED  BY <1>1, <2>1, <2>2 DEF IsInjective
<1>4. \A i \in 1 .. Len(more) : \E j \in received \cup {new} : more[i].of = s[j]
  <2> SUFFICES ASSUME NEW i \in 1 .. n + 1 PROVE \E j \in received \cup {new} : more[i].of = s[j]
    BY <1>1
  <2> QED  BY <1>1, <1>2 DEF Lists
<1>5. \A j \in received \cup {new} : \E i \in 1 .. Len(more) : more[i].of = s[j]
  <2> SUFFICES ASSUME NEW j \in received \cup {new} PROVE \E i \in 1 .. n + 1 : more[i].of = s[j]
    BY <1>1
  <2>1. CASE j = new
    <3>1. n + 1 \in 1 .. n + 1
      BY <1>1
    <3> QED  BY <1>1, <2>1, <3>1
  <2>2. CASE j \in received
    <3>1. PICK i \in 1 .. n : digests[i].of = s[j]
      BY <2>2 DEF Lists
    <3>2. i \in 1 .. n + 1
      BY <1>1
    <3> QED  BY <1>1, <3>1, <3>2
  <2> QED  BY <2>1, <2>2
<1>6. \A i, j \in 1 .. Len(more) : more[i].of = more[j].of => i = j
  <2> SUFFICES ASSUME NEW i \in 1 .. n + 1, NEW j \in 1 .. n + 1, more[i].of = more[j].of PROVE i = j
    BY <1>1
  <2>1. CASE i \in 1 .. n /\ j \in 1 .. n
    BY <1>1, <2>1 DEF Lists
  <2>2. CASE i = n + 1 \/ j = n + 1
    BY <1>1, <1>2, <1>3, <2>2
  <2> QED  BY <1>2, <2>1, <2>2
<1> QED  BY <1>4, <1>5, <1>6 DEF Lists, more

\* The order of the digests does not matter.
LEMMA ListSorts ==
  ASSUME NEW digests \in Seq(Digests), NEW s, NEW received, Lists(digests, s, received),
         NEW order \in Bijection(DOMAIN digests, DOMAIN digests)
  PROVE  Lists([k \in DOMAIN digests |-> digests[order[k]]], s, received)
<1> DEFINE n == Len(digests)  other == [k \in DOMAIN digests |-> digests[order[k]]]
<1>1. DOMAIN digests = 1 .. n /\ n \in Nat /\ Len(other) = n
  OBVIOUS
<1>2. /\ \A k \in 1 .. n : order[k] \in 1 .. n /\ other[k] = digests[order[k]]
      /\ \A i, j \in 1 .. n : order[i] = order[j] => i = j
      /\ \A i \in 1 .. n : \E k \in 1 .. n : order[k] = i
  <2>1. order \in Bijection(1 .. n, 1 .. n)
    BY <1>1
  <2> QED  BY <1>1, <2>1 DEF Bijection, Injection, Surjection, IsInjective
<1> HIDE DEF other
<1> DEFINE back(i) == order[i]
<1>3. \A i \in 1 .. n : back(i) \in 1 .. n /\ other[i] = digests[back(i)]
  BY <1>2
<1>4. \A i, j \in 1 .. n : back(i) = back(j) => i = j
  BY <1>2
<1> HIDE DEF back
<1>5. \A i \in 1 .. n : \E j \in received : other[i].of = s[j]
  <2> SUFFICES ASSUME NEW i \in 1 .. n PROVE \E j \in received : other[i].of = s[j]
    OBVIOUS
  <2>1. PICK j \in received : digests[back(i)].of = s[j]
    BY <1>3 DEF Lists
  <2> QED  BY <1>3, <2>1
<1>6. \A j \in received : \E i \in 1 .. n : other[i].of = s[j]
  <2> SUFFICES ASSUME NEW j \in received PROVE \E i \in 1 .. n : other[i].of = s[j]
    OBVIOUS
  <2>1. PICK i \in 1 .. n : digests[i].of = s[j]
    BY DEF Lists
  <2>2. PICK k \in 1 .. n : order[k] = i
    BY <1>2
  <2> QED  BY <1>2, <2>1, <2>2
<1>7. \A i, j \in 1 .. n : other[i].of = other[j].of => i = j
  <2> SUFFICES ASSUME NEW i \in 1 .. n, NEW j \in 1 .. n, other[i].of = other[j].of PROVE i = j
    OBVIOUS
  <2>1. digests[back(i)].of = digests[back(j)].of
    BY <1>3
  <2>2. back(i) = back(j)
    BY <1>3, <2>1 DEF Lists
  <2> QED  BY <1>4, <2>2
<1> QED  BY <1>1, <1>5, <1>6, <1>7 DEF Lists, other

\* The digests are of what was received, each once.
LEMMA ListedStep ==
  ASSUME CreateTypeOK, CreateTypeOK', Shape, Shape', Ready, Shared, Listed, MakersNext
  PROVE  Listed'
<1>1. CASE parent' = "idle" \/ hurt'
  BY <1>1 DEF Listed
<1>2. CASE parent = "idle" /\ parent' # "idle"
  <2>1. Create
    BY <1>2, Starts
  <2>2. Received' = {}
    <3> SUFFICES ASSUME NEW j \in (1 .. Len(stock))', NEW k \in 1 .. NumWorkers',
                        Before(k - 1)' < j, j <= Got(k)'
                 PROVE  FALSE
      BY DEF Received
    <3>1. Got(k)' = Before(k - 1)' /\ stock' = stock /\ stock # <<>> /\ NumWorkers' = NumWorkers
          /\ Before(k - 1)' = Before(k - 1)
      BY <2>1, ShareBegins, SameShares DEF Create
    <3>2. k - 1 \in 0 .. NumWorkers
      BY <3>1, SomeWorkers
    <3>3. Before(k - 1) \in Nat
      BY <3>1, <3>2, Intervals
    <3> QED  BY <3>1, <3>3
  <2>3. dlist' = <<>>
    BY <2>1 DEF Create
  <2>4. Lists(<<>>, stock', {})
    BY DEF Lists
  <2> QED  BY <2>2, <2>3, <2>4 DEF Listed
<1>3. CASE parent # "idle" /\ parent' # "idle" /\ ~hurt'
  <2>1. /\ UNCHANGED <<stock, count, creation>> /\ NumWorkers' = NumWorkers /\ Lists(dlist, stock, Received)
        /\ \A k : Before(k)' = Before(k)
    BY <1>3, Others, Unhurt, SameShares DEF Listed
  <2>2. CASE \A v \in fds : ~ReadDigest(v)
    <3>1. \A k \in 1 .. NumWorkers : Got(k)' = Got(k)
      BY <1>3, <2>2, ShareKept
    <3>2. Received' = Received
      BY <2>1, <3>1 DEF Received
    <3>3. ~Deposit /\ ~Create /\ ~CreateInit' /\ ~Ending
      BY <1>3 DEF Deposit, Create, CreateInit, Ending, PackDigests, ForkFails, ParentKilled, PackFails, Leaves
    <3>4. UNCHANGED dlist \/ Sort
      BY <2>2, <3>3, MoveFrame DEF MakersNext, Fork, Mark, ReadEnd, Wait, WriteMeta, PackMeta, PackManifests, makers
    <3>5. CASE Sort
      <4>1. PICK order \in Bijection(DOMAIN dlist, DOMAIN dlist) : dlist' = [k \in DOMAIN dlist |-> dlist[order[k]]]
        BY <3>5 DEF Sort
      <4>2. Lists(dlist', stock, Received)
        BY <2>1, <4>1, ListSorts DEF CreateTypeOK
      <4> QED  BY <2>1, <3>2, <4>2 DEF Listed
    <3> QED  BY <2>1, <3>2, <3>4, <3>5 DEF Listed
  <2>3. ASSUME NEW v \in fds, ReadDigest(v) PROVE Listed'
    <3>1. PICK k \in 1 .. NumWorkers : v = <<creation, k>>
      BY Polled
    <3>2. \A n \in 1 .. NumWorkers : SharedOf(n) /\ Got(n) \in Before(n - 1) .. Before(n)
      BY <1>3, GotRange, Unhurt DEF Shared
    <3>3. /\ Got(k)' = Got(k) + 1 /\ Got(k) + 1 <= Before(k) /\ Head(worker[v].sock).of = stock[Got(k) + 1]
          /\ \A n \in 1 .. NumWorkers : n # k => Got(n)' = Got(n)
      BY <2>3, <3>1, <3>2, ShareRead
    <3>4. /\ Before(k - 1) \in Nat /\ Before(k) \in Nat /\ Before(k) <= Len(stock) /\ Len(stock) \in Nat
          /\ stock \in Seq(Archives) /\ stock # <<>> /\ worker[v].sock \in Seq(Messages)
      BY <1>3, <3>1, ShareFacts
    <3>5. PICK new \in 1 .. Len(stock) : new = Got(k) + 1 /\ Before(k - 1) < new /\ new <= Before(k)
      BY <3>2, <3>3, <3>4
    <3>6. \A n \in 1 .. NumWorkers : Before(n - 1) \in Nat /\ Before(n) \in Nat
      BY <1>3, ShareFacts
    <3>7. new \notin Received
      <4> SUFFICES ASSUME NEW n \in 1 .. NumWorkers, Before(n - 1) < new, new <= Got(n) PROVE FALSE
        BY DEF Received
      <4>1. new <= Before(n)
        BY <3>2, <3>6
      <4>2. n = k
        BY <3>4, <3>5, <4>1, Disjoint
      <4> QED  BY <3>2, <3>4, <3>5, <4>2
    <3>8. Received' = Received \cup {new}
      <4>1. \A j \in 1 .. Len(stock) : j <= Got(k)' <=> (j <= Got(k) \/ j = new)
        BY <3>2, <3>3, <3>4, <3>5
      <4>2. ASSUME NEW j \in 1 .. Len(stock) PROVE j \in Received' <=> j \in Received \cup {new}
        <5>1. j \in Received' <=> \E n \in 1 .. NumWorkers : Before(n - 1) < j /\ j <= Got(n)'
          BY <2>1 DEF Received
        <5>2. j \in Received <=> \E n \in 1 .. NumWorkers : Before(n - 1) < j /\ j <= Got(n)
          BY DEF Received
        <5> QED  BY <3>3, <3>5, <4>1, <5>1, <5>2
      <4>3. Received \subseteq 1 .. Len(stock) /\ Received' \subseteq 1 .. Len(stock)
        BY <2>1 DEF Received
      <4> QED  BY <4>2, <4>3
    <3>9. /\ dlist' = Append(dlist, Head(worker[v].sock)) /\ Head(worker[v].sock) \in Digests
      <4>1. worker[v].sock # <<>> /\ Head(worker[v].sock) # End /\ dlist' = Append(dlist, Head(worker[v].sock))
        BY <2>3 DEF ReadDigest
      <4>2. Head(worker[v].sock) \in Messages
        BY <3>4, <4>1
      <4> QED  BY <4>1, <4>2, Data
    <3>10. Lists(dlist', stock, Received')
      <4>1. Received \in SUBSET (1 .. Len(stock)) /\ dlist \in Seq(Digests) /\ IsInjective(stock)
        BY DEF Received, CreateTypeOK, Shape
      <4> QED  BY <2>1, <3>3, <3>4, <3>5, <3>7, <3>8, <3>9, <4>1, ListGrows
    <3> QED  BY <2>1, <3>10 DEF Listed
  <2> QED  BY <2>2, <2>3
<1> QED  BY <1>1, <1>2, <1>3

-----------------------------------------------------------------------------
(* The manifests of the first creation.                                    *)

\* What a worker has written is of its share.
LEMMA WroteRange ==
  ASSUME CreateTypeOK, Shape, Ready, parent # "idle", NEW k \in 1 .. NumWorkers, SharedOf(k)
  PROVE  Wrote(k) \in Before(k - 1) .. Before(k)
<1> DEFINE w == <<creation, k>>  from == Before(k - 1)  to == Before(k)
<1>1. /\ from \in Nat /\ to \in Nat /\ from <= to /\ w \in Workers
      /\ worker[w].todo \in Seq(Archives) /\ worker[w].sock \in Seq(Messages) /\ Done(w) \in {0, 1}
  BY ShareFacts
<1>2. CASE w \notin fds
  BY <1>1, <1>2 DEF Wrote
<1>3. CASE w \in fds
  <2>1. worker[w].pc \in {"unlock", "send"} => Len(worker[w].todo) >= 1
    <3>1. worker[w].pc \in {"unlock", "send"} => worker[w].todo # <<>>
      BY <1>1 DEF Ready, Working
    <3> QED  BY <1>1, <3>1
  <2>2. /\ to + Done(w) - Len(worker[w].sock) - Len(worker[w].todo) \in from .. to
        /\ Done(w) = 1 => Len(worker[w].sock) >= 1
    <3>1. InOrder(stock, from, to, worker[w].todo, worker[w].sock, Done(w))
      BY <1>3 DEF SharedOf
    <3>2. Done(w) = 1 => worker[w].sock # <<>>
      BY <3>1 DEF InOrder
    <3> QED  BY <1>1, <3>1, <3>2 DEF InOrder, Taken
  <2>3. Len(worker[w].todo) \in Nat /\ Len(worker[w].sock) \in Nat /\ to - Len(worker[w].todo) >= from
    <3> DEFINE n == Len(worker[w].todo)  m == Len(worker[w].sock)  d == Done(w)
    <3>1. n \in Nat /\ m \in Nat /\ d \in {0, 1} /\ from \in Nat /\ to \in Nat
      BY <1>1
    <3>2. to + d - m - n \in from .. to /\ (d = 1 => m >= 1)
      BY <2>2
    <3> HIDE DEF n, m, d, from, to
    <3>3. to - n >= from
      BY <3>1, <3>2
    <3> QED  BY <3>1, <3>3 DEF n, m
  <2>4. Wrote(k) = to - Len(worker[w].todo) + (IF worker[w].pc \in {"unlock", "send"} THEN 1 ELSE 0)
    BY <1>3 DEF Wrote
  <2> HIDE DEF w, from, to
  <2> QED  BY <1>1, <2>1, <2>3, <2>4 DEF w, from, to
<1> QED  BY <1>2, <1>3

\* A step that leaves a worker as it is leaves what it wrote.
LEMMA WroteStays ==
  ASSUME UNCHANGED <<stock, count, creation>>, NEW k,
         <<creation, k>> \in fds' <=> <<creation, k>> \in fds,
         <<creation, k>> \in fds =>
           /\ worker'[<<creation, k>>].todo = worker[<<creation, k>>].todo
           /\ worker'[<<creation, k>>].pc \in {"unlock", "send"} <=> worker[<<creation, k>>].pc \in {"unlock", "send"},
         <<creation, k>> \notin fds => (parent' = "fork" <=> parent = "fork")
  PROVE  Wrote(k)' = Wrote(k)
<1>1. Before(k)' = Before(k) /\ Before(k - 1)' = Before(k - 1) /\ <<creation, k>>' = <<creation, k>>
  BY SameShares
<1> QED  BY <1>1 DEF Wrote

\* A worker that moves, but does not write.
LEMMA WroteMoved ==
  ASSUME CreateTypeOK, Shape, Ready, parent # "idle",
         NEW v \in Workers, v[1] = creation, WorkerStep(v), ~Write(v), NEW k \in 1 .. NumWorkers
  PROVE  Wrote(k)' = Wrote(k)
<1>1. /\ WorkerMove(v) /\ UNCHANGED <<stock, count, creation, parent, fds>>
      /\ Lock(v) \/ Seek(v) \/ Unlock(v) \/ Send(v) \/ Finish(v)
  BY DEF WorkerStep, WorkerMove
<1>2. CASE v # <<creation, k>>
  <2>1. worker'[<<creation, k>>] = worker[<<creation, k>>]
    BY <1>1, <1>2, MoveType, ShareFacts
  <2> QED  BY <1>1, <2>1, WroteStays
<1>3. CASE v = <<creation, k>>
  <2>1. CASE Lock(v) \/ Seek(v) \/ Unlock(v)
    <3>1. Same(v) /\ (worker'[v].pc \in {"unlock", "send"} <=> worker[v].pc \in {"unlock", "send"})
      BY <2>1, MoveFields DEF Lock, Seek, Unlock
    <3> QED  BY <1>1, <1>3, <3>1, WroteStays DEF Same
  <2>2. CASE Send(v)
    <3>1. worker[v].todo \in Seq(Archives) /\ worker[v].todo # <<>> /\ worker[v].pc = "send"
      BY <2>2, WorkersType DEF Send, Ready, Working, WorkerStates
    <3>2. worker'[v].todo = Tail(worker[v].todo) /\ worker'[v].pc = "open"
      BY <2>2, MoveFields
    <3>3. Len(worker'[v].todo) = Len(worker[v].todo) - 1 /\ Len(worker[v].todo) \in Nat
      BY <3>1, <3>2
    <3>4. Before(k) \in Nat /\ Before(k)' = Before(k) /\ Before(k - 1)' = Before(k - 1)
      BY <1>1, ShareFacts, SameShares
    <3>5. CASE v \in fds
      <4>1. Wrote(k) = Before(k) - Len(worker[v].todo) + 1
        BY <1>3, <3>1, <3>5 DEF Wrote
      <4>2. Wrote(k)' = Before(k) - Len(worker'[v].todo) + 0
        BY <1>1, <1>3, <3>2, <3>4, <3>5 DEF Wrote
      <4> QED  BY <3>3, <3>4, <4>1, <4>2
    <3>6. CASE v \notin fds
      BY <1>1, <1>3, <3>6, WroteStays
    <3> QED  BY <3>5, <3>6
  <2>3. CASE Finish(v)
    <3>1. worker[v].pc = "open" /\ worker[v].todo = <<>> /\ Exits(v, Append(worker[v].sock, End))
      BY <2>3 DEF Finish
    <3>2. worker'[v].todo = <<>> /\ worker'[v].pc \in {"none", "gone"}
      BY <3>1, ExitFields
    <3> QED  BY <1>1, <1>3, <3>1, <3>2, WroteStays
  <2> QED  BY <1>1, <2>1, <2>2, <2>3
<1> QED  BY <1>2, <1>3

\* A worker that writes.
LEMMA WroteMore ==
  ASSUME CreateTypeOK, Shape, Ready, parent # "idle", NEW k \in 1 .. NumWorkers, SharedOf(k),
         NEW v \in Workers, v[1] = creation, WorkerStep(v), Write(v)
  PROVE  /\ v # <<creation, k>> => Wrote(k)' = Wrote(k)
         /\ v = <<creation, k>> => Wrote(k)' = Wrote(k) + 1 /\ Wrote(k) + 1 <= Before(k)
<1>1. /\ WorkerMove(v) /\ UNCHANGED <<stock, count, creation, parent, fds>> /\ Alive(v)
  BY DEF WorkerStep, WorkerMove, Write, Alive
<1>2. CASE v # <<creation, k>>
  <2>1. worker'[<<creation, k>>] = worker[<<creation, k>>]
    BY <1>1, <1>2, MoveType, ShareFacts
  <2> QED  BY <1>1, <1>2, <2>1, WroteStays
<1>3. CASE v = <<creation, k>>
  <2>1. v \in fds
    BY <1>1, <1>3 DEF SharedOf
  <2>2. worker[v].todo \in Seq(Archives) /\ worker[v].todo # <<>> /\ worker[v].pc = "write"
    BY WorkersType DEF Write, Ready, Working, WorkerStates
  <2>3. worker'[v].todo = worker[v].todo /\ worker'[v].pc = "unlock"
    BY MoveFields DEF Same
  <2>4. Len(worker[v].todo) \in Nat \ {0}
    BY <2>2
  <2>5. Before(k) \in Nat /\ Before(k)' = Before(k)
    BY <1>1, ShareFacts, SameShares
  <2>6. Wrote(k) = Before(k) - Len(worker[v].todo) + 0
    BY <1>3, <2>1, <2>2 DEF Wrote
  <2>7. Wrote(k)' = Before(k) - Len(worker[v].todo) + 1
    BY <1>1, <1>3, <2>1, <2>3, <2>5 DEF Wrote
  <2> QED  BY <1>3, <2>4, <2>5, <2>6, <2>7
<1> QED  BY <1>2, <1>3

\* What was written stays so until a worker writes.
LEMMA WroteKept ==
  ASSUME CreateTypeOK, Shape, Ready, Shared, MakersNext, parent # "idle", parent' # "idle", ~hurt',
         \A v \in Workers : ~(WorkerMove(v) /\ Write(v)), NEW k \in 1 .. NumWorkers
  PROVE  Wrote(k)' = Wrote(k)
<1>1. /\ SharedOf(k) /\ UNCHANGED <<stock, count, creation>> /\ NumWorkers' = NumWorkers
  BY Unhurt, Others DEF Shared
<1>2. <<creation, k>> \in Workers
  BY ShareFacts
<1>3. CASE Fork
  <2>1. PICK j \in 1 .. NumWorkers :
          /\ <<creation, j>> \in Workers \ fds /\ fds' = fds \cup {<<creation, j>>}
          /\ worker' = [worker EXCEPT ![<<creation, j>>] =
               [Nobody EXCEPT !.pc = "open", !.todo = SubSeq(stock, Before(j - 1) + 1, Before(j))]]
    BY <1>3, ForkNext
  <2>2. parent = "fork" /\ parent' = "fork" /\ stock # <<>>
    BY <1>3 DEF Fork, Shape
  <2>3. CASE k = j
    <3>1. worker'[<<creation, k>>].todo = SubSeq(stock, Before(k - 1) + 1, Before(k)) /\ worker'[<<creation, k>>].pc = "open"
      BY <2>1, <2>3 DEF CreateTypeOK, Nobody
    <3>2. Len(worker'[<<creation, k>>].todo) = Before(k) - Before(k - 1) /\ Before(k) \in Nat /\ Before(k - 1) \in Nat
      BY <2>2, <3>1, ShareType, ShareFacts
    <3>3. Before(k)' = Before(k) /\ <<creation, k>>' = <<creation, k>> /\ <<creation, k>> \in fds' /\ <<creation, k>> \notin fds
      BY <1>1, <2>1, <2>3, SameShares
    <3>4. Wrote(k)' = Before(k) - Len(worker'[<<creation, k>>].todo) + 0 /\ Wrote(k) = Before(k - 1)
      BY <1>1, <2>2, <3>1, <3>3 DEF Wrote
    <3> QED  BY <3>2, <3>4
  <2>4. CASE k # j
    <3>1. <<creation, k>> \in fds' <=> <<creation, k>> \in fds
      BY <2>1, <2>4
    <3>2. worker'[<<creation, k>>] = worker[<<creation, k>>]
      BY <1>2, <2>1, <2>4 DEF CreateTypeOK
    <3> QED  BY <1>1, <2>2, <3>1, <3>2, WroteStays
  <2> QED  BY <2>3, <2>4
<1>4. CASE Mark
  <2>1. parent = "fork" /\ Cardinality(fds) = NumWorkers /\ UNCHANGED fds
    BY <1>4 DEF Mark
  <2>2. <<creation, k>> \in fds
    BY <2>1 DEF Shape
  <2>3. /\ worker'[<<creation, k>>].todo = worker[<<creation, k>>].todo
        /\ worker'[<<creation, k>>].pc = worker[<<creation, k>>].pc
    BY <1>2, <1>4 DEF Mark, CreateTypeOK, WorkerStates
  <2> QED  BY <1>1, <2>1, <2>2, <2>3, WroteStays
<1>5. ASSUME NEW v \in fds, parent = "poll", ReadDigest(v) \/ ReadEnd(v) PROVE Wrote(k)' = Wrote(k)
  <2>1. v \in Workers /\ \E s : worker' = [worker EXCEPT ![v].sock = s]
    BY <1>5, Polled DEF ReadDigest, ReadEnd
  <2>2. /\ worker'[<<creation, k>>].todo = worker[<<creation, k>>].todo
        /\ worker'[<<creation, k>>].pc = worker[<<creation, k>>].pc
    BY <1>2, <2>1 DEF CreateTypeOK, WorkerStates
  <2>3. parent = "poll" /\ parent' \in {"poll", "wait"}
    BY <1>5 DEF ReadDigest, ReadEnd
  <2>4. CASE <<creation, k>> \in fds' <=> <<creation, k>> \in fds
    BY <1>1, <2>2, <2>3, <2>4, WroteStays
  <2>5. CASE ~(<<creation, k>> \in fds' <=> <<creation, k>> \in fds)
    <3>1. ReadEnd(v) /\ v = <<creation, k>> /\ v \in fds /\ v \notin fds'
      BY <1>5, <2>5 DEF ReadDigest, ReadEnd
    <3>2. worker[v].pc = "gone" /\ worker[v].todo = <<>> /\ Before(k) \in Nat
      BY <1>1, <3>1, ShareEnded, ShareFacts
    <3>3. Len(worker[v].todo) = 0
      BY <3>2
    <3>4. Before(k)' = Before(k) /\ v = <<creation, k>>'
      BY <1>1, <3>1, SameShares
    <3>5. Wrote(k) = Before(k) - 0 + 0
      BY <3>1, <3>2, <3>3 DEF Wrote
    <3>6. Wrote(k)' = Before(k)
      BY <2>3, <3>1, <3>4 DEF Wrote
    <3> QED  BY <3>2, <3>5, <3>6
  <2> QED  BY <2>4, <2>5
<1>6. CASE Wait \/ Sort \/ PackMeta \/ PackManifests \/ UNCHANGED makers
  <2>1. UNCHANGED <<worker, fds>> /\ (parent' = "fork" <=> parent = "fork")
    BY <1>6 DEF Wait, Sort, PackMeta, PackManifests, makers
  <2> QED  BY <1>1, <2>1, WroteStays
<1>7. CASE WriteMeta
  <2>1. fds = {} /\ UNCHANGED fds /\ (parent' = "fork" <=> parent = "fork")
    BY <1>7 DEF WriteMeta, Shape
  <2> QED  BY <1>1, <2>1, WroteStays
<1>8. ASSUME NEW v \in Workers, WorkerMove(v) PROVE Wrote(k)' = Wrote(k)
  <2>1. CASE v[1] = creation
    <3>1. WorkerStep(v) /\ ~Write(v)
      BY <1>8, <2>1, MoveFrame
    <3> QED  BY <2>1, <3>1, WroteMoved
  <2>2. CASE v[1] # creation
    <3>1. worker'[<<creation, k>>] = worker[<<creation, k>>] /\ UNCHANGED <<fds, parent>>
      BY <1>2, <1>8, <2>2, MoveType, MoveFrame
    <3> QED  BY <1>1, <3>1, WroteStays
  <2> QED  BY <2>1, <2>2
<1>9. ~Deposit /\ ~Create /\ ~CreateInit' /\ ~Ending
  BY DEF Deposit, Create, CreateInit, Ending, PackDigests, ForkFails, ParentKilled, PackFails, Leaves
<1> QED  BY <1>3, <1>4, <1>5, <1>6, <1>7, <1>8, <1>9 DEF MakersNext

\* A worker that writes adds one archive to those that are written.
LEMMA WrittenMore ==
  ASSUME CreateTypeOK, Shape, Ready, Shared, parent # "idle", ~hurt,
         NEW v \in Workers, v[1] = creation, WorkerStep(v), Write(v)
  PROVE  Cardinality(WrittenUp') = Cardinality(WrittenUp) + 1
<1>1. UNCHANGED <<stock, count, creation, parent>> /\ NumWorkers' = NumWorkers /\ \A n : Before(n)' = Before(n)
  BY SameShares DEF WorkerStep
<1>2. PICK k \in 1 .. NumWorkers : v = <<creation, k>>
  <2>1. Alive(v)
    BY DEF Write, Alive
  <2>2. v[2] <= NumWorkers /\ v[2] \in 1 .. MaxWorkers /\ v = <<v[1], v[2]>>
    BY <2>1, WorkersType DEF Ready, Alive
  <2>3. v[2] \in 1 .. NumWorkers
    <3>1. stock # <<>>
      BY DEF Shape
    <3>2. NumWorkers \in Nat
      BY <3>1, SomeWorkers
    <3> QED  BY <2>2, <3>2, CreateAssumption
  <2> QED  BY <2>2, <2>3
<1>3. \A n \in 1 .. NumWorkers : SharedOf(n)
  BY DEF Shared
<1>4. \A n \in 1 .. NumWorkers : Wrote(n) \in Before(n - 1) .. Before(n)
  BY <1>3, WroteRange
<1>5. /\ Wrote(k)' = Wrote(k) + 1 /\ Wrote(k) + 1 <= Before(k)
      /\ \A n \in 1 .. NumWorkers : n # k => Wrote(n)' = Wrote(n)
  BY <1>2, <1>3, WroteMore
<1>6. /\ Before(k - 1) \in Nat /\ Before(k) \in Nat /\ Before(k) <= Len(stock) /\ Len(stock) \in Nat
      /\ stock # <<>> /\ \A n \in 1 .. NumWorkers : Before(n - 1) \in Nat /\ Before(n) \in Nat
  BY ShareFacts
<1>7. PICK new \in 1 .. Len(stock) : new = Wrote(k) + 1 /\ Before(k - 1) < new /\ new <= Before(k)
  BY <1>4, <1>5, <1>6
<1>8. new \notin WrittenUp
  <2> SUFFICES ASSUME NEW n \in 1 .. NumWorkers, Before(n - 1) < new, new <= Wrote(n) PROVE FALSE
    BY DEF WrittenUp
  <2>1. new <= Before(n)
    BY <1>4, <1>6
  <2>2. n = k
    BY <1>6, <1>7, <2>1, Disjoint
  <2> QED  BY <1>4, <1>6, <1>7, <2>2
<1>9. WrittenUp' = WrittenUp \cup {new}
  <2>1. \A j \in 1 .. Len(stock) : j <= Wrote(k)' <=> (j <= Wrote(k) \/ j = new)
    BY <1>4, <1>5, <1>6, <1>7
  <2>2. ASSUME NEW j \in 1 .. Len(stock) PROVE j \in WrittenUp' <=> j \in WrittenUp \cup {new}
    <3>1. j \in WrittenUp' <=> \E n \in 1 .. NumWorkers : Before(n - 1) < j /\ j <= Wrote(n)'
      BY <1>1 DEF WrittenUp
    <3>2. j \in WrittenUp <=> \E n \in 1 .. NumWorkers : Before(n - 1) < j /\ j <= Wrote(n)
      BY DEF WrittenUp
    <3> QED  BY <1>5, <1>7, <2>1, <3>1, <3>2
  <2>3. WrittenUp \subseteq 1 .. Len(stock) /\ WrittenUp' \subseteq 1 .. Len(stock)
    BY <1>1 DEF WrittenUp
  <2> QED  BY <2>2, <2>3
<1>10. IsFiniteSet(WrittenUp)
  <2>1. IsFiniteSet(1 .. Len(stock)) /\ WrittenUp \in SUBSET (1 .. Len(stock))
    BY <1>6, FS_Interval DEF WrittenUp
  <2> QED  BY <2>1, FS_Subset
<1> QED  BY <1>8, <1>9, <1>10, FS_AddElement

\* In the first creation, each manifest that is written is in the file once.
LEMMA FirstStep ==
  ASSUME CreateTypeOK, CreateTypeOK', Shape, Shape', Ready, Shared, First, MakersNext
  PROVE  First'
<1>1. CASE ~Live' \/ creation' # 1
  BY <1>1 DEF First
<1>2. CASE Live' /\ creation' = 1 /\ parent = "idle"
  <2>1. Create /\ parent' # "idle"
    BY <1>2, Starts DEF Live
  <2>2. /\ creation' = creation + 1 /\ worker' = worker /\ fds' = {} /\ parent' = "fork" /\ creation \in Nat
        /\ UNCHANGED <<stock, count>> /\ stock # <<>>
    BY <2>1, CreateAssumption DEF Create, CreateTypeOK
  <2>3. \A w \in Workers : worker'[w].pc # "write"
    <3>1. \A w \in Workers : w[1] > creation
      BY <1>2, <2>2, CreateAssumption DEF Workers, Creations
    <3>2. \A w \in Workers : worker[w] = Nobody
      BY <3>1 DEF Ready
    <3> QED  BY <2>2, <3>2 DEF Nobody
  <2>4. Len(file'[path']) = 0
    <3>1. path' \in Creations /\ file' = [file EXCEPT ![path'] = <<>>]
      BY <2>1, <2>2, CreateAssumption DEF Create, CreateTypeOK, Creations
    <3>2. file'[path'] = <<>>
      BY <3>1 DEF CreateTypeOK
    <3> QED  BY <3>2
  <2>5. WrittenUp' = {}
    <3> SUFFICES ASSUME NEW k \in 1 .. NumWorkers', NEW j \in Nat, Before(k - 1)' < j, j <= Wrote(k)'
                 PROVE  FALSE
      BY <2>2 DEF WrittenUp
    <3>1. Wrote(k)' = Before(k - 1)' /\ Before(k - 1)' = Before(k - 1) /\ NumWorkers' = NumWorkers
      BY <2>2, SameShares DEF Wrote
    <3>2. k - 1 \in 0 .. NumWorkers
      BY <2>2, <3>1, SomeWorkers
    <3>3. Before(k - 1) \in Nat
      BY <2>2, <3>2, Intervals
    <3> QED  BY <3>1, <3>3
  <2> QED  BY <2>3, <2>4, <2>5, FS_EmptySet DEF First
<1>3. CASE Live' /\ creation' = 1 /\ parent # "idle"
  <2>1. /\ parent' # "idle" /\ UNCHANGED <<stock, count, creation>> /\ creation = 1 /\ NumWorkers' = NumWorkers
        /\ \A n : Before(n)' = Before(n)
    BY <1>3, Others, SameShares DEF Live
  <2>2. ASSUME ~hurt', \A v \in Workers : ~(WorkerMove(v) /\ Write(v)) PROVE ~hurt /\ WrittenUp' = WrittenUp
    <3>1. \A k \in 1 .. NumWorkers : Wrote(k)' = Wrote(k)
      BY <1>3, <2>1, <2>2, WroteKept
    <3> QED  BY <1>3, <2>1, <2>2, <3>1, Unhurt DEF WrittenUp
  <2>3. CASE \A w \in Workers : ~WorkerMove(w)
    <3>1. Live /\ UNCHANGED <<file, path, offset>> /\ \A w \in Workers : worker'[w].pc = "write" => worker[w].pc = "write"
      BY <1>3, <2>1, <2>3, Calm DEF Working
    <3> QED  BY <2>1, <2>2, <2>3, <3>1 DEF First
  <2>4. ASSUME NEW w \in Workers, WorkerMove(w) PROVE First'
    <3>1. /\ UNCHANGED <<parent, path, inode>> /\ Live /\ path = inode[1] /\ 1 \in Creations /\ path \in Creations
          /\ w[1] = 1 /\ \A v \in Workers \ {w} : worker'[v] = worker[v]
      <4>1. UNCHANGED <<parent, path, inode>> /\ Alive(w) /\ \A v \in Workers \ {w} : worker'[v] = worker[v]
        BY <2>4, MoveFrame, MoveType, MoveSelf
      <4>2. Live /\ path = inode[1] /\ 1 \in Creations
        BY <1>3, <2>1, <4>1 DEF Live, Shape
      <4>3. w[1] \in 1 .. creation /\ 1 \in 1 .. creation
        BY <2>1, <4>1, HasFile
      <4>4. path \in Creations
        BY <4>2, <4>3 DEF Shape
      <4> QED  BY <2>1, <4>1, <4>2, <4>3, <4>4
    <3>2. /\ file \in [Creations -> Seq(Archives \cup {Hole})] /\ file[path] \in Seq(Archives \cup {Hole})
          /\ Len(file[path]) \in Nat /\ offset \in [Creations -> Nat]
      <4>1. file \in [Creations -> Seq(Archives \cup {Hole})] /\ offset \in [Creations -> Nat]
        BY DEF CreateTypeOK
      <4>2. file[path] \in Seq(Archives \cup {Hole})
        BY <3>1, <4>1
      <4> QED  BY <4>1, <4>2
    <3>3. \A v \in Workers : worker[v].pc = "write" => offset[1] = Len(file[path])
      BY <2>1, <3>1 DEF First
    <3>4. CASE Write(w)
      <4>1. /\ file'[path] = Written(file[path], offset[1], Head(worker[w].todo))
            /\ offset'[1] = offset[1] + 1 /\ offset[1] = Len(file[path])
        BY <3>1, <3>2, <3>3, <3>4 DEF Write
      <4>2. Head(worker[w].todo) \in Archives
        <5>1. worker[w].todo \in Seq(Archives) /\ worker[w].todo # <<>>
          BY <3>4, WorkersType DEF WorkerStates, Ready, Write, Working
        <5> QED  BY <5>1
      <4>3. Len(file'[path]) = Len(file[path]) + 1
        <5>1. Len(Written(file[path], offset[1], Head(worker[w].todo))) =
                 IF offset[1] < Len(file[path]) THEN Len(file[path]) ELSE offset[1] + 1
          <6>1. offset[1] \in Nat
            BY <3>2, <4>1
          <6> QED  BY <3>2, <4>2, <6>1, WrittenType
        <5> QED  BY <3>2, <4>1, <5>1
      <4>4. ASSUME ~hurt' PROVE Len(file'[path]) = Cardinality(WrittenUp')
        <5>1. ~hurt /\ WorkerStep(w) /\ parent # "idle"
          BY <1>3, <2>1, <2>4, <3>1, <4>4, MoveFrame
        <5>2. Cardinality(WrittenUp') = Cardinality(WrittenUp) + 1
          BY <2>1, <3>1, <3>4, <5>1, WrittenMore
        <5> QED  BY <2>1, <3>1, <4>3, <5>1, <5>2 DEF First
      <4> QED  BY <3>1, <4>1, <4>3, <4>4 DEF First
    <3>5. CASE ~Write(w)
      <4>1. file' = file
        BY <2>4, <3>5, MoveKinds DEF Lock, Seek, Unlock, Send, Finish, Skips, GivesUp, Killed
      <4>2. ASSUME ~hurt' PROVE Len(file'[path]) = Cardinality(WrittenUp')
        <5>1. \A v \in Workers : ~(WorkerMove(v) /\ Write(v))
          <6>1. \A v \in Workers : Write(v) => worker'[v] # worker[v]
            BY MoveFields DEF Write
          <6> QED  BY <3>1, <3>5, <6>1
        <5> QED  BY <2>1, <2>2, <3>1, <4>1, <4>2, <5>1 DEF First
      <4>3. ASSUME NEW v \in Workers, worker'[v].pc = "write" PROVE offset'[1] = Len(file[path])
        <5>1. CASE Seek(w)
          BY <3>1, <3>2, <5>1 DEF Seek
        <5>2. CASE ~Seek(w)
          <6>1. offset' = offset
            BY <2>4, <3>5, <5>2, MoveKinds DEF Lock, Unlock, Send, Finish, Skips, GivesUp, Killed
          <6>2. v # w
            BY <2>4, <3>5, <4>3, <5>2, MoveKinds, MoveFields, ExitFields DEF Finish, Killed
          <6> QED  BY <3>1, <3>3, <4>3, <6>1, <6>2
        <5> QED  BY <5>1, <5>2
      <4> QED  BY <3>1, <4>1, <4>2, <4>3 DEF First
    <3> QED  BY <3>4, <3>5
  <2> QED  BY <2>3, <2>4
<1> QED  BY <1>1, <1>2, <1>3

\* The digests are packed in order.
LEMMA SortedStep ==
  ASSUME CreateTypeOK, Shape, Sorted, MakersNext
  PROVE  Sorted'
<1>1. CASE parent' \notin {"meta", "pack meta"}
  BY <1>1 DEF Sorted
<1>2. CASE parent' \in {"meta", "pack meta"}
  <2>1. CASE Sort
    <3>1. /\ \A k \in 1 .. Len(dlist) - 1 : dlist'[k].of <= dlist'[k + 1].of
          /\ \E order : dlist' = [k \in DOMAIN dlist |-> dlist[order[k]]]
      BY <2>1 DEF Sort
    <3>2. DOMAIN dlist = 1 .. Len(dlist) /\ Len(dlist) \in Nat
      BY DEF CreateTypeOK
    <3>3. Len(dlist') = Len(dlist)
      BY <3>1, <3>2
    <3> QED  BY <3>1, <3>3 DEF Sorted
  <2>2. CASE WriteMeta \/ UNCHANGED makers
    BY <1>2, <2>2 DEF WriteMeta, makers, Sorted
  <2>3. ASSUME NEW w \in Workers, WorkerMove(w) PROVE Sorted'
    BY <1>2, <2>3, MoveFrame DEF Sorted
  <2>4. /\ ~Create /\ ~CreateInit' /\ ~Ending /\ ~Mark /\ ~Wait /\ ~PackMeta /\ ~PackManifests
        /\ ~Fork /\ ~Deposit /\ \A w \in fds : ~(parent = "poll" /\ (ReadDigest(w) \/ ReadEnd(w)))
    BY <1>2 DEF Deposit, Create, CreateInit, Ending, PackDigests, ForkFails, ParentKilled, PackFails, Leaves,
                Mark, Wait, PackMeta, PackManifests, Fork, ReadDigest, ReadEnd
  <2> QED  BY <2>1, <2>2, <2>3, <2>4 DEF MakersNext
<1> QED  BY <1>1, <1>2

\* The archives of the directory are packed one after the other.
LEMMA PackedStep ==
  ASSUME CreateTypeOK, Shape, Packed, MakersNext
  PROVE  Packed'
<1>0. site \in Catalogues
  BY DEF CreateTypeOK
<1>1. CASE Deposit \/ UNCHANGED makers
  BY <1>1 DEF Deposit, makers, Packed
<1>2. CASE Create \/ Fork \/ Mark \/ Wait \/ Sort \/ WriteMeta
  BY <1>2 DEF Create, Fork, Mark, Wait, Sort, WriteMeta, Shape, Packed
<1>3. ASSUME NEW w \in fds, parent = "poll", ReadDigest(w) \/ ReadEnd(w) PROVE Packed'
  BY <1>3 DEF ReadDigest, ReadEnd, Shape, Packed
<1>4. CASE PackMeta
  BY <1>0, <1>4 DEF PackMeta, Shape, Packed, Catalogues
<1>5. CASE PackManifests
  BY <1>0, <1>5 DEF PackManifests, Shape, Packed, Catalogues
<1>6. CASE Ending
  <2>1. CASE PackDigests
    BY <1>0, <2>1 DEF PackDigests, Leaves, Packed, Catalogues
  <2>2. CASE ForkFails \/ ParentKilled \/ PackFails
    BY <2>2 DEF ForkFails, ParentKilled, PackFails, Leaves, Packed
  <2> QED  BY <1>6, <2>1, <2>2 DEF Ending
<1>7. ASSUME NEW w \in Workers, WorkerMove(w) PROVE Packed'
  BY <1>7, MoveFrame DEF Packed
<1>8. CASE CreateInit'
  BY <1>8 DEF CreateInit, Packed
<1> QED  BY <1>1, <1>2, <1>3, <1>4, <1>5, <1>6, <1>7, <1>8 DEF MakersNext

-----------------------------------------------------------------------------
(* The catalogue.                                                          *)

\* Before anything is made.
LEMMA MakersBegin ==
  ASSUME CreateInit
  PROVE  MakersInv
<1>0. 0 \in 0 .. MaxCreations /\ 0 \in 0 .. MaxFaults
  BY CreateAssumption
<1>1. /\ stock = <<>> /\ count \in 1 .. MaxWorkers /\ creation = 0 /\ parent = "idle"
      /\ path = 0 /\ fds = {} /\ zombies = 0 /\ dlist = <<>> /\ outcome = "none"
      /\ faults = 0 /\ hurt = FALSE /\ crowded = FALSE
      /\ \A w \in Workers : worker[w] = Nobody
  BY DEF CreateInit
<1>2. CreateTypeOK
  <2>1. worker \in [Workers -> WorkerStates]
    BY Data DEF CreateInit
  <2>2. <<>> \in Seq(Archives \cup {Hole}) /\ <<>> \in Seq(Archives) /\ <<>> \in Seq(Digests)
    OBVIOUS
  <2>3. /\ offset \in [Creations -> Nat] /\ inode \in [Creations -> 0 .. MaxCreations]
        /\ file \in [Creations -> Seq(Archives \cup {Hole})] /\ lock \in [Creations -> 0 .. MaxCreations]
    BY <1>0, <2>2 DEF CreateInit
  <2>4. site \in Catalogues
    BY <1>0 DEF CreateInit, Catalogues
  <2>5. parent \in ParentPcs
    BY <1>1 DEF ParentPcs
  <2> QED  BY <1>0, <1>1, <2>1, <2>2, <2>3, <2>4, <2>5 DEF CreateTypeOK
<1>3. Shape
  <2>1. IsInjective(<<>>)
    BY DEF IsInjective
  <2>2. \A c \in 1 .. creation : inode[c] \in Creations
    BY <1>1
  <2> QED  BY <1>1, <2>1, <2>2 DEF Shape, Live
<1>4. Ready
  BY <1>1 DEF Ready, Nobody, Working
<1>5. Alone /\ Excludes /\ Ahead /\ Promised /\ Truthful /\ Shared /\ Listed /\ First /\ Sorted /\ Packed
  BY <1>1 DEF Alone, Excludes, Ahead, Promised, Truthful, Shared, Listed, First, Sorted, Packed, Live
<1> QED  BY <1>2, <1>3, <1>4, <1>5 DEF MakersInv

\* The invariant is inductive.
LEMMA MakersKeep ==
  ASSUME MakersInv, [Next]_vars
  PROVE  MakersInv'
<1>1. CreateTypeOK /\ Shape /\ Ready
  BY DEF MakersInv
<1>2. MakersNext
  BY <1>1, MakersSteps
<1>3. CreateTypeOK'
  BY <1>1, <1>2, MoveType, ParentType
<1>4. Shape' /\ Ready'
  BY <1>1, <1>2, ShapeStep, ReadyStep
<1>5. Alone' /\ Excludes'
  BY <1>1, <1>2, AloneStep, ExcludesStep DEF MakersInv
<1>6. Ahead' /\ Promised' /\ Truthful'
  BY <1>1, <1>2, <1>3, TruthStep DEF MakersInv
<1>7. Shared' /\ Listed'
  BY <1>1, <1>2, <1>3, <1>4, SharedStep, ListedStep DEF MakersInv
<1>8. First'
  BY <1>1, <1>2, <1>3, <1>4, FirstStep DEF MakersInv
<1>9. Sorted' /\ Packed'
  BY <1>1, <1>2, SortedStep, PackedStep DEF MakersInv
<1> QED  BY <1>3, <1>4, <1>5, <1>6, <1>7, <1>8, <1>9 DEF MakersInv

\* When the manifests are about to be packed, all of it has been received.
LEMMA AllReceived ==
  ASSUME MakersInv, parent = "pack meta", ~hurt
  PROVE  Received = 1 .. Len(stock) /\ WrittenUp = 1 .. Len(stock)
<1>1. CreateTypeOK /\ stock # <<>> /\ fds = {}
  BY DEF MakersInv, Shape
<1>2. \A k : Got(k) = Before(k) /\ Wrote(k) = Before(k)
  BY <1>1 DEF Got, Wrote
<1>3. \A j \in 1 .. Len(stock) : \E k \in 1 .. NumWorkers : Before(k - 1) < j /\ j <= Before(k)
  BY <1>1, Covered
<1> QED  BY <1>2, <1>3 DEF Received, WrittenUp

\* The invariant says what the catalogue should be.
LEMMA MakersTrue ==
  ASSUME MakersInv
  PROVE  CatalogueTrue
<1>1. /\ CreateTypeOK /\ Shape /\ Truthful /\ Listed /\ First /\ Sorted /\ Packed
  BY DEF MakersInv
<1>2. ASSUME Live PROVE path = inode[creation] /\ Manifests = file[path] /\ parent # "idle"
  BY <1>1, <1>2 DEF Shape, Manifests, Live
<1>3. ASSUME Live, ~crowded, NEW k \in 1 .. Len(dlist)
      PROVE  \E i \in Held(dlist[k].of) : i > dlist[k].pos
  <2>1. PICK i \in 1 .. Len(file[path]) : file[path][i] = dlist[k].of /\ i > dlist[k].pos
    BY <1>1, <1>3 DEF Truthful, Placed
  <2> QED  BY <1>2, <1>3, <2>1 DEF Held
<1>4. ASSUME parent # "idle", inode[creation] = path PROVE Live
  <2>0. Creations = 1 .. MaxCreations /\ MaxCreations \in Nat
    BY CreateAssumption DEF Creations
  <2>1. creation \in 1 .. creation
    <3>1. creation \in Creations
      BY <1>1, <1>4 DEF Shape
    <3> QED  BY <2>0, <3>1
  <2>2. inode[creation] # 0
    <3>1. inode[creation] \in Creations
      BY <1>1, <2>1 DEF Shape
    <3> QED  BY <2>0, <3>1
  <2> QED  BY <1>1, <1>4, <2>2 DEF Shape, Live
<1>5. ASSUME parent = "pack meta", ~hurt, ~crowded
      PROVE  /\ \A k \in 1 .. Len(stock) : Cardinality(Entries(stock[k])) = 1 /\ Held(stock[k]) # {}
             /\ creation = 1 => Len(Manifests) = Len(stock)
  <2>1. Live /\ Received = 1 .. Len(stock) /\ WrittenUp = 1 .. Len(stock) /\ Len(stock) \in Nat
    <3>1. Received = 1 .. Len(stock) /\ WrittenUp = 1 .. Len(stock)
      BY <1>5, AllReceived
    <3>2. stock \in Seq(Archives)
      BY <1>1 DEF CreateTypeOK
    <3>3. Live
      BY <1>5 DEF Live
    <3> QED  BY <3>1, <3>2, <3>3
  <2>2. ASSUME NEW k \in 1 .. Len(stock) PROVE Cardinality(Entries(stock[k])) = 1 /\ Held(stock[k]) # {}
    <3>1. Lists(dlist, stock, 1 .. Len(stock))
      BY <1>1, <1>5, <2>1 DEF Listed
    <3>2. PICK i \in 1 .. Len(dlist) : dlist[i].of = stock[k]
      BY <3>1 DEF Lists
    <3>3. Entries(stock[k]) = {i}
      BY <3>1, <3>2 DEF Entries, Lists
    <3>4. Held(stock[k]) # {}
      BY <1>3, <1>5, <2>1, <3>2
    <3> QED  BY <3>3, <3>4, FS_Singleton
  <2>3. ASSUME creation = 1 PROVE Len(Manifests) = Len(stock)
    <3>1. Cardinality(1 .. Len(stock)) = Len(stock)
      <4>1. Len(stock) \in Int /\ 1 \in Int /\ Len(stock) \in Nat
        BY <2>1
      <4>2. Cardinality(1 .. Len(stock)) = IF 1 > Len(stock) THEN 0 ELSE Len(stock) - 1 + 1
        BY <4>1, FS_Interval
      <4> QED  BY <4>1, <4>2
    <3> QED  BY <1>1, <1>2, <1>5, <2>1, <2>3, <3>1 DEF First
  <2> QED  BY <2>2, <2>3
<1> QED  BY <1>1, <1>3, <1>4, <1>5 DEF CatalogueTrue, Sorted, Packed

\* However the workers of a creation interleave, and whatever earlier creations
\* left, the catalogue that pkg repo packs is true: each digest is of a manifest
\* that is in the file behind its offset, the digests are in order, there is one
\* of each archive unless something went wrong, and the three archives of the
\* directory are of one creation.
THEOREM CatalogueIsTrue == Spec => []CatalogueTrue
<1>1. Init => MakersInv
  BY MakersBegin DEF Init
<1>2. MakersInv /\ [Next]_vars => MakersInv'
  BY MakersKeep
<1>3. MakersInv => CatalogueTrue
  BY MakersTrue
<1> QED  BY <1>1, <1>2, <1>3, PTL DEF Spec

-----------------------------------------------------------------------------
(* The inductive invariant.                                                *)

\* The operation that runs is of a release, and what it leaves beside the file
\* is the text of one.
Original(text) == \E r \in Releases : text = Vanilla[r]
Operated ==
  /\ work = [step |-> work.step, release |-> work.release, text |-> work.text,
             status |-> work.status, content |-> work.content]
  /\ work.content \in Releases \cup {0}
  /\ ~Idle => work.release \in Releases
  /\ work.status = "failed" => Original(work.text)
  /\ pkgnew.there => Original(pkgnew.text)

ClientInv ==
  /\ ConfigTypeOK /\ Operated
  /\ published \in Seq(Releases) /\ seen \in 1 .. Len(published)
  /\ phase \in {"make", "use", "probe"}

\* An operation begins with a text of the release, or with a merged one.
LEMMA Extracted ==
  ASSUME ClientInv, NEW r \in Releases, Install(r) \/ \E automerge \in BOOLEAN : Upgrade(r, automerge)
  PROVE  ConfigTypeOK' /\ Operated'
<1>1. \E text, status : /\ Writes(r, text, status) /\ status \in {"none", "merged", "failed"}
                        /\ status = "failed" => Original(text)
  <2>1. Original(Vanilla[r])
    BY DEF Original
  <2>2. Replace(r) \/ Beside(r) \/ Merge(r)
    BY DEF Install, Upgrade
  <2>3. CASE Replace(r) \/ Beside(r)
    BY <2>1, <2>3 DEF Replace, Beside
  <2>4. CASE Merge(r)
    <3>1. \/ Writes(r, Vanilla[r], "failed")
          \/ Writes(r, Merge3(Vanilla[content], live.text, Vanilla[r]).out, "merged")
      BY <2>4 DEF Merge
    <3> QED  BY <2>1, <3>1
  <2> QED  BY <2>2, <2>3, <2>4
<1>2. PICK text, status : /\ Writes(r, text, status) /\ status \in {"none", "merged", "failed"}
                          /\ status = "failed" => Original(text)
  BY <1>1
<1>3. /\ work' = [step |-> "extracted", release |-> r, text |-> text, status |-> status, content |-> content]
      /\ UNCHANGED <<installed, content, live, pkgnew, level, own, removed, behind, raced,
                     edits, deaths, deletes>>
  BY <1>2 DEF Writes
<1>4. content \in Releases \cup {0}
  BY DEF ClientInv, ConfigTypeOK
<1>5. ConfigTypeOK'
  BY <1>2, <1>3 DEF ClientInv, ConfigTypeOK
<1>6. Operated'
  BY <1>2, <1>3, <1>4 DEF ClientInv, Operated, Original, Idle
<1> QED  BY <1>5, <1>6

\* The other steps of the program.
LEMMA Programmed ==
  ASSUME ClientInv, ProgramStep
  PROVE  ConfigTypeOK' /\ Operated'
<1>1. ConfigTypeOK /\ Operated /\ ConfigAssumption
  BY ConfigAssumption DEF ClientInv
<1>2. ASSUME NEW step \in {"updated", "unlinked", "renamed"}, ~Idle,
             work'.step = step, work'.release = work.release, work'.text = work.text,
             work'.status = work.status, work'.content \in Releases \cup {0},
             work' = [step |-> work'.step, release |-> work'.release, text |-> work'.text,
                      status |-> work'.status, content |-> work'.content],
             pkgnew' = pkgnew \/ pkgnew' = None \/ (work.status = "failed" /\ pkgnew' = Text(work.text))
      PROVE  Operated'
  BY <1>1, <1>2 DEF Operated, Original, Idle, None, Text
<1>3. CASE UpdateContent
  <2>1. work.step = "extracted" /\ work' = [work EXCEPT !.step = "updated", !.content = work.release]
        /\ UNCHANGED <<installed, content, live, pkgnew, level, own, removed, behind, raced, edits, deaths, deletes>>
    BY <1>3 DEF UpdateContent
  <2>2. /\ work'.step = "updated" /\ work'.release = work.release /\ work'.text = work.text
        /\ work'.status = work.status /\ work'.content = work.release
        /\ work' = [step |-> work'.step, release |-> work'.release, text |-> work'.text,
                    status |-> work'.status, content |-> work'.content]
    BY <1>1, <2>1 DEF Operated
  <2>3. ~Idle /\ work.release \in Releases
    BY <1>1, <2>1 DEF Idle, Operated
  <2> QED  BY <1>1, <1>2, <2>1, <2>2, <2>3 DEF ConfigTypeOK
<1>4. ASSUME NEW step \in {"unlinked", "renamed"}, work' = [work EXCEPT !.step = step]
      PROVE  /\ work'.step = step /\ work'.release = work.release /\ work'.text = work.text
             /\ work'.status = work.status /\ work'.content = work.content
             /\ work' = [step |-> work'.step, release |-> work'.release, text |-> work'.text,
                         status |-> work'.status, content |-> work'.content]
  BY <1>1, <1>4 DEF Operated
<1>5. CASE Unlink
  <2>1. ~Idle /\ work' = [work EXCEPT !.step = "unlinked"] /\ (pkgnew' = pkgnew \/ pkgnew' = None)
        /\ UNCHANGED <<installed, content, level, own, raced, edits, deaths, deletes>> /\ behind' \in BOOLEAN
    BY <1>5 DEF Unlink, Idle, ClientInv, ConfigTypeOK
  <2> QED  BY <1>1, <1>2, <1>4, <2>1 DEF ConfigTypeOK, Operated
<1>6. CASE Rename
  <2>1. /\ ~Idle /\ work' = [work EXCEPT !.step = "renamed"]
        /\ pkgnew' = pkgnew \/ (work.status = "failed" /\ pkgnew' = Text(work.text))
        /\ level' = level \/ level' = work.release
        /\ UNCHANGED <<installed, content, own, behind, raced, edits, deaths, deletes>>
    BY <1>6 DEF Rename, Idle
  <2>2. work.release \in Releases
    BY <1>1, <2>1 DEF Operated
  <2> QED  BY <1>1, <1>2, <1>4, <2>1, <2>2 DEF ConfigTypeOK, Operated
<1>7. ASSUME work' = NoWork, UNCHANGED pkgnew PROVE Operated' /\ work'.step = "none" /\ work'.status = "none"
  BY <1>1, <1>7 DEF Operated, Original, Idle, NoWork
<1>8. CASE Commit
  <2>1. work.release \in Releases /\ work.content \in Releases \cup {0}
    BY <1>1, <1>8 DEF Commit, Operated, Idle
  <2> QED  BY <1>1, <1>7, <1>8, <2>1 DEF Commit, ConfigTypeOK
<1>9. CASE Delete
  <2>1. deletes' \in 0 .. MaxDeletes
    BY <1>1, <1>9 DEF Delete, ConfigTypeOK, ConfigAssumption
  <2> QED  BY <1>1, <1>9, <2>1 DEF Delete, ConfigTypeOK, Operated, Original, Idle
<1>10. CASE Dies
  <2>1. deaths' \in 0 .. MaxDeaths
    BY <1>1, <1>10 DEF Dies, ConfigTypeOK, ConfigAssumption
  <2>2. own' \subseteq OwnLines /\ behind' \in BOOLEAN
    BY <1>1, <1>10 DEF Dies, Gone, ConfigTypeOK
  <2> QED  BY <1>1, <1>7, <1>10, <2>1, <2>2 DEF Dies, ConfigTypeOK
<1> QED  BY <1>3, <1>5, <1>6, <1>8, <1>9, <1>10 DEF ProgramStep

\* The steps of the administrator.
LEMMA Administered ==
  ASSUME ClientInv, AdminStep
  PROVE  ConfigTypeOK' /\ Operated'
<1>1. ConfigTypeOK /\ Operated /\ ConfigAssumption
  BY ConfigAssumption DEF ClientInv
<1>2. CASE Edit
  <2>1. /\ UNCHANGED <<installed, content, pkgnew, work, deaths, deletes, level>>
        /\ raced' \in BOOLEAN /\ edits' \in 0 .. MaxEdits
    BY <1>1, <1>2 DEF Edit, Edits, AddLine, DropLine, DropFile, ConfigTypeOK, ConfigAssumption
  <2>2. own' \subseteq OwnLines /\ behind' \in BOOLEAN
    BY <1>1, <1>2 DEF Edit, AddLine, DropLine, DropFile, Gone, ConfigTypeOK
  <2> QED  BY <1>1, <2>1, <2>2 DEF ConfigTypeOK, Operated, Original, Idle
<1>3. CASE Resolve
  <2>1. \E r \in Releases : Vanilla[r] = pkgnew.text
    BY <1>1, <1>3 DEF Resolve, Operated, Original
  <2>2. level' \in Releases
    BY <1>3, <2>1 DEF Resolve
  <2>3. /\ UNCHANGED <<installed, content, work, own, edits, deaths, deletes>> /\ pkgnew' = None
        /\ raced' \in BOOLEAN /\ behind' \in BOOLEAN
    BY <1>3 DEF Resolve
  <2> QED  BY <1>1, <2>2, <2>3 DEF ConfigTypeOK, Operated, Original, Idle, None
<1> QED  BY <1>2, <1>3 DEF AdminStep

\* The client begins with nothing installed and the catalogue of the first release.
LEMMA ClientBegins == Init => ClientInv
<1> SUFFICES ASSUME Init PROVE ClientInv
  OBVIOUS
<1>1. ConfigTypeOK /\ Operated
  <2>1. /\ installed = 0 /\ content = 0 /\ pkgnew = None /\ work = NoWork /\ level = 0 /\ own = {}
        /\ behind = FALSE /\ raced = FALSE /\ edits = 0 /\ deaths = 0 /\ deletes = 0
    BY DEF Init, ConfigInit
  <2>2. 0 \in 0 .. MaxEdits /\ 0 \in 0 .. MaxDeaths /\ 0 \in 0 .. MaxDeletes
    BY ConfigAssumption
  <2>3. work.step = "none" /\ work.status = "none"
    BY <2>1 DEF NoWork
  <2>4. ConfigTypeOK
    BY <2>1, <2>2, <2>3 DEF ConfigTypeOK
  <2>5. Operated
    BY <2>1 DEF Operated, Idle, NoWork, None
  <2> QED  BY <2>4, <2>5
<1>2. published = <<1>> /\ seen = 1 /\ phase \in {"make", "probe"} /\ 1 \in Releases
  BY ReleaseAssumption DEF Init
<1> QED  BY <1>1, <1>2 DEF ClientInv

\* Every step of the makers and of the client keeps the types of the client.
LEMMA ClientKeeps == MakersInv /\ ClientInv /\ [Next]_vars => ClientInv'
<1> SUFFICES ASSUME MakersInv, ClientInv, [Next]_vars PROVE ClientInv'
  OBVIOUS
<1>1. /\ ConfigTypeOK /\ Operated /\ published \in Seq(Releases) /\ seen \in 1 .. Len(published)
      /\ phase \in {"make", "use", "probe"}
  BY DEF ClientInv
<1>2. UNCHANGED config => ConfigTypeOK' /\ Operated'
  BY <1>1 DEF config, ConfigTypeOK, Operated, Original, Idle
<1>3. CASE Make
  <2>1. Record /\ UNCHANGED <<config, seen, phase>>
    BY <1>3 DEF Make, Record
  <2>2. published' \in Seq(Releases) /\ Len(published) <= Len(published') /\ Len(published') \in Nat
    <3>1. CASE published' = published
      BY <1>1, <3>1
    <3>2. CASE /\ site'.manifests > site.manifests
               /\ published' = Append(published, site'.manifests + 1)
      <4>1. site.manifests \in 0 .. MaxCreations /\ site'.manifests \in 0 .. MaxCreations
        BY MakersKeep DEF MakersInv, CreateTypeOK, Catalogues
      <4>2. site'.manifests + 1 \in Releases
        BY <3>2, <4>1, CreateAssumption, ReleaseAssumption DEF Creations
      <4> QED  BY <1>1, <3>2, <4>2
    <3> QED  BY <2>1, <3>1, <3>2 DEF Record
  <2> QED  BY <1>1, <1>2, <2>1, <2>2 DEF ClientInv
<1>4. CASE Hand
  BY <1>1, <1>2, <1>4 DEF Hand, ClientInv
<1>5. CASE Update
  BY <1>1, <1>2, <1>5 DEF Update, ClientInv
<1>6. CASE Use
  <2>1. UNCHANGED <<published, seen, phase>>
    BY <1>6 DEF Use
  <2>2. published[seen] \in Releases
    BY <1>1
  <2>3. ConfigTypeOK' /\ Operated'
    BY <1>6, <2>2, Extracted, Programmed, Administered DEF Use
  <2> QED  BY <1>1, <2>1, <2>3 DEF ClientInv
<1>7. CASE UNCHANGED vars
  BY <1>1, <1>2, <1>7 DEF vars, ClientInv
<1> QED  BY <1>3, <1>4, <1>5, <1>6, <1>7 DEF Next

\* All variables have their types: what the makers publish are releases, and the
\* text beside a configuration file is one that can be taken over.
THEOREM ReleaseIsTyped == Spec => []TypeOK
<1>1. Init => MakersInv /\ ClientInv
  BY MakersBegin, ClientBegins DEF Init
<1>2. MakersInv /\ ClientInv /\ [Next]_vars => MakersInv' /\ ClientInv'
  BY MakersKeep, ClientKeeps
<1>3. MakersInv /\ ClientInv => TypeOK
  BY DEF MakersInv, ClientInv, TypeOK
<1> QED  BY <1>1, <1>2, <1>3, PTL DEF Spec

-----------------------------------------------------------------------------
(* The lines of the administrator.                                         *)

AllLines == OwnLines \cup UNION {LinesOf(Vanilla[r]) : r \in Releases}

\* The lines of two texts in a row.
LEMMA ConcatLines ==
  ASSUME NEW L, NEW a \in Seq(L), NEW b \in Seq(L)
  PROVE  a \o b \in Seq(L) /\ LinesOf(a \o b) = LinesOf(a) \cup LinesOf(b)
<1>1. \A t, x : Has(t, x) <=> x \in LinesOf(t)
  BY DEF Has, LinesOf
<1>2. \A x : x \in LinesOf(a \o b) <=> x \in LinesOf(a) \/ x \in LinesOf(b)
  BY <1>1, HasConcat
<1> QED  BY <1>2, ConcatProperties

\* The lines of a part of a text.
LEMMA PartLines ==
  ASSUME NEW L, NEW a \in Seq(L), NEW m \in 1 .. Len(a) + 1, NEW n \in m - 1 .. Len(a)
  PROVE  /\ SubSeq(a, m, n) \in Seq(L)
         /\ LinesOf(SubSeq(a, m, n)) \subseteq LinesOf(a)
         /\ \A k \in m .. n : a[k] \in LinesOf(SubSeq(a, m, n))
<1> DEFINE p == m - 1
           k == n - p
           s == Lines(a, p, k)
<1>1. p \in Nat /\ k \in Nat /\ p + k = n /\ p + 1 = m /\ p + k <= Len(a)
  BY LenProperties
<1>2. s = SubSeq(a, m, n)
  <2> HIDE DEF p, k
  <2> QED  BY <1>1 DEF Lines
<1> HIDE DEF p, k, s
<1>3. s \in Seq(L)
  BY <1>1, LinesFacts DEF s
<1>4. \A x : /\ Has(s, x) => Has(a, x)
             /\ \A i \in Nat : p < i /\ i <= p + k /\ a[i] = x => Has(s, x)
  BY <1>1, HasLines DEF s
<1>5. \A t, x : Has(t, x) <=> x \in LinesOf(t)
  BY DEF Has, LinesOf
<1>6. ASSUME NEW i \in m .. n  PROVE a[i] \in LinesOf(s)
  <2>1. i \in Nat /\ p < i /\ i <= p + k
    BY <1>1
  <2> QED  BY <1>4, <1>5, <2>1
<1>7. \A x \in LinesOf(s) : x \in LinesOf(a)
  BY <1>4, <1>5
<1> QED  BY <1>2, <1>3, <1>6, <1>7

\* A text with a line more.
LEMMA AddedLine ==
  ASSUME NEW L, NEW a \in Seq(L), NEW x \in L, NEW k \in 1 .. Len(a) + 1
  PROVE  InsertAt(a, k, x) \in Seq(L) /\ LinesOf(InsertAt(a, k, x)) = LinesOf(a) \cup {x}
<1> DEFINE n == Len(a)
           b == SubSeq(a, 1, k - 1)
           c == SubSeq(a, k, n)
<1>1. n \in Nat
  BY LenProperties
<1>2. 1 \in 1 .. n + 1 /\ k - 1 \in 1 - 1 .. n /\ n \in k - 1 .. n
  BY <1>1
<1>3. /\ b \in Seq(L) /\ LinesOf(b) \subseteq LinesOf(a) /\ \A i \in 1 .. k - 1 : a[i] \in LinesOf(b)
      /\ c \in Seq(L) /\ LinesOf(c) \subseteq LinesOf(a) /\ \A i \in k .. n : a[i] \in LinesOf(c)
  <2>1. \A mm \in 1 .. n + 1 : \A nn \in mm - 1 .. n :
          /\ SubSeq(a, mm, nn) \in Seq(L)
          /\ LinesOf(SubSeq(a, mm, nn)) \subseteq LinesOf(a)
          /\ \A i \in mm .. nn : a[i] \in LinesOf(SubSeq(a, mm, nn))
    BY PartLines
  <2> QED  BY <1>2, <2>1
<1>4. LinesOf(a) = LinesOf(b) \cup LinesOf(c)
  <2>1. ASSUME NEW i \in 1 .. n  PROVE a[i] \in LinesOf(b) \cup LinesOf(c)
    <3>1. i \in 1 .. k - 1 \/ i \in k .. n
      BY <1>1
    <3> QED  BY <1>3, <3>1
  <2>2. LinesOf(a) \subseteq LinesOf(b) \cup LinesOf(c)
    BY <2>1 DEF LinesOf
  <2> QED  BY <1>3, <2>2
<1>5. <<x>> \in Seq(L) /\ LinesOf(<<x>>) = {x}
  BY DEF LinesOf
<1>6. InsertAt(a, k, x) = b \o <<x>> \o c
  BY DEF InsertAt
<1> HIDE DEF b, c, n
<1>7. b \o <<x>> \in Seq(L) /\ LinesOf(b \o <<x>>) = LinesOf(b) \cup {x}
  <2> DEFINE o == <<x>>
  <2>1. o \in Seq(L) /\ LinesOf(o) = {x}
    BY <1>5
  <2> HIDE DEF o
  <2>2. b \o o \in Seq(L) /\ LinesOf(b \o o) = LinesOf(b) \cup LinesOf(o)
    BY <1>3, <2>1, ConcatLines
  <2> QED  BY <2>1, <2>2 DEF o
<1>8. (b \o <<x>>) \o c \in Seq(L) /\ LinesOf((b \o <<x>>) \o c) = LinesOf(b \o <<x>>) \cup LinesOf(c)
  <2> DEFINE d == b \o <<x>>
  <2>1. d \in Seq(L)
    BY <1>7
  <2> HIDE DEF d
  <2>2. d \o c \in Seq(L) /\ LinesOf(d \o c) = LinesOf(d) \cup LinesOf(c)
    BY <1>3, <2>1, ConcatLines
  <2> QED  BY <2>2 DEF d
<1> QED  BY <1>4, <1>6, <1>7, <1>8

\* A text with a line less.
LEMMA DroppedLine ==
  ASSUME NEW L, NEW a \in Seq(L), NEW k \in 1 .. Len(a)
  PROVE  RemoveAt(a, k) \in Seq(L) /\ LinesOf(RemoveAt(a, k)) \subseteq LinesOf(a)
<1> DEFINE n == Len(a)
           b == SubSeq(a, 1, k - 1)
           c == SubSeq(a, k + 1, n)
<1>1. n \in Nat
  BY LenProperties
<1>2. 1 \in 1 .. n + 1 /\ k - 1 \in 1 - 1 .. n /\ k + 1 \in 1 .. n + 1 /\ n \in (k + 1) - 1 .. n
  BY <1>1
<1>3. b \in Seq(L) /\ LinesOf(b) \subseteq LinesOf(a) /\ c \in Seq(L) /\ LinesOf(c) \subseteq LinesOf(a)
  <2>1. \A mm \in 1 .. n + 1 : \A nn \in mm - 1 .. n :
          SubSeq(a, mm, nn) \in Seq(L) /\ LinesOf(SubSeq(a, mm, nn)) \subseteq LinesOf(a)
    BY PartLines
  <2> QED  BY <1>2, <2>1
<1>4. RemoveAt(a, k) = b \o c
  BY DEF RemoveAt
<1> HIDE DEF b, c, n
<1> QED  BY <1>3, <1>4, ConcatLines

\* A finite set as a text.
LEMMA SetLines ==
  ASSUME NEW S, IsFiniteSet(S)
  PROVE  SetToSeq(S) \in Seq(S) /\ LinesOf(SetToSeq(S)) = S
<1> DEFINE n == Cardinality(S)
           f == SetToSeq(S)
<1>1. n \in Nat
  BY FS_CardinalityType
<1>2. \E g \in [1 .. n -> S] : IsInjective(g)
  <2>1. PICK k \in Nat : ExistsBijection(1 .. k, S)
    BY FS_NatBijection
  <2>2. k = n
    BY <2>1, FS_CountingElements
  <2>3. PICK g : g \in Bijection(1 .. n, S)
    BY <2>1, <2>2 DEF ExistsBijection
  <2>4. g \in [1 .. n -> S] /\ \A i, j \in 1 .. n : g[i] = g[j] => i = j
    BY <2>3 DEF Bijection, Injection, IsInjective
  <2> QED  BY <2>4 DEF IsInjective
<1>3. f \in [1 .. n -> S] /\ IsInjective(f)
  BY <1>2 DEF SetToSeq
<1> HIDE DEF f
<1>4. f \in Injection(1 .. n, S)
  BY <1>3 DEF Injection, IsInjective
<1>5. Cardinality(1 .. n) = n
  BY <1>1, FS_Interval
<1>6. f \in Surjection(1 .. n, S)
  BY <1>4, <1>5, FS_Injection
<1>7. f \in Seq(S) /\ Len(f) = n
  BY <1>1, <1>3
<1>8. \A x \in S : \E i \in 1 .. n : f[i] = x
  BY <1>6 DEF Surjection
<1>9. LinesOf(f) = S
  BY <1>3, <1>7, <1>8 DEF LinesOf
<1> QED  BY <1>7, <1>9 DEF f

\* The database keeps the text of the installed release, or, in the transaction
\* of an operation, of the release of the operation.
Registered ==
  /\ installed = content
  /\ work.step \in {"updated", "unlinked", "renamed"} => work.content = work.release

\* The file, and the text that is to be renamed to it, hold the lines of the
\* administrator; between the two there is no file.
Replacing == work.step = "unlinked" /\ work.status # "failed"
OwnInv ==
  /\ Registered /\ IsFiniteSet(own)
  /\ live.text \in Seq(AllLines) /\ (live.there \/ live.text = <<>>)
  /\ ~raced => IF live.there THEN LinesOf(live.text) \cap OwnLines = own ELSE own = {} \/ Replacing
  /\ ~Idle /\ work.status # "failed" =>
       work.text \in Seq(AllLines) /\ (~raced => LinesOf(work.text) \cap OwnLines = own)

\* A vanilla text has no line of the administrator.
LEMMA VanillaLines ==
  ASSUME NEW r \in Releases
  PROVE  Vanilla[r] \in Seq(AllLines) /\ LinesOf(Vanilla[r]) \cap OwnLines = {}
<1>1. Vanilla[r] \in Seq(LinesOf(Vanilla[r])) /\ LinesOf(Vanilla[r]) \cap OwnLines = {}
  BY ConfigAssumption DEF IsText
<1>2. LinesOf(Vanilla[r]) \subseteq AllLines
  BY DEF AllLines
<1> DEFINE s == Vanilla[r]
           L == LinesOf(s)
<1> HIDE DEF s, L
<1>3. s \in Seq(L) /\ L \subseteq AllLines => s \in Seq(AllLines)
  OBVIOUS
<1> QED  BY <1>1, <1>2, <1>3 DEF s, L

\* A merge without a conflict has the lines of the administrator.
LEMMA MergedLines ==
  ASSUME NEW r \in Releases, NEW q \in Releases, NEW text \in Seq(AllLines),
         ~Merge3(Vanilla[q], text, Vanilla[r]).failed
  PROVE  /\ Merge3(Vanilla[q], text, Vanilla[r]).out \in Seq(AllLines)
         /\ LinesOf(Merge3(Vanilla[q], text, Vanilla[r]).out) \cap OwnLines = LinesOf(text) \cap OwnLines
<1> DEFINE o == Vanilla[q]
           y == Vanilla[r]
           out == Merge3(o, text, y).out
           L == AllLines
<1>1. o \in Seq(L) /\ y \in Seq(L) /\ LinesOf(o) \cap OwnLines = {} /\ LinesOf(y) \cap OwnLines = {}
  BY VanillaLines
<1>2. ~Merge3(o, text, y).failed /\ text \in Seq(L)
  OBVIOUS
<1> HIDE DEF o, y, L
<1>3. out \in Seq(L) /\ \A x : ~Has(o, x) /\ ~Has(y, x) => (Has(out, x) <=> Has(text, x))
  BY <1>1, <1>2, OwnLinesMerged
<1> HIDE DEF out
<1>4. \A t, x : Has(t, x) <=> x \in LinesOf(t)
  BY DEF Has, LinesOf
<1>5. \A x \in OwnLines : x \in LinesOf(out) <=> x \in LinesOf(text)
  BY <1>1, <1>3, <1>4
<1> QED  BY <1>3, <1>5 DEF out, o, y, L

\* The text that an operation begins with holds the lines of the administrator.
LEMMA OwnExtracted ==
  ASSUME ClientInv, OwnInv, NEW r \in Releases, Install(r) \/ \E automerge \in BOOLEAN : Upgrade(r, automerge)
  PROVE  OwnInv'
<1>1. Idle /\ installed = content /\ ConfigTypeOK
  BY DEF Install, Upgrade, OwnInv, Registered, ClientInv
<1>2. \E text, status : /\ Writes(r, text, status)
                        /\ status # "failed" => text \in Seq(AllLines) /\ (~raced => LinesOf(text) \cap OwnLines = own)
  <2>1. CASE Replace(r)
    <3>1. Vanilla[r] \in Seq(AllLines) /\ LinesOf(Vanilla[r]) \cap OwnLines = {}
      BY VanillaLines
    <3>2. ~raced => own = {}
      <4>1. CASE ~live.there
        BY <1>1, <4>1 DEF OwnInv, Replacing, Idle
      <4>2. CASE live.there
        <5>1. content \in Releases /\ live.text = Vanilla[content]
          BY <1>1, <2>1, <4>2 DEF Replace, Untouched, ConfigTypeOK
        <5>2. LinesOf(live.text) \cap OwnLines = {}
          BY <5>1, VanillaLines
        <5> QED  BY <4>2, <5>2 DEF OwnInv
      <4> QED  BY <4>1, <4>2
    <3>3. Writes(r, Vanilla[r], "none")
      BY <2>1 DEF Replace
    <3> QED  BY <3>1, <3>2, <3>3
  <2>2. CASE Beside(r)
    BY <2>2 DEF Beside
  <2>3. CASE Merge(r) /\ installed # 0
    <3>1. content \in Releases /\ live.there /\ live.text \in Seq(AllLines)
      BY <1>1, <2>3 DEF Merge, Untouched, ConfigTypeOK, OwnInv
    <3>2. CASE Writes(r, Vanilla[r], "failed")
      BY <3>2
    <3>3. CASE /\ ~Merge3(Vanilla[content], live.text, Vanilla[r]).failed
               /\ Writes(r, Merge3(Vanilla[content], live.text, Vanilla[r]).out, "merged")
      <4> DEFINE out == Merge3(Vanilla[content], live.text, Vanilla[r]).out
      <4>1. out \in Seq(AllLines) /\ LinesOf(out) \cap OwnLines = LinesOf(live.text) \cap OwnLines
        BY <3>1, <3>3, MergedLines
      <4>2. ~raced => LinesOf(live.text) \cap OwnLines = own
        BY <3>1 DEF OwnInv
      <4>3. Writes(r, out, "merged")
        BY <3>3
      <4> HIDE DEF out
      <4> QED  BY <4>1, <4>2, <4>3
    <3>4. \/ Writes(r, Vanilla[r], "failed")
          \/ /\ ~Merge3(Vanilla[content], live.text, Vanilla[r]).failed
             /\ Writes(r, Merge3(Vanilla[content], live.text, Vanilla[r]).out, "merged")
      BY <2>3 DEF Merge
    <3> QED  BY <3>2, <3>3, <3>4
  <2> QED  BY <2>1, <2>2, <2>3 DEF Install, Upgrade
<1>3. PICK text, status : /\ Writes(r, text, status)
                          /\ status # "failed" => text \in Seq(AllLines) /\ (~raced => LinesOf(text) \cap OwnLines = own)
  BY <1>2
<1>4. /\ work' = [step |-> "extracted", release |-> r, text |-> text, status |-> status, content |-> content]
      /\ UNCHANGED <<installed, content, live, own, raced>>
  BY <1>3 DEF Writes
<1>5. work'.step = "extracted" /\ work'.text = text /\ work'.status = status
  BY <1>4
<1>6. Registered'
  BY <1>1, <1>4, <1>5 DEF Registered
<1>7. ~raced /\ ~live.there => own = {}
  BY <1>1 DEF OwnInv, Replacing, Idle
<1>8. AllLines' = AllLines
  BY DEF AllLines, LinesOf
<1> QED  BY <1>3, <1>4, <1>5, <1>6, <1>7, <1>8 DEF OwnInv, LinesOf

\* What OwnInv says of the state after a step, when its parts are known.
LEMMA OwnNext ==
  ASSUME Registered', IsFiniteSet(own'), live'.text \in Seq(AllLines), live'.there \/ live'.text = <<>>,
         ~raced' => IF live'.there THEN LinesOf(live'.text) \cap OwnLines = own' ELSE own' = {} \/ Replacing',
         ~Idle' /\ work'.status # "failed" =>
           work'.text \in Seq(AllLines) /\ (~raced' => LinesOf(work'.text) \cap OwnLines = own')
  PROVE  OwnInv'
BY DEF OwnInv, AllLines, LinesOf

\* The other steps of the program.
LEMMA OwnProgrammed ==
  ASSUME ClientInv, OwnInv, ProgramStep
  PROVE  OwnInv'
<1>1. /\ Registered /\ IsFiniteSet(own) /\ live.text \in Seq(AllLines) /\ (live.there \/ live.text = <<>>)
      /\ ~raced => IF live.there THEN LinesOf(live.text) \cap OwnLines = own ELSE own = {} \/ Replacing
      /\ ~Idle /\ work.status # "failed" =>
           work.text \in Seq(AllLines) /\ (~raced => LinesOf(work.text) \cap OwnLines = own)
      /\ work = [step |-> work.step, release |-> work.release, text |-> work.text,
                 status |-> work.status, content |-> work.content]
  BY DEF OwnInv, ClientInv, Operated
<1>2. <<>> \in Seq(AllLines) /\ IsFiniteSet({})
  BY EmptySeq, FS_EmptySet
<1>3. CASE UpdateContent
  <2>1. /\ work.step = "extracted" /\ work'.step = "updated" /\ work'.text = work.text
        /\ work'.status = work.status /\ work'.content = work.release /\ work'.release = work.release
        /\ UNCHANGED <<installed, content, live, own, raced>>
    BY <1>1, <1>3 DEF UpdateContent
  <2>2. Registered'
    BY <1>1, <2>1 DEF Registered
  <2>3. ~raced' => IF live'.there THEN LinesOf(live'.text) \cap OwnLines = own' ELSE own' = {} \/ Replacing'
    BY <1>1, <2>1 DEF Replacing
  <2> QED  BY <1>1, <2>1, <2>2, <2>3, OwnNext DEF Idle
<1>4. ASSUME NEW step \in {"unlinked", "renamed"}, work' = [work EXCEPT !.step = step]
      PROVE  /\ work'.step = step /\ work'.release = work.release /\ work'.text = work.text
             /\ work'.status = work.status /\ work'.content = work.content
  BY <1>1, <1>4
<1>5. CASE Unlink
  <2>1. /\ work.step = "updated" /\ work' = [work EXCEPT !.step = "unlinked"]
        /\ live' = (IF work.status = "failed" THEN live ELSE None)
        /\ UNCHANGED <<installed, content, own, raced>>
    BY <1>5 DEF Unlink
  <2>2. /\ work'.step = "unlinked" /\ work'.release = work.release /\ work'.text = work.text
        /\ work'.status = work.status /\ work'.content = work.content
    BY <1>4, <2>1
  <2>3. Registered'
    BY <1>1, <2>1, <2>2 DEF Registered
  <2>4. live'.text \in Seq(AllLines) /\ (live'.there \/ live'.text = <<>>)
    BY <1>1, <1>2, <2>1 DEF None
  <2>5. ~raced' => IF live'.there THEN LinesOf(live'.text) \cap OwnLines = own' ELSE own' = {} \/ Replacing'
    BY <1>1, <2>1, <2>2 DEF Replacing, None
  <2> QED  BY <1>1, <2>1, <2>2, <2>3, <2>4, <2>5, OwnNext DEF Idle
<1>6. CASE Rename
  <2>1. /\ work.step = "unlinked" /\ work' = [work EXCEPT !.step = "renamed"]
        /\ live' = (IF work.status = "failed" THEN live ELSE Text(work.text))
        /\ UNCHANGED <<installed, content, own, raced>>
    BY <1>6 DEF Rename
  <2>2. /\ work'.step = "renamed" /\ work'.release = work.release /\ work'.text = work.text
        /\ work'.status = work.status /\ work'.content = work.content
    BY <1>4, <2>1
  <2>3. Registered'
    BY <1>1, <2>1, <2>2 DEF Registered
  <2>4. live'.text \in Seq(AllLines) /\ (live'.there \/ live'.text = <<>>)
    BY <1>1, <2>1 DEF Text, Idle
  <2>5. ~raced' => IF live'.there THEN LinesOf(live'.text) \cap OwnLines = own' ELSE own' = {} \/ Replacing'
    BY <1>1, <2>1, <2>2 DEF Replacing, Text, Idle
  <2> QED  BY <1>1, <2>1, <2>2, <2>3, <2>4, <2>5, OwnNext DEF Idle
<1>7. CASE Commit
  <2>1. /\ work.step = "renamed" /\ work' = NoWork /\ installed' = work.release /\ content' = work.content
        /\ UNCHANGED <<live, own, raced>>
    BY <1>7 DEF Commit
  <2>2. work'.step = "none"
    BY <2>1 DEF NoWork
  <2>3. Registered'
    BY <1>1, <2>1, <2>2 DEF Registered
  <2>4. ~raced' => IF live'.there THEN LinesOf(live'.text) \cap OwnLines = own' ELSE own' = {} \/ Replacing'
    BY <1>1, <2>1 DEF Replacing
  <2> QED  BY <1>1, <2>1, <2>2, <2>3, <2>4, OwnNext DEF Idle
<1>8. CASE Delete
  <2>1. Idle /\ installed' = 0 /\ content' = 0 /\ live' = None /\ own' = {} /\ UNCHANGED work
    BY <1>8 DEF Delete
  <2>2. Registered'
    BY <1>1, <2>1 DEF Registered
  <2>3. ~live'.there /\ live'.text = <<>>
    BY <2>1 DEF None
  <2> QED  BY <1>2, <2>1, <2>2, <2>3, OwnNext DEF Idle
<1>9. CASE Dies
  <2>1. /\ work' = NoWork /\ UNCHANGED <<installed, content, live, raced>>
        /\ own' = (IF live.there THEN own ELSE {})
    BY <1>9 DEF Dies, Gone
  <2>2. work'.step = "none"
    BY <2>1 DEF NoWork
  <2>3. Registered'
    BY <1>1, <2>1, <2>2 DEF Registered
  <2>4. IsFiniteSet(own')
    BY <1>1, <1>2, <2>1
  <2>5. ~raced' => IF live'.there THEN LinesOf(live'.text) \cap OwnLines = own' ELSE own' = {} \/ Replacing'
    BY <1>1, <2>1
  <2> QED  BY <1>1, <2>1, <2>2, <2>3, <2>4, <2>5, OwnNext DEF Idle
<1> QED  BY <1>3, <1>5, <1>6, <1>7, <1>8, <1>9 DEF ProgramStep

\* The steps of the administrator.
LEMMA OwnAdministered ==
  ASSUME ClientInv, OwnInv, AdminStep
  PROVE  OwnInv'
<1>1. /\ Registered /\ IsFiniteSet(own) /\ live.text \in Seq(AllLines) /\ (live.there \/ live.text = <<>>)
      /\ ~raced => IF live.there THEN LinesOf(live.text) \cap OwnLines = own ELSE own = {} \/ Replacing
      /\ ~Idle /\ work.status # "failed" => work.text \in Seq(AllLines)
      /\ ~Idle /\ work.status # "failed" /\ ~raced => LinesOf(work.text) \cap OwnLines = own
      /\ own \subseteq OwnLines
  BY DEF OwnInv, ClientInv, ConfigTypeOK
<1>2. OwnLines \subseteq AllLines
  BY DEF AllLines
<1>3. <<>> \in Seq(AllLines) /\ LinesOf(<<>>) = {}
  BY EmptySeq DEF LinesOf
<1>4. CASE Edit
  <2>1. /\ UNCHANGED <<installed, content, work>> /\ raced' = (raced \/ ~Idle)
    BY <1>4 DEF Edit, Edits
  <2>2. Registered' /\ (Idle' <=> Idle)
    BY <1>1, <2>1 DEF Registered, Idle
  <2>3. ASSUME IsFiniteSet(own'), live'.text \in Seq(AllLines), live'.there \/ live'.text = <<>>,
               ~raced /\ Idle => IF live'.there THEN LinesOf(live'.text) \cap OwnLines = own' ELSE own' = {}
        PROVE  OwnInv'
    BY <1>1, <2>1, <2>2, <2>3, OwnNext
  <2>4. ASSUME NEW x \in OwnLines, NEW k \in 1 .. Len(live.text) + 1, AddLine(x, k)  PROVE OwnInv'
    <3> DEFINE t == InsertAt(live.text, k, x)
    <3>1. live' = Text(t) /\ own' = own \cup {x}
      BY <2>4 DEF AddLine
    <3>2. t \in Seq(AllLines) /\ LinesOf(t) = LinesOf(live.text) \cup {x}
      BY <1>1, <1>2, AddedLine
    <3> HIDE DEF t
    <3>3. ~raced /\ Idle => LinesOf(live.text) \cap OwnLines = own
      BY <1>1, <1>3 DEF Replacing, Idle
    <3>4. IsFiniteSet(own')
      BY <1>1, <3>1, FS_AddElement
    <3>5. live'.there /\ live'.text = t
      BY <3>1 DEF Text
    <3>6. ~raced /\ Idle => LinesOf(t) \cap OwnLines = own'
      BY <3>1, <3>2, <3>3
    <3> QED  BY <2>3, <3>2, <3>4, <3>5, <3>6
  <2>5. ASSUME live.there, NEW k \in 1 .. Len(live.text), DropLine(k)  PROVE OwnInv'
    <3> DEFINE t == RemoveAt(live.text, k)
    <3>1. live' = Text(t) /\ own' = own \cap LinesOf(live'.text)
      BY <2>5 DEF DropLine
    <3>2. t \in Seq(AllLines) /\ LinesOf(t) \subseteq LinesOf(live.text)
      BY <1>1, DroppedLine
    <3> HIDE DEF t
    <3>3. live'.there /\ live'.text = t
      BY <3>1 DEF Text
    <3>4. IsFiniteSet(own')
      BY <1>1, <3>1, FS_Subset
    <3>5. ~raced /\ Idle => LinesOf(t) \cap OwnLines = own'
      BY <1>1, <2>5, <3>1, <3>2, <3>3
    <3> QED  BY <2>3, <3>2, <3>3, <3>4, <3>5
  <2>6. CASE DropFile
    <3>1. ~live'.there /\ live'.text = <<>> /\ own' = {}
      BY <2>6 DEF DropFile, Gone, None
    <3> QED  BY <1>3, <2>3, <3>1, FS_EmptySet
  <2> QED  BY <1>4, <2>4, <2>5, <2>6 DEF Edit
<1>5. CASE Resolve
  <2> DEFINE s == SetToSeq(own)
             t == pkgnew.text \o s
  <2>1. Idle /\ live' = Text(t) /\ UNCHANGED <<installed, content, work, own>>
    BY <1>5 DEF Resolve
  <2>2. s \in Seq(own) /\ LinesOf(s) = own
    BY <1>1, SetLines
  <2>3. pkgnew.text \in Seq(AllLines) /\ LinesOf(pkgnew.text) \cap OwnLines = {}
    <3>1. PICK r \in Releases : pkgnew.text = Vanilla[r]
      BY <1>5 DEF Resolve, ClientInv, Operated, Original
    <3> QED  BY <3>1, VanillaLines
  <2>4. s \in Seq(AllLines)
    <3> HIDE DEF s
    <3> QED  BY <1>1, <1>2, <2>2
  <2>5. t \in Seq(AllLines) /\ LinesOf(t) = LinesOf(pkgnew.text) \cup own
    <3> DEFINE q == pkgnew.text
    <3> HIDE DEF s, q
    <3>1. q \o s \in Seq(AllLines) /\ LinesOf(q \o s) = LinesOf(q) \cup LinesOf(s)
      BY <2>3, <2>4, ConcatLines DEF q
    <3> QED  BY <2>2, <3>1 DEF q
  <2> HIDE DEF t, s
  <2>6. live'.there /\ live'.text = t
    BY <2>1 DEF Text
  <2>7. LinesOf(t) \cap OwnLines = own
    BY <1>1, <2>3, <2>5
  <2>8. Registered'
    BY <1>1, <2>1 DEF Registered
  <2>9. ~Idle' => FALSE
    BY <2>1 DEF Idle
  <2> QED  BY <1>1, <2>1, <2>5, <2>6, <2>7, <2>8, <2>9, OwnNext
<1> QED  BY <1>4, <1>5 DEF AdminStep

\* The client begins with no file.
LEMMA OwnBegins == Init => OwnInv
<1> SUFFICES ASSUME Init PROVE OwnInv
  OBVIOUS
<1>1. installed = 0 /\ content = 0 /\ live = None /\ work = NoWork /\ own = {}
  BY DEF Init, ConfigInit
<1>2. work.step = "none" /\ ~live.there /\ live.text = <<>>
  BY <1>1 DEF NoWork, None
<1>3. <<>> \in Seq(AllLines) /\ IsFiniteSet({})
  BY EmptySeq, FS_EmptySet
<1>4. Registered
  BY <1>1, <1>2 DEF Registered
<1> QED  BY <1>1, <1>2, <1>3, <1>4 DEF OwnInv, Idle

\* Every step keeps the lines of the administrator.
LEMMA OwnKeeps == ClientInv /\ OwnInv /\ [Next]_vars => OwnInv'
<1> SUFFICES ASSUME ClientInv, OwnInv, [Next]_vars PROVE OwnInv'
  OBVIOUS
<1>1. ASSUME UNCHANGED config  PROVE OwnInv'
  BY <1>1 DEF config, OwnInv, Registered, Replacing, Idle, AllLines, LinesOf
<1>2. CASE Make \/ Hand \/ Update \/ UNCHANGED vars
  <2>1. UNCHANGED config
    BY <1>2 DEF Make, Record, Hand, Update, vars
  <2> QED  BY <1>1, <2>1
<1>3. CASE Use
  <2>1. published[seen] \in Releases
    BY DEF ClientInv
  <2> QED  BY <1>3, <2>1, OwnExtracted, OwnProgrammed, OwnAdministered DEF Use
<1> QED  BY <1>2, <1>3 DEF Next

\* The lines the administrator writes into a configuration file stay in it, and
\* no other line is taken for his (pkg_add.c attempt_to_merge, merge3.c): for any
\* vanilla texts, whatever releases are offered, merged or left beside the file,
\* and wherever an upgrade dies.
THEOREM OwnLinesStay == Spec => []OwnLinesKept
<1>1. Init => MakersInv /\ ClientInv /\ OwnInv
  BY MakersBegin, ClientBegins, OwnBegins DEF Init
<1>2. MakersInv /\ ClientInv /\ OwnInv /\ [Next]_vars => MakersInv' /\ ClientInv' /\ OwnInv'
  BY MakersKeep, ClientKeeps, OwnKeeps
<1>3. OwnInv => OwnLinesKept
  BY DEF OwnInv, OwnLinesKept
<1> QED  BY <1>1, <1>2, <1>3, PTL DEF Spec

\* For any three texts of a probe the edits that diff.c finds lead from the one
\* text to the other, and what merge3.c makes of them has the insertions of both
\* sides and the deletions of both, without a conflict where only one side changed
\* or both made the same text.
THEOREM ReleaseMerges == Spec => []MergeFaithful
<1> DEFINE Probed == phase = "probe" => probe \in Probes
<1>1. Init => Probed
  BY DEF Init
<1>2. Probed /\ [Next]_vars => Probed'
  BY DEF Next, Make, Record, Hand, Update, Use, vars
<1>3. Probed => MergeFaithful
  <2> SUFFICES ASSUME probe \in Probes, probe[1] = "texts"
               PROVE  MergedRight(probe[2], probe[3], probe[4])
    BY DEF MergeFaithful
  <2> DEFINE o == probe[2]
             m == probe[3]
             y == probe[4]
             L == LinesOf(o) \cup LinesOf(m) \cup LinesOf(y)
  <2>1. IsText(o) /\ IsText(m) /\ IsText(y)
    BY ReleaseAssumption
  <2> HIDE DEF o, m, y
  <2>2. o \in Seq(LinesOf(o)) /\ m \in Seq(LinesOf(m)) /\ y \in Seq(LinesOf(y))
    BY <2>1 DEF IsText
  <2>3. LinesOf(o) \subseteq L /\ LinesOf(m) \subseteq L /\ LinesOf(y) \subseteq L
    OBVIOUS
  <2>4. \A A, B : A \subseteq B => Seq(A) \subseteq Seq(B)
    OBVIOUS
  <2> HIDE DEF L
  <2>5. o \in Seq(L) /\ m \in Seq(L) /\ y \in Seq(L)
    BY <2>2, <2>3, <2>4
  <2>6. MergedRight(o, m, y)
    BY <2>5, MergeOfAnyTexts
  <2> QED  BY <2>6 DEF o, m, y
<1> HIDE DEF Probed
<1> QED  BY <1>1, <1>2, <1>3, PTL DEF Spec

-----------------------------------------------------------------------------
(* The order of versions.  The loop of pkg_version_cmp stands, in either   *)
(* body, behind the first m components of block q (StandsAt).  Where the   *)
(* next component ends the one after it begins (NextBegins), so it sees    *)
(* the components that the comment lists, and the first that differs       *)
(* decides (Verdict).                                                      *)

\* The first position of one of these kinds, and none of them before it.
FoundAt(f, body, i, kinds) ==
  /\ f \in i .. Len(body) + 1 /\ (f <= Len(body) => body[f].kind \in kinds)
  /\ \A j \in i .. f - 1 : j \in 1 .. Len(body) /\ body[j].kind \notin kinds

\* What Find returns.
LEMMA FindFacts ==
  ASSUME NEW body, Len(body) \in Nat, NEW i \in 1 .. Len(body) + 1, NEW kinds
  PROVE  FoundAt(Find(body, i, kinds), body, i, kinds)
<1> DEFINE n == Len(body)
           S == {j \in i .. n + 1 : j = n + 1 \/ body[j].kind \in kinds}
<1>1. n + 1 \in S /\ S \in SUBSET Nat
  OBVIOUS
<1>2. Find(body, i, kinds) = Min(S)
  BY DEF Find
<1>3. Min(S) \in S /\ \A y \in S : Min(S) <= y
  <2> HIDE DEF S
  <2> QED  BY <1>1, MinOf
<1> DEFINE f == Min(S)
<1>4. f \in i .. n + 1 /\ (f = n + 1 \/ body[f].kind \in kinds)
  <2>1. f \in S
    BY <1>3
  <2> HIDE DEF f
  <2> QED  BY <2>1
<1>5. ASSUME NEW j \in i .. f - 1  PROVE j \in 1 .. n /\ body[j].kind \notin kinds
  <2> HIDE DEF f
  <2>1. j \in i .. n + 1 /\ j < f /\ j \in 1 .. n
    BY <1>4
  <2>2. j \notin S
    <3>1. \A y \in S : f <= y
      BY <1>3 DEF f
    <3> HIDE DEF S
    <3> QED  BY <1>4, <2>1, <3>1
  <2> QED  BY <2>1, <2>2
<1> HIDE DEF f
<1> QED  BY <1>2, <1>4, <1>5 DEF FoundAt, f

Kinds == {"number", "letters", "+", "*"}
Body(b) == Len(b) \in Nat

\* The value of letters, and the patch level behind them.
LetterAt(body, l) == IF Special(body[l]) THEN Stage[body[l].run] ELSE body[l].n
PatchAt(body, l) == IF KindAt(body, l + 1) = "number" THEN body[l + 1].n ELSE -1
AfterPatch(body, l) == IF KindAt(body, l + 1) = "number" THEN l + 2 ELSE l + 1
Own(body, i) == KindAt(body, i + 1) = "letters" /\ ~Special(body[i + 1])

\* The component at a number without letters of its own, ...
LEMMA NumberPart ==
  ASSUME NEW b, Body(b), NEW i \in 1 .. Len(b), b[i].kind = "number", ~Own(b, i)
  PROVE  GetComponent(b, i) = [key |-> <<b[i].n, 0, 0>>, next |-> Find(b, i + 1, Kinds)]
<1>1. KindAt(b, i) = "number" /\ i + 1 \in 1 .. Len(b) + 1
  BY DEF KindAt, Body
<1>2. KindAt(b, i + 1) = "letters" => Special(b[i + 1])
  BY DEF Own
<1> QED  BY <1>1, <1>2 DEF GetComponent, Kinds

\* ... with letters, ...
LEMMA LetterPart ==
  ASSUME NEW b, Body(b), NEW i \in 1 .. Len(b), b[i].kind = "number", Own(b, i)
  PROVE  GetComponent(b, i) = [key |-> <<b[i].n, LetterAt(b, i + 1), PatchAt(b, i + 1)>>,
                               next |-> Find(b, AfterPatch(b, i + 1), Kinds)]
<1>1. KindAt(b, i) = "number" /\ KindAt(b, i + 1) = "letters" /\ b[i + 1].kind = "letters"
  BY DEF KindAt, Body, Own
<1>2. ~(b[i + 1].run \in DOMAIN Stage) /\ ~Special(b[i + 1])
  BY <1>1 DEF Own, Special
<1>3. (i + 1) + 2 = (i + 1) + 1 + 1
  OBVIOUS
<1> QED  BY <1>1, <1>2, <1>3 DEF GetComponent, Kinds, LetterAt, PatchAt, AfterPatch

\* ... at letters, ...
LEMMA LettersPart ==
  ASSUME NEW b, Body(b), NEW i \in 1 .. Len(b), b[i].kind = "letters"
  PROVE  GetComponent(b, i) = [key |-> <<-1, LetterAt(b, i), PatchAt(b, i)>>,
                               next |-> Find(b, AfterPatch(b, i), Kinds)]
<1>1. KindAt(b, i) = "letters"
  BY DEF KindAt, Body
<1>2. b[i].run \in DOMAIN Stage <=> Special(b[i])
  BY DEF Special
<1>3. i + 2 = i + 1 + 1
  OBVIOUS
<1> QED  BY <1>1, <1>2, <1>3 DEF GetComponent, Kinds, LetterAt, PatchAt, AfterPatch

\* ... at "*", which takes the rest of its block, ...
LEMMA StarPart ==
  ASSUME NEW b, Body(b), NEW i \in 1 .. Len(b), b[i].kind = "*"
  PROVE  GetComponent(b, i) = [key |-> <<-2, 0, 0>>, next |-> Find(b, i, {"+"})]
<1> DEFINE f == Find(b, i, {"+"})
<1>1. KindAt(b, i) = "*"
  BY DEF KindAt, Body
<1>2. FoundAt(f, b, i, {"+"}) /\ i \in Nat /\ Len(b) \in Nat
  BY FindFacts DEF Body
<1> HIDE DEF f
<1>3. f \in 1 .. Len(b) + 1 /\ KindAt(b, f) \in {"+", "end"} /\ (f <= Len(b) => b[f].kind = "+")
  BY <1>2 DEF FoundAt, KindAt
<1>4. Find(b, f, Kinds) = f
  <2> DEFINE g == Find(b, f, Kinds)
  <2>1. FoundAt(g, b, f, Kinds)
    BY <1>2, <1>3, FindFacts
  <2> HIDE DEF g
  <2>2. g # f => f \in f .. g - 1
    BY <1>2, <1>3, <2>1 DEF FoundAt
  <2>3. g = f
    BY <1>2, <1>3, <2>1, <2>2 DEF FoundAt, Kinds
  <2> QED  BY <2>3 DEF g
<1> QED  BY <1>1, <1>3, <1>4 DEF GetComponent, Kinds, f

\* ... and at a separator.
LEMMA OtherPart ==
  ASSUME NEW b, Body(b), NEW i \in 1 .. Len(b), b[i].kind \notin Kinds
  PROVE  GetComponent(b, i) = [key |-> <<-1, 0, 0>>, next |-> Find(b, i, Kinds)]
<1>1. KindAt(b, i) = b[i].kind
  BY DEF KindAt, Body
<1>2. KindAt(b, i) # "number" /\ KindAt(b, i) # "*" /\ KindAt(b, i) # "letters"
  BY <1>1 DEF Kinds
<1> QED  BY <1>2 DEF GetComponent, Kinds

\* The key of a component is what the comment says.
LEMMA KeyIs ==
  ASSUME NEW b, Body(b), NEW i \in 1 .. Len(b), b[i].kind # "+"
  PROVE  GetComponent(b, i).key = KeyOf(b, i)
<1>1. CASE b[i].kind = "number" /\ ~Own(b, i)
  <2>1. GetComponent(b, i).key = <<b[i].n, 0, 0>>
    BY <1>1, NumberPart
  <2>2. KeyOf(b, i) = <<b[i].n, 0, 0>>
    BY <1>1 DEF KeyOf, Own
  <2> QED  BY <2>1, <2>2
<1>2. CASE b[i].kind = "number" /\ Own(b, i)
  <2>1. GetComponent(b, i).key = <<b[i].n, LetterAt(b, i + 1), PatchAt(b, i + 1)>>
    BY <1>2, LetterPart
  <2>2. KeyOf(b, i) = <<b[i].n, LetterAt(b, i + 1), PatchAt(b, i + 1)>>
    BY <1>2 DEF KeyOf, Own, LetterAt, PatchAt
  <2> QED  BY <2>1, <2>2
<1>3. CASE b[i].kind = "letters"
  <2>1. GetComponent(b, i).key = <<-1, LetterAt(b, i), PatchAt(b, i)>>
    BY <1>3, LettersPart
  <2>2. KindAt(b, i) = "letters"
    BY <1>3 DEF KindAt, Body
  <2>3. KeyOf(b, i) = <<-1, LetterAt(b, i), PatchAt(b, i)>>
    BY <1>3, <2>2 DEF KeyOf, LetterAt, PatchAt
  <2> QED  BY <2>1, <2>3
<1>4. CASE b[i].kind = "*"
  <2>1. GetComponent(b, i).key = <<-2, 0, 0>>
    BY <1>4, StarPart
  <2>2. KindAt(b, i) = "*"
    BY <1>4 DEF KindAt, Body
  <2> QED  BY <1>4, <2>1, <2>2 DEF KeyOf
<1>5. CASE b[i].kind \notin Kinds
  <2>1. GetComponent(b, i).key = <<-1, 0, 0>>
    BY <1>5, OtherPart
  <2>2. KindAt(b, i) # "letters" /\ b[i].kind # "number" /\ b[i].kind # "*"
    BY <1>5 DEF KindAt, Body, Kinds
  <2> QED  BY <2>1, <2>2 DEF KeyOf
<1> QED  BY <1>1, <1>2, <1>3, <1>4, <1>5 DEF Kinds

\* From a component to the next place there is no "+".
Onto(b, i, x) == x \in i + 1 .. Len(b) + 1 /\ \A j \in i + 1 .. x - 1 : j \in 1 .. Len(b) /\ b[j].kind # "+"

\* The end of a component, before separators are passed over.
Behind(b, i, y) ==
  /\ y \in i .. Len(b) + 1 /\ (y = i => b[i].kind \notin Kinds)
  /\ \A j \in i + 1 .. y - 1 : j \in 1 .. Len(b) /\ b[j].kind \in {"number", "letters"}

\* A place found from behind a component is one that it leads onto.
LEMMA OntoFrom ==
  ASSUME NEW b, Body(b), NEW i \in 1 .. Len(b), NEW y, Behind(b, i, y)
  PROVE  Onto(b, i, Find(b, y, Kinds))
<1> DEFINE x == Find(b, y, Kinds)
<1>1. Len(b) \in Nat /\ y \in 1 .. Len(b) + 1 /\ i <= y
  BY DEF Body, Behind
<1>2. FoundAt(x, b, y, Kinds)
  BY <1>1, FindFacts DEF Body
<1> HIDE DEF x
<1>3. x \in y .. Len(b) + 1 /\ \A j \in y .. x - 1 : j \in 1 .. Len(b) /\ b[j].kind \notin Kinds
  BY <1>2 DEF FoundAt
<1>4. x # i
  <2> SUFFICES ASSUME x = i  PROVE FALSE
    OBVIOUS
  <2>1. y = i /\ x <= Len(b)
    BY <1>1, <1>3
  <2>2. b[i].kind \in Kinds
    BY <1>2, <2>1 DEF FoundAt
  <2> QED  BY <2>1, <2>2 DEF Behind
<1>5. ASSUME NEW j \in i + 1 .. x - 1  PROVE j \in 1 .. Len(b) /\ b[j].kind # "+"
  <2>1. CASE j < y
    <3>1. j \in i + 1 .. y - 1
      BY <1>1, <2>1
    <3> QED  BY <3>1 DEF Behind
  <2>2. CASE j >= y
    <3>1. j \in y .. x - 1
      BY <1>1, <1>3, <2>2
    <3> QED  BY <1>3, <3>1 DEF Kinds
  <2> QED  BY <1>1, <1>3, <2>1, <2>2
<1> QED  BY <1>1, <1>3, <1>4, <1>5 DEF Onto, x

\* The next component begins at the first place that can begin one.
EndOf(b, i) ==
  IF b[i].kind = "number" THEN IF Own(b, i) THEN AfterPatch(b, i + 1) ELSE i + 1
  ELSE IF b[i].kind = "letters" THEN AfterPatch(b, i) ELSE i

\* From the end of a component the next place is sought; after "*" it is not.
LEMMA NextIs ==
  ASSUME NEW b, Body(b), NEW i \in 1 .. Len(b), b[i].kind # "+", b[i].kind # "*"
  PROVE  GetComponent(b, i).next = Find(b, EndOf(b, i), Kinds) /\ Behind(b, i, EndOf(b, i))
<1>1. Len(b) \in Nat /\ \A j : KindAt(b, j) = "letters" \/ KindAt(b, j) = "number" => j \in 1 .. Len(b)
  BY DEF Body, KindAt
<1>2. \A j \in 1 .. Len(b) : KindAt(b, j) = b[j].kind
  BY DEF KindAt
<1>3. CASE b[i].kind = "number" /\ ~Own(b, i)
  <2>1. EndOf(b, i) = i + 1
    BY <1>3 DEF EndOf
  <2>2. Behind(b, i, i + 1)
    BY <1>1 DEF Behind
  <2> QED  BY <1>3, <2>1, <2>2, NumberPart
<1>4. CASE b[i].kind = "number" /\ Own(b, i)
  <2>1. EndOf(b, i) = AfterPatch(b, i + 1)
    BY <1>4 DEF EndOf
  <2>2. i + 1 \in 1 .. Len(b) /\ b[i + 1].kind = "letters"
    BY <1>1, <1>2, <1>4 DEF Own
  <2>3. CASE KindAt(b, (i + 1) + 1) = "number"
    <3>1. AfterPatch(b, i + 1) = i + 3 /\ (i + 1) + 1 = i + 2 /\ i + 2 \in 1 .. Len(b) /\ b[i + 2].kind = "number"
      BY <1>1, <1>2, <2>3 DEF AfterPatch
    <3>2. Behind(b, i, i + 3)
      <4>1. \A j \in i + 1 .. (i + 3) - 1 : j = i + 1 \/ j = i + 2
        OBVIOUS
      <4>2. i + 3 \in i .. Len(b) + 1 /\ i + 3 # i
        BY <1>1, <3>1
      <4> QED  BY <2>2, <3>1, <4>1, <4>2 DEF Behind
    <3> QED  BY <1>4, <2>1, <3>1, <3>2, LetterPart
  <2>4. CASE KindAt(b, (i + 1) + 1) # "number"
    <3>1. AfterPatch(b, i + 1) = i + 2
      BY <2>4 DEF AfterPatch
    <3>2. Behind(b, i, i + 2)
      BY <1>1, <2>2 DEF Behind
    <3> QED  BY <1>4, <2>1, <3>1, <3>2, LetterPart
  <2> QED  BY <2>3, <2>4
<1>5. CASE b[i].kind = "letters"
  <2>1. EndOf(b, i) = AfterPatch(b, i)
    BY <1>5 DEF EndOf
  <2>2. CASE KindAt(b, i + 1) = "number"
    <3>1. AfterPatch(b, i) = i + 2 /\ i + 1 \in 1 .. Len(b) /\ b[i + 1].kind = "number"
      BY <1>1, <1>2, <2>2 DEF AfterPatch
    <3>2. Behind(b, i, i + 2)
      BY <1>1, <3>1 DEF Behind
    <3> QED  BY <1>5, <2>1, <3>1, <3>2, LettersPart
  <2>3. CASE KindAt(b, i + 1) # "number"
    <3>1. AfterPatch(b, i) = i + 1
      BY <2>3 DEF AfterPatch
    <3>2. Behind(b, i, i + 1)
      BY <1>1 DEF Behind
    <3> QED  BY <1>5, <2>1, <3>1, <3>2, LettersPart
  <2> QED  BY <2>2, <2>3
<1>6. CASE b[i].kind \notin Kinds
  <2>1. EndOf(b, i) = i
    BY <1>6 DEF EndOf, Kinds
  <2>2. Behind(b, i, i)
    BY <1>1, <1>6 DEF Behind
  <2> QED  BY <1>6, <2>1, <2>2, OtherPart
<1> QED  BY <1>3, <1>4, <1>5, <1>6 DEF Kinds

\* In any case there is no "+" on the way to the next place.
LEMMA NextOnto ==
  ASSUME NEW b, Body(b), NEW i \in 1 .. Len(b), b[i].kind # "+"
  PROVE  Onto(b, i, GetComponent(b, i).next)
<1>1. CASE b[i].kind = "*"
  <2> DEFINE x == Find(b, i, {"+"})
  <2>1. GetComponent(b, i).next = x
    BY <1>1, StarPart
  <2>2. FoundAt(x, b, i, {"+"}) /\ Len(b) \in Nat
    BY FindFacts DEF Body
  <2> HIDE DEF x
  <2>3. x # i
    BY <1>1, <2>2 DEF FoundAt
  <2>4. Onto(b, i, x)
    BY <2>2, <2>3 DEF FoundAt, Onto
  <2> QED  BY <2>1, <2>4
<1>2. CASE b[i].kind # "*"
  BY <1>2, NextIs, OntoFrom
<1> QED  BY <1>1, <1>2

\* The places inside a component begin none, and the place behind it may.
LEMMA EndFacts ==
  ASSUME NEW b, Body(b), NEW i \in 1 .. Len(b), b[i].kind # "+", b[i].kind # "*", Opens(b, i)
  PROVE  /\ \A j \in i + 1 .. EndOf(b, i) - 1 : ~Opens(b, j)
         /\ \A y \in {EndOf(b, i)} :
              y > i /\ y <= Len(b) /\ b[y].kind \in {"number", "letters"} => Opens(b, y)
<1>1. Len(b) \in Nat /\ \A j : KindAt(b, j) = "letters" \/ KindAt(b, j) = "number" => j \in 1 .. Len(b)
  BY DEF Body, KindAt
<1>2. \A j \in 1 .. Len(b) : KindAt(b, j) = b[j].kind
  BY DEF KindAt
<1>3. \A j \in 1 .. Len(b) : b[j].kind = "number" => (Opens(b, j) <=> KindAt(b, j - 1) # "letters")
  BY DEF Opens
<1>4. \A j \in 1 .. Len(b) : b[j].kind = "letters" =>
        (Opens(b, j) <=> Special(b[j]) \/ ~(KindAt(b, j - 1) = "number" /\ KindAt(b, j - 2) # "letters"))
  BY DEF Opens
<1>5. CASE b[i].kind = "number" /\ ~Own(b, i)
  <2>1. EndOf(b, i) = i + 1
    BY <1>5 DEF EndOf
  <2>2. ASSUME i + 1 <= Len(b), b[i + 1].kind \in {"number", "letters"}  PROVE Opens(b, i + 1)
    <3>1. i + 1 \in 1 .. Len(b) /\ (i + 1) - 1 = i /\ KindAt(b, i) = "number" /\ KindAt(b, i + 1) = b[i + 1].kind
      BY <1>1, <1>2, <1>5, <2>2
    <3> QED  BY <1>3, <1>4, <1>5, <2>2, <3>1 DEF Own
  <2> QED  BY <2>1, <2>2
<1>6. CASE b[i].kind = "number" /\ Own(b, i)
  <2>1. EndOf(b, i) = AfterPatch(b, i + 1)
    BY <1>6 DEF EndOf
  <2>2. i + 1 \in 1 .. Len(b) /\ b[i + 1].kind = "letters" /\ ~Special(b[i + 1])
    BY <1>1, <1>2, <1>6 DEF Own
  <2>3. ~Opens(b, i + 1)
    <3>1. (i + 1) - 1 = i /\ (i + 1) - 2 = i - 1 /\ KindAt(b, i) = "number"
      BY <1>2, <1>6
    <3>2. KindAt(b, i - 1) # "letters"
      BY <1>3, <1>6
    <3> QED  BY <1>4, <2>2, <3>1, <3>2
  <2>4. CASE KindAt(b, (i + 1) + 1) = "number"
    <3>1. AfterPatch(b, i + 1) = i + 3 /\ (i + 1) + 1 = i + 2 /\ i + 2 \in 1 .. Len(b) /\ b[i + 2].kind = "number"
      BY <1>1, <1>2, <2>4 DEF AfterPatch
    <3>2. KindAt(b, i + 1) = "letters" /\ KindAt(b, i + 2) = "number" /\ (i + 2) - 1 = i + 1
          /\ (i + 3) - 1 = i + 2 /\ (i + 3) - 2 = i + 1
      BY <1>2, <2>2, <3>1
    <3>3. ~Opens(b, i + 2)
      BY <1>3, <3>1, <3>2
    <3>4. ASSUME i + 3 <= Len(b), b[i + 3].kind \in {"number", "letters"}  PROVE Opens(b, i + 3)
      <4>1. i + 3 \in 1 .. Len(b)
        BY <1>1, <3>4
      <4> QED  BY <1>3, <1>4, <3>2, <3>4, <4>1
    <3>5. \A j \in i + 1 .. (i + 3) - 1 : j = i + 1 \/ j = i + 2
      OBVIOUS
    <3> QED  BY <2>1, <2>3, <3>1, <3>3, <3>4, <3>5
  <2>5. CASE KindAt(b, (i + 1) + 1) # "number"
    <3>1. AfterPatch(b, i + 1) = i + 2 /\ (i + 1) + 1 = i + 2
      BY <2>5 DEF AfterPatch
    <3>2. ASSUME i + 2 <= Len(b), b[i + 2].kind \in {"number", "letters"}  PROVE Opens(b, i + 2)
      <4>1. i + 2 \in 1 .. Len(b) /\ (i + 2) - 1 = i + 1 /\ KindAt(b, i + 1) = "letters"
        BY <1>1, <1>2, <2>2, <3>2
      <4>2. b[i + 2].kind = "letters"
        BY <1>2, <2>5, <3>1, <3>2, <4>1
      <4> QED  BY <1>4, <4>1, <4>2
    <3>3. \A j \in i + 1 .. (i + 2) - 1 : j = i + 1
      OBVIOUS
    <3> QED  BY <2>1, <2>3, <3>1, <3>2, <3>3
  <2> QED  BY <2>4, <2>5
<1>7. CASE b[i].kind = "letters"
  <2>1. EndOf(b, i) = AfterPatch(b, i) /\ KindAt(b, i) = "letters"
    BY <1>2, <1>7 DEF EndOf
  <2>2. CASE KindAt(b, i + 1) = "number"
    <3>1. AfterPatch(b, i) = i + 2 /\ i + 1 \in 1 .. Len(b) /\ b[i + 1].kind = "number"
      BY <1>1, <1>2, <2>2 DEF AfterPatch
    <3>2. (i + 1) - 1 = i /\ (i + 2) - 1 = i + 1 /\ (i + 2) - 2 = i
      OBVIOUS
    <3>3. ~Opens(b, i + 1)
      BY <1>3, <2>1, <3>1, <3>2
    <3>4. ASSUME i + 2 <= Len(b), b[i + 2].kind \in {"number", "letters"}  PROVE Opens(b, i + 2)
      <4>1. i + 2 \in 1 .. Len(b)
        BY <1>1, <3>4
      <4> QED  BY <1>3, <1>4, <2>1, <2>2, <3>2, <3>4, <4>1
    <3>5. \A j \in i + 1 .. (i + 2) - 1 : j = i + 1
      OBVIOUS
    <3> QED  BY <2>1, <3>1, <3>3, <3>4, <3>5
  <2>3. CASE KindAt(b, i + 1) # "number"
    <3>1. AfterPatch(b, i) = i + 1
      BY <2>3 DEF AfterPatch
    <3>2. ASSUME i + 1 <= Len(b), b[i + 1].kind \in {"number", "letters"}  PROVE Opens(b, i + 1)
      <4>1. i + 1 \in 1 .. Len(b) /\ (i + 1) - 1 = i
        BY <1>1, <3>2
      <4>2. b[i + 1].kind = "letters"
        BY <1>2, <2>3, <3>2, <4>1
      <4> QED  BY <1>4, <2>1, <4>1, <4>2
    <3> QED  BY <2>1, <3>1, <3>2
  <2> QED  BY <2>2, <2>3
<1>8. CASE b[i].kind \notin Kinds
  <2>1. EndOf(b, i) = i
    BY <1>8 DEF EndOf, Kinds
  <2> QED  BY <2>1
<1> QED  BY <1>5, <1>6, <1>7, <1>8 DEF Kinds

\* At the next place, unless its block is over, a component begins; none does
\* before it.
LEMMA NextBegins ==
  ASSUME NEW b, Body(b), NEW i \in Begins(b)
  PROVE  \A x \in {GetComponent(b, i).next} :
           /\ \A j \in i + 1 .. x - 1 : j \notin Begins(b)
           /\ x <= Len(b) /\ b[x].kind # "+" => Opens(b, x) /\ \A j \in i .. x - 1 : b[j].kind # "*"
<1> DEFINE n == Len(b)
           x == GetComponent(b, i).next
<1>1. i \in 1 .. n /\ Opens(b, i) /\ \A j \in 1 .. i - 1 : b[j].kind = "*" => BlockOf(b, j) # BlockOf(b, i)
  BY DEF Begins
<1>2. b[i].kind # "+"
  BY <1>1 DEF Opens
<1>3. Onto(b, i, x) /\ n \in Nat
  BY <1>1, <1>2, NextOnto DEF Body
<1>4. CASE b[i].kind = "*"
  <2> HIDE DEF n
  <2>1. x = Find(b, i, {"+"})
    BY <1>1, <1>4, StarPart DEF n
  <2>2. FoundAt(x, b, i, {"+"})
    BY <1>1, <2>1, FindFacts DEF Body, n
  <2> HIDE DEF x
  <2>3. ASSUME NEW j \in i + 1 .. x - 1, j \in Begins(b)  PROVE FALSE
    <3>1. i \in 1 .. j - 1 /\ j \in 1 .. n
      BY <1>1, <1>3, <2>3 DEF Onto, n
    <3>2. BlockOf(b, i) # BlockOf(b, j)
      BY <1>4, <2>3, <3>1 DEF Begins
    <3>3. {k \in 1 .. i - 1 : b[k].kind = "+"} = {k \in 1 .. j - 1 : b[k].kind = "+"}
      <4>1. ASSUME NEW k \in i .. j - 1  PROVE b[k].kind # "+"
        <5>1. k = i \/ k \in i + 1 .. x - 1
          BY <1>1, <1>3, <2>3, <3>1, <4>1 DEF Onto
        <5> QED  BY <1>2, <1>3, <5>1 DEF Onto
      <4>2. \A k \in 1 .. j - 1 : k \in 1 .. i - 1 \/ k \in i .. j - 1
        BY <1>1, <3>1
      <4>3. \A k \in 1 .. i - 1 : k \in 1 .. j - 1
        BY <1>1, <3>1
      <4> QED  BY <4>1, <4>2, <4>3
    <3> QED  BY <3>2, <3>3 DEF BlockOf
  <2>4. ~(x <= n /\ b[x].kind # "+")
    BY <2>2 DEF FoundAt, n
  <2> QED  BY <2>3, <2>4 DEF x, n
<1>5. CASE b[i].kind # "*"
  <2> DEFINE y == EndOf(b, i)
  <2>1. x = Find(b, y, Kinds) /\ Behind(b, i, y)
    BY <1>1, <1>2, <1>5, NextIs
  <2>2. /\ \A j \in i + 1 .. y - 1 : ~Opens(b, j)
        /\ y > i /\ y <= n /\ b[y].kind \in {"number", "letters"} => Opens(b, y)
    BY <1>1, <1>2, <1>5, EndFacts
  <2> HIDE DEF y
  <2>3. y \in i .. n + 1 /\ (y = i => b[i].kind \notin Kinds)
        /\ \A j \in i + 1 .. y - 1 : j \in 1 .. n /\ b[j].kind \in {"number", "letters"}
    BY <2>1 DEF Behind
  <2>4. y \in 1 .. n + 1
    BY <1>1, <2>3
  <2>5. FoundAt(x, b, y, Kinds)
    BY <2>1, <2>4, FindFacts DEF Body
  <2> HIDE DEF x
  <2>6. x \in y .. n + 1 /\ (x <= n => b[x].kind \in Kinds) /\ \A j \in y .. x - 1 : b[j].kind \notin Kinds
    BY <2>5 DEF FoundAt
  <2>7. x > i /\ \A j \in i .. x - 1 : j \in i .. n /\ b[j].kind # "+"
    <3>1. x \in i + 1 .. n + 1 /\ \A j \in i + 1 .. x - 1 : b[j].kind # "+"
      BY <1>3 DEF Onto
    <3>2. \A j \in i .. x - 1 : j = i \/ j \in i + 1 .. x - 1
      BY <1>1, <3>1
    <3> QED  BY <1>1, <1>2, <1>3, <3>1, <3>2
  <2>8. ASSUME NEW j \in i + 1 .. x - 1  PROVE ~Opens(b, j)
    <3>1. CASE j < y
      BY <2>2, <2>3, <3>1
    <3>2. CASE j >= y
      <4>1. j \in y .. x - 1 /\ j # 1 /\ j - 1 \in i .. x - 1
        BY <1>1, <2>3, <2>6, <3>2
      <4>2. b[j].kind \notin Kinds /\ b[j - 1].kind # "+"
        BY <2>6, <2>7, <4>1
      <4> QED  BY <4>1, <4>2 DEF Opens, Kinds
    <3> QED  BY <1>1, <2>3, <3>1, <3>2
  <2>9. ASSUME x <= n, b[x].kind # "+"  PROVE Opens(b, x)
    <3>1. CASE x = y /\ b[x].kind \in {"number", "letters"}
      BY <2>2, <2>7, <2>9, <3>1
    <3>2. CASE x # y /\ b[x].kind \in {"number", "letters"}
      <4>1. x - 1 \in y .. x - 1 /\ x - 1 \in 1 .. n
        BY <1>1, <1>3, <2>3, <2>6, <3>2
      <4>2. KindAt(b, x - 1) = b[x - 1].kind /\ b[x - 1].kind \notin Kinds
        BY <2>6, <4>1 DEF KindAt, n
      <4>3. KindAt(b, x - 1) # "letters" /\ KindAt(b, x - 1) # "number"
        BY <4>2 DEF Kinds
      <4> QED  BY <3>2, <4>3 DEF Opens
    <3>3. CASE b[x].kind = "*"
      BY <3>3 DEF Opens
    <3> QED  BY <2>6, <2>9, <3>1, <3>2, <3>3 DEF Kinds
  <2>10. ASSUME NEW j \in i .. x - 1  PROVE b[j].kind # "*"
    <3>1. j = i \/ j \in i + 1 .. y - 1 \/ j \in y .. x - 1
      BY <1>1, <2>3, <2>6
    <3> QED  BY <1>5, <2>3, <2>6, <3>1 DEF Kinds
  <2>11. \A j \in i + 1 .. x - 1 : j \notin Begins(b)
    BY <2>8 DEF Begins
  <2> QED  BY <2>9, <2>10, <2>11 DEF x
<1> QED  BY <1>4, <1>5

\* How blocks are numbered.
LEMMA BlockFacts ==
  ASSUME NEW b, Body(b), NEW i \in 1 .. Len(b) + 1
  PROVE  BlockOf(b, i) \in Nat /\ 1 <= BlockOf(b, i) /\ BlockOf(b, i) <= i
<1> DEFINE S == {j \in 1 .. i - 1 : b[j].kind = "+"}
<1>1. i \in Nat /\ i >= 1
  BY DEF Body
<1>2. IsFiniteSet(1 .. i - 1) /\ Cardinality(1 .. i - 1) = i - 1
  BY <1>1, FS_Interval
<1>3. S \subseteq 1 .. i - 1
  OBVIOUS
<1> HIDE DEF S
<1>4. IsFiniteSet(S) /\ Cardinality(S) <= i - 1
  BY <1>2, <1>3, FS_Subset
<1>5. Cardinality(S) \in Nat
  BY <1>4, FS_CardinalityType
<1>6. BlockOf(b, i) = 1 + Cardinality(S)
  BY DEF BlockOf, S
<1> QED  BY <1>1, <1>4, <1>5, <1>6

\* Places without a "+" between them are in one block, ...
LEMMA BlockSame ==
  ASSUME NEW b, Body(b), NEW i \in 1 .. Len(b) + 1, NEW k \in i .. Len(b) + 1,
         \A j \in i .. k - 1 : b[j].kind # "+"
  PROVE  BlockOf(b, i) = BlockOf(b, k)
<1>1. \A j \in 1 .. k - 1 : j \in 1 .. i - 1 \/ j \in i .. k - 1
  BY DEF Body
<1>2. \A j \in 1 .. i - 1 : j \in 1 .. k - 1
  BY DEF Body
<1>3. {j \in 1 .. i - 1 : b[j].kind = "+"} = {j \in 1 .. k - 1 : b[j].kind = "+"}
  BY <1>1, <1>2
<1> QED  BY <1>3 DEF BlockOf

\* ... a later place is in no earlier block, ...
LEMMA BlockGrows ==
  ASSUME NEW b, Body(b), NEW i \in 1 .. Len(b) + 1, NEW k \in i .. Len(b) + 1
  PROVE  BlockOf(b, i) <= BlockOf(b, k)
<1> DEFINE S == {j \in 1 .. i - 1 : b[j].kind = "+"}
           T == {j \in 1 .. k - 1 : b[j].kind = "+"}
<1>1. S \subseteq T
  BY DEF Body
<1>2. IsFiniteSet(1 .. k - 1)
  BY FS_Interval DEF Body
<1>3. T \subseteq 1 .. k - 1
  OBVIOUS
<1>4. BlockOf(b, i) = 1 + Cardinality(S) /\ BlockOf(b, k) = 1 + Cardinality(T)
  BY DEF BlockOf
<1> HIDE DEF S, T
<1>5. IsFiniteSet(T) /\ IsFiniteSet(S) /\ Cardinality(S) <= Cardinality(T)
  BY <1>1, <1>2, <1>3, FS_Subset
<1>6. Cardinality(S) \in Nat /\ Cardinality(T) \in Nat
  BY <1>5, FS_CardinalityType
<1> QED  BY <1>4, <1>5, <1>6

\* ... the place behind a "+" is in the next block, ...
LEMMA BlockAfter ==
  ASSUME NEW b, Body(b), NEW i \in 1 .. Len(b), b[i].kind = "+"
  PROVE  BlockOf(b, i + 1) = BlockOf(b, i) + 1
<1> DEFINE S == {j \in 1 .. i - 1 : b[j].kind = "+"}
           T == {j \in 1 .. (i + 1) - 1 : b[j].kind = "+"}
<1>1. T = S \cup {i} /\ i \notin S
  BY DEF Body
<1>2. IsFiniteSet(1 .. i - 1)
  <2>1. i - 1 \in Int
    BY DEF Body
  <2> QED  BY <2>1, FS_Interval
<1>3. S \subseteq 1 .. i - 1
  OBVIOUS
<1>4. BlockOf(b, i) = 1 + Cardinality(S) /\ BlockOf(b, i + 1) = 1 + Cardinality(T)
  BY DEF BlockOf
<1> HIDE DEF S, T
<1>5. IsFiniteSet(S)
  BY <1>2, <1>3, FS_Subset
<1>6. Cardinality(T) = Cardinality(S) + 1 /\ Cardinality(S) \in Nat
  BY <1>1, <1>5, FS_AddElement, FS_CardinalityType
<1> QED  BY <1>4, <1>6

\* ... and so is, or in one further on, any place behind it.
LEMMA BlockApart ==
  ASSUME NEW b, Body(b), NEW i \in 1 .. Len(b), NEW k \in i + 1 .. Len(b) + 1, b[i].kind = "+"
  PROVE  BlockOf(b, i) + 1 <= BlockOf(b, k)
<1>1. i + 1 \in 1 .. Len(b) + 1 /\ k \in i + 1 .. Len(b) + 1
  BY DEF Body
<1>2. BlockOf(b, i + 1) <= BlockOf(b, k)
  BY <1>1, BlockGrows
<1> QED  BY <1>2, BlockAfter

\* The components of a block, and those before a place.
PartsOf(b, q) == {j \in Begins(b) : BlockOf(b, j) = q}
PartsTo(b, q, i) == {j \in Begins(b) : j <= i /\ BlockOf(b, j) = q}
PartsBefore(b, q, i) == {j \in Begins(b) : j < i /\ BlockOf(b, j) = q}

\* They are finitely many.
LEMMA PartsFinite ==
  ASSUME NEW b, Body(b), NEW S \in SUBSET Begins(b)
  PROVE  IsFiniteSet(S) /\ Cardinality(S) \in Nat /\ Cardinality(S) <= Len(b)
<1>1. Begins(b) \subseteq 1 .. Len(b)
  BY DEF Begins
<1>2. IsFiniteSet(1 .. Len(b)) /\ Cardinality(1 .. Len(b)) = Len(b)
  BY FS_Interval DEF Body
<1>3. IsFiniteSet(S) /\ Cardinality(S) <= Len(b)
  BY <1>1, <1>2, FS_Subset
<1> QED  BY <1>3, FS_CardinalityType

\* A component is one more than there are before it in its block.
LEMMA PartsCount ==
  ASSUME NEW b, Body(b), NEW i \in Begins(b), NEW q, BlockOf(b, i) = q
  PROVE  Cardinality(PartsTo(b, q, i)) = Cardinality(PartsBefore(b, q, i)) + 1
<1>1. i \in Int
  BY DEF Begins, Body
<1>2. Begins(b) \subseteq Int
  BY DEF Begins, Body
<1>3. PartsTo(b, q, i) = PartsBefore(b, q, i) \cup {i} /\ i \notin PartsBefore(b, q, i)
  BY <1>1, <1>2 DEF PartsTo, PartsBefore
<1>4. PartsBefore(b, q, i) \in SUBSET Begins(b)
  BY DEF PartsBefore
<1>5. IsFiniteSet(PartsBefore(b, q, i))
  BY <1>4, PartsFinite
<1> QED  BY <1>3, <1>5, FS_AddElement

\* The places at which the loop stands still.
IsBlocked(b, i) == i > Len(b) \/ KindAt(b, i) = "+"

\* The loop is at i, in block q, of which it has passed m components.
StandsAt(b, i, q, m) ==
  /\ i \in 1 .. Len(b) + 1 /\ q \in Nat \ {0} /\ m \in Nat
  /\ i <= Len(b) => BlockOf(b, i) = q
  /\ i > Len(b) => BlockOf(b, i) <= q
  /\ ~IsBlocked(b, i) => i \in Begins(b) /\ Cardinality(PartsBefore(b, q, i)) = m
  /\ IsBlocked(b, i) => Cardinality(PartsOf(b, q)) <= m

\* No two components of a block have the same number.
LEMMA OnlyPart ==
  ASSUME NEW b, Body(b), NEW i \in Begins(b), NEW k \in Begins(b), NEW q, BlockOf(b, i) = q, BlockOf(b, k) = q,
         Cardinality(PartsTo(b, q, i)) = Cardinality(PartsTo(b, q, k))
  PROVE  i = k
<1>1. Begins(b) \subseteq Int
  BY DEF Begins, Body
<1>2. ASSUME NEW x \in Begins(b), NEW y \in Begins(b), x < y, BlockOf(b, x) = q, BlockOf(b, y) = q
      PROVE  Cardinality(PartsTo(b, q, x)) < Cardinality(PartsTo(b, q, y))
  <2>1. PartsTo(b, q, x) \subseteq PartsBefore(b, q, y)
    BY <1>1, <1>2 DEF PartsTo, PartsBefore
  <2>2. PartsTo(b, q, x) \in SUBSET Begins(b) /\ PartsBefore(b, q, y) \in SUBSET Begins(b)
        /\ PartsTo(b, q, y) \in SUBSET Begins(b)
    BY DEF PartsTo, PartsBefore
  <2>3. /\ IsFiniteSet(PartsBefore(b, q, y)) /\ Cardinality(PartsTo(b, q, x)) \in Nat
        /\ Cardinality(PartsBefore(b, q, y)) \in Nat /\ Cardinality(PartsTo(b, q, y)) \in Nat
    BY <2>2, PartsFinite
  <2>4. Cardinality(PartsTo(b, q, x)) <= Cardinality(PartsBefore(b, q, y))
    BY <2>1, <2>3, FS_Subset
  <2>5. Cardinality(PartsTo(b, q, y)) = Cardinality(PartsBefore(b, q, y)) + 1
    BY <1>2, PartsCount
  <2> QED  BY <2>3, <2>4, <2>5
<1>3. Cardinality(PartsTo(b, q, i)) \in Nat
  <2>1. PartsTo(b, q, i) \in SUBSET Begins(b)
    BY DEF PartsTo
  <2> QED  BY <2>1, PartsFinite
<1> QED  BY <1>1, <1>2, <1>3

Candidates(b, q, m) == {i \in Begins(b) : BlockOf(b, i) = q /\ Cardinality(PartsTo(b, q, i)) = m}

\* KeyAt in these terms.
LEMMA KeyAtIs ==
  ASSUME NEW b, NEW q, NEW m
  PROVE  KeyAt(b, q, m) = IF Candidates(b, q, m) = {} THEN Zero ELSE KeyOf(b, Min(Candidates(b, q, m)))
BY DEF KeyAt, Candidates, PartsTo

\* The next component is the one that the loop is at.
LEMMA KeyHere ==
  ASSUME NEW b, Body(b), NEW i, NEW q, NEW m, StandsAt(b, i, q, m), ~IsBlocked(b, i)
  PROVE  /\ i \in 1 .. Len(b) /\ b[i].kind # "+" /\ i \in Begins(b) /\ BlockOf(b, i) = q
         /\ KeyAt(b, q, m + 1) = GetComponent(b, i).key /\ m + 1 <= Len(b) /\ q <= Len(b)
<1>1. /\ i \in 1 .. Len(b) /\ b[i].kind # "+" /\ i \in Begins(b) /\ BlockOf(b, i) = q
      /\ Cardinality(PartsBefore(b, q, i)) = m /\ m \in Nat
  BY DEF StandsAt, IsBlocked, KindAt, Body
<1>2. Cardinality(PartsTo(b, q, i)) = m + 1
  BY <1>1, PartsCount
<1>3. Candidates(b, q, m + 1) = {i}
  <2>1. i \in Candidates(b, q, m + 1)
    BY <1>1, <1>2 DEF Candidates
  <2>2. ASSUME NEW k \in Candidates(b, q, m + 1)  PROVE k = i
    <3>1. k \in Begins(b) /\ BlockOf(b, k) = q /\ Cardinality(PartsTo(b, q, k)) = m + 1
      BY DEF Candidates
    <3> QED  BY <1>1, <1>2, <3>1, OnlyPart
  <2> QED  BY <2>1, <2>2
<1>4. Min({i}) = i
  <2>1. {i} \in SUBSET Nat /\ {i} # {}
    BY <1>1 DEF Body
  <2> QED  BY <2>1, MinOf
<1>5. KeyAt(b, q, m + 1) = KeyOf(b, i)
  BY <1>3, <1>4, KeyAtIs
<1>6. KeyOf(b, i) = GetComponent(b, i).key
  BY <1>1, KeyIs
<1>7. m + 1 <= Len(b)
  <2>1. PartsTo(b, q, i) \in SUBSET Begins(b)
    BY DEF PartsTo
  <2> QED  BY <1>2, <2>1, PartsFinite
<1>8. q <= Len(b)
  <2>1. i \in 1 .. Len(b) + 1
    BY <1>1 DEF Body
  <2>2. BlockOf(b, i) \in Nat /\ BlockOf(b, i) <= i
    BY <2>1, BlockFacts
  <2> QED  BY <1>1, <2>2 DEF Body
<1> QED  BY <1>1, <1>5, <1>6, <1>7, <1>8

\* Where it stands still there are no more components in the block.
LEMMA NoKeyHere ==
  ASSUME NEW b, Body(b), NEW i, NEW q, NEW m, StandsAt(b, i, q, m), IsBlocked(b, i), NEW k \in Nat, k > m
  PROVE  KeyAt(b, q, k) = Zero
<1>1. Cardinality(PartsOf(b, q)) <= m /\ m \in Nat
  BY DEF StandsAt
<1>2. ASSUME NEW x \in Candidates(b, q, k)  PROVE FALSE
  <2>1. Cardinality(PartsTo(b, q, x)) = k
    BY DEF Candidates
  <2>2. PartsTo(b, q, x) \subseteq PartsOf(b, q) /\ PartsOf(b, q) \in SUBSET Begins(b)
    BY DEF PartsTo, PartsOf
  <2>3. IsFiniteSet(PartsOf(b, q)) /\ Cardinality(PartsOf(b, q)) \in Nat
    BY <2>2, PartsFinite
  <2>4. Cardinality(PartsTo(b, q, x)) <= Cardinality(PartsOf(b, q))
    BY <2>2, <2>3, FS_Subset
  <2> QED  BY <1>1, <2>1, <2>3, <2>4
<1> QED  BY <1>2, KeyAtIs

\* Beyond the end there are none in any block.
LEMMA NoKeyBeyond ==
  ASSUME NEW b, Body(b), NEW i, NEW q, NEW m, StandsAt(b, i, q, m), i > Len(b), NEW r \in Nat, r > q, NEW k
  PROVE  KeyAt(b, r, k) = Zero
<1>1. i = Len(b) + 1 /\ i \in 1 .. Len(b) + 1 /\ BlockOf(b, i) <= q /\ q \in Nat
  BY DEF StandsAt, Body
<1>2. ASSUME NEW x \in Candidates(b, r, k)  PROVE FALSE
  <2>1. x \in 1 .. Len(b) /\ BlockOf(b, x) = r
    BY DEF Candidates, Begins
  <2>2. x \in 1 .. Len(b) + 1 /\ i \in x .. Len(b) + 1
    BY <1>1, <2>1 DEF Body
  <2>3. BlockOf(b, x) <= BlockOf(b, i) /\ BlockOf(b, i) \in Nat
    BY <1>1, <2>2, BlockGrows, BlockFacts
  <2> QED  BY <1>1, <2>1, <2>3
<1> QED  BY <1>2, KeyAtIs

\* What is before the first place of a block is in another.
LEMMA BlockBefore ==
  ASSUME NEW b, Body(b), NEW p \in 2 .. Len(b) + 1, b[p - 1].kind = "+", NEW j \in 1 .. p - 1
  PROVE  BlockOf(b, j) < BlockOf(b, p)
<1>1. p - 1 \in 1 .. Len(b) /\ p \in (p - 1) + 1 .. Len(b) + 1 /\ j \in 1 .. Len(b) + 1
      /\ p - 1 \in j .. Len(b) + 1 /\ p - 1 \in 1 .. Len(b) + 1 /\ p \in 1 .. Len(b) + 1
  BY DEF Body
<1>2. BlockOf(b, p - 1) + 1 <= BlockOf(b, p) /\ BlockOf(b, j) <= BlockOf(b, p - 1)
  BY <1>1, BlockApart, BlockGrows
<1>3. BlockOf(b, p) \in Nat /\ BlockOf(b, p - 1) \in Nat /\ BlockOf(b, j) \in Nat
  BY <1>1, BlockFacts
<1> QED  BY <1>2, <1>3

\* A block begins with a component, or has none.
LEMMA BlockStart ==
  ASSUME NEW b, Body(b), NEW p \in 1 .. Len(b) + 1, p = 1 \/ b[p - 1].kind = "+"
  PROVE  StandsAt(b, p, BlockOf(b, p), 0)
<1> DEFINE q == BlockOf(b, p)
<1>1. q \in Nat \ {0} /\ Len(b) \in Nat
  BY BlockFacts DEF Body
<1>2. ASSUME NEW j \in 1 .. p - 1  PROVE BlockOf(b, j) # q
  <2>1. p \in 2 .. Len(b) + 1 /\ b[p - 1].kind = "+" /\ j \in 1 .. Len(b) + 1
    BY <1>1
  <2>2. BlockOf(b, j) < q /\ BlockOf(b, j) \in Nat
    BY <2>1, BlockBefore, BlockFacts
  <2> HIDE DEF q
  <2> QED  BY <1>1, <2>2
<1>3. ASSUME ~IsBlocked(b, p)  PROVE p \in Begins(b) /\ Cardinality(PartsBefore(b, q, p)) = 0
  <2>1. p \in 1 .. Len(b) /\ b[p].kind # "+"
    BY <1>1, <1>3 DEF IsBlocked, KindAt
  <2>2. KindAt(b, p - 1) \in {"+", "end"}
    BY <1>1 DEF KindAt
  <2>3. Opens(b, p)
    <3>1. KindAt(b, p - 1) # "letters" /\ KindAt(b, p - 1) # "number"
      BY <2>2
    <3> QED  BY <2>1, <3>1 DEF Opens
  <2>4. p \in Begins(b)
    BY <1>2, <2>1, <2>3 DEF Begins
  <2>5. PartsBefore(b, q, p) = {}
    <3>1. \A j \in Begins(b) : j < p => j \in 1 .. p - 1
      BY <1>1 DEF Begins
    <3> HIDE DEF q
    <3> QED  BY <1>2, <3>1 DEF PartsBefore
  <2> QED  BY <2>4, <2>5, FS_EmptySet
<1>4. ASSUME IsBlocked(b, p)  PROVE Cardinality(PartsOf(b, q)) = 0
  <2>1. ASSUME NEW j \in Begins(b), BlockOf(b, j) = q  PROVE FALSE
    <3>1. j \in 1 .. Len(b) /\ b[j].kind # "+"
      BY DEF Begins, Opens
    <3>2. j >= p
      <4> HIDE DEF q
      <4> QED  BY <1>1, <1>2, <2>1, <3>1
    <3>3. p \in 1 .. Len(b) /\ b[p].kind = "+"
      BY <1>1, <1>4, <3>1, <3>2 DEF IsBlocked, KindAt
    <3>4. j \in p + 1 .. Len(b) + 1 /\ j \in 1 .. Len(b) + 1
      BY <1>1, <3>1, <3>2, <3>3
    <3>5. q + 1 <= BlockOf(b, j)
      BY <3>3, <3>4, BlockApart
    <3> HIDE DEF q
    <3> QED  BY <1>1, <2>1, <3>5
  <2>2. PartsOf(b, q) = {}
    <3> HIDE DEF q
    <3> QED  BY <2>1 DEF PartsOf
  <2> QED  BY <2>2, FS_EmptySet
<1> HIDE DEF q
<1>5. BlockOf(b, p) <= q
  BY <1>1 DEF q
<1>6. StandsAt(b, p, q, 0)
  BY <1>1, <1>3, <1>4, <1>5 DEF StandsAt, q
<1> QED  BY <1>6 DEF q

\* The loop passes a "+" in both, or waits at the end of one.
SkipFrom(b, i) == IF i > Len(b) THEN i ELSE i + 1

\* Then it is at the beginning of the next block.
LEMMA SkipOn ==
  ASSUME NEW b, Body(b), NEW i, NEW q, NEW m, StandsAt(b, i, q, m), IsBlocked(b, i)
  PROVE  StandsAt(b, SkipFrom(b, i), q + 1, 0)
<1>1. i \in 1 .. Len(b) + 1 /\ q \in Nat \ {0} /\ Len(b) \in Nat
  BY DEF StandsAt, Body
<1>2. CASE i > Len(b)
  <2>1. BlockOf(b, i) <= q /\ BlockOf(b, i) \in Nat
    BY <1>1, <1>2, BlockFacts DEF StandsAt
  <2>2. ASSUME NEW j \in Begins(b)  PROVE BlockOf(b, j) # q + 1
    <3>1. j \in 1 .. Len(b) + 1 /\ i \in j .. Len(b) + 1
      BY <1>1, <1>2 DEF Begins
    <3>2. BlockOf(b, j) <= BlockOf(b, i) /\ BlockOf(b, j) \in Nat
      BY <1>1, <3>1, BlockGrows, BlockFacts
    <3> QED  BY <1>1, <2>1, <3>2
  <2>3. PartsOf(b, q + 1) = {}
    BY <2>2 DEF PartsOf
  <2>4. Cardinality(PartsOf(b, q + 1)) = 0
    BY <2>3, FS_EmptySet
  <2> QED  BY <1>1, <1>2, <2>1, <2>4 DEF StandsAt, SkipFrom, IsBlocked
<1>3. CASE ~(i > Len(b))
  <2>1. i \in 1 .. Len(b) /\ b[i].kind = "+" /\ BlockOf(b, i) = q
    BY <1>1, <1>3 DEF StandsAt, IsBlocked, KindAt
  <2>2. BlockOf(b, i + 1) = q + 1
    BY <2>1, BlockAfter
  <2>3. i + 1 \in 1 .. Len(b) + 1 /\ (i + 1) - 1 = i
    BY <1>1, <2>1
  <2>4. StandsAt(b, i + 1, BlockOf(b, i + 1), 0)
    BY <2>1, <2>3, BlockStart
  <2> QED  BY <1>3, <2>2, <2>4 DEF SkipFrom
<1> QED  BY <1>2, <1>3

\* And it goes from one component to the next.
LEMMA LoopStep ==
  ASSUME NEW b, Body(b), NEW i, NEW q, NEW m, StandsAt(b, i, q, m), ~IsBlocked(b, i)
  PROVE  StandsAt(b, GetComponent(b, i).next, q, m + 1)
<1> DEFINE x == GetComponent(b, i).next
<1>1. i \in 1 .. Len(b) /\ b[i].kind # "+" /\ i \in Begins(b) /\ BlockOf(b, i) = q
  BY KeyHere
<1>2. q \in Nat \ {0} /\ m \in Nat /\ Len(b) \in Nat /\ Cardinality(PartsBefore(b, q, i)) = m
  BY DEF StandsAt, Body
<1>3. Onto(b, i, x)
  BY <1>1, NextOnto
<1>4. /\ \A j \in i + 1 .. x - 1 : j \notin Begins(b)
      /\ x <= Len(b) /\ b[x].kind # "+" => Opens(b, x) /\ \A j \in i .. x - 1 : b[j].kind # "*"
  BY <1>1, NextBegins
<1> HIDE DEF x
<1>5. x \in i + 1 .. Len(b) + 1 /\ x \in 1 .. Len(b) + 1
      /\ \A j \in i .. x - 1 : j \in i .. Len(b) /\ b[j].kind # "+"
  <2>1. x \in i + 1 .. Len(b) + 1 /\ \A j \in i + 1 .. x - 1 : b[j].kind # "+"
    BY <1>3 DEF Onto
  <2>2. \A j \in i .. x - 1 : j = i \/ j \in i + 1 .. x - 1
    BY <1>1, <1>2, <2>1
  <2> QED  BY <1>1, <1>2, <2>1, <2>2
<1>6. BlockOf(b, x) = q
  <2>1. i \in 1 .. Len(b) + 1 /\ x \in i .. Len(b) + 1
    BY <1>1, <1>2, <1>5
  <2> QED  BY <1>1, <1>5, <2>1, BlockSame
<1>7. Cardinality(PartsTo(b, q, i)) = m + 1
  BY <1>1, <1>2, PartsCount
<1>8. Begins(b) \subseteq 1 .. Len(b)
  BY DEF Begins
<1>9. ASSUME NEW j \in Begins(b), j < x  PROVE j <= i
  <2>1. j \in i + 1 .. x - 1 \/ j <= i
    BY <1>1, <1>2, <1>5, <1>8, <1>9
  <2> QED  BY <1>4, <2>1
<1>10. ASSUME ~IsBlocked(b, x)  PROVE x \in Begins(b) /\ Cardinality(PartsBefore(b, q, x)) = m + 1
  <2>1. x \in 1 .. Len(b) /\ b[x].kind # "+"
    BY <1>2, <1>5, <1>10 DEF IsBlocked, KindAt
  <2>2. ASSUME NEW j \in 1 .. x - 1, b[j].kind = "*"  PROVE BlockOf(b, j) # q
    <3>1. j \in 1 .. i - 1
      <4>1. j \notin i .. x - 1
        BY <1>2, <1>4, <1>5, <2>1, <2>2
      <4> QED  BY <1>1, <1>2, <1>5, <4>1
    <3> QED  BY <1>1, <2>2, <3>1 DEF Begins
  <2>3. x \in Begins(b)
    BY <1>2, <1>4, <1>5, <1>6, <2>1, <2>2 DEF Begins
  <2>4. PartsBefore(b, q, x) = PartsTo(b, q, i)
    <3>1. \A j \in Begins(b) : j < x <=> j <= i
      BY <1>1, <1>2, <1>5, <1>8, <1>9
    <3> QED  BY <3>1 DEF PartsBefore, PartsTo
  <2> QED  BY <1>7, <2>3, <2>4
<1>11. ASSUME IsBlocked(b, x)  PROVE Cardinality(PartsOf(b, q)) <= m + 1
  <2>1. ASSUME NEW j \in Begins(b), BlockOf(b, j) = q  PROVE j <= i
    <3> SUFFICES ASSUME ~(j < x)  PROVE FALSE
      BY <1>9
    <3>1. j \in 1 .. Len(b) /\ b[j].kind # "+"
      BY DEF Begins, Opens
    <3>2. x \in 1 .. Len(b) /\ b[x].kind = "+" /\ j \in x + 1 .. Len(b) + 1
      BY <1>2, <1>5, <1>11, <3>1 DEF IsBlocked, KindAt
    <3>3. BlockOf(b, x) + 1 <= BlockOf(b, j)
      BY <3>2, BlockApart
    <3> QED  BY <1>2, <1>6, <2>1, <3>3
  <2>2. PartsOf(b, q) = PartsTo(b, q, i)
    BY <2>1 DEF PartsOf, PartsTo
  <2> QED  BY <1>2, <1>7, <2>2
<1>12. BlockOf(b, x) <= q
  BY <1>2, <1>6
<1>13. StandsAt(b, x, q, m + 1)
  BY <1>2, <1>5, <1>6, <1>10, <1>11, <1>12 DEF StandsAt
<1> QED  BY <1>13 DEF x

\* The loop of pkg_version_cmp, as one step from places to places.
KeyFrom(b, i) == IF IsBlocked(b, i) THEN Zero ELSE GetComponent(b, i).key
NextFrom(b, i) == IF IsBlocked(b, i) THEN i ELSE GetComponent(b, i).next
Places(u, v) == (1 .. Len(u) + 1) \X (1 .. Len(v) + 1)
AtEnds(u, v, p) == p[1] > Len(u) /\ p[2] > Len(v)
BothBlocked(u, v, p) == IsBlocked(u, p[1]) /\ IsBlocked(v, p[2])
Skipped(u, v, p) == <<SkipFrom(u, p[1]), SkipFrom(v, p[2])>>
Passed(u, v, p) == <<NextFrom(u, p[1]), NextFrom(v, p[2])>>
LoopBody(f, u, v, p) ==
  IF AtEnds(u, v, p) THEN 0
  ELSE IF BothBlocked(u, v, p) THEN f[Skipped(u, v, p)]
  ELSE IF KeyFrom(u, p[1]) # KeyFrom(v, p[2]) THEN CompareKeys(KeyFrom(u, p[1]), KeyFrom(v, p[2]))
  ELSE f[Passed(u, v, p)]

Far(u, v, p) == (Len(u) + 1 - p[1]) + (Len(v) + 1 - p[2])

\* Each step goes on.
LEMMA LoopGoesOn ==
  ASSUME NEW u, NEW v, Body(u), Body(v), NEW p \in Places(u, v), ~AtEnds(u, v, p)
  PROVE  /\ BothBlocked(u, v, p) => Skipped(u, v, p) \in Places(u, v) /\ Far(u, v, Skipped(u, v, p)) < Far(u, v, p)
         /\ ~BothBlocked(u, v, p) => Passed(u, v, p) \in Places(u, v) /\ Far(u, v, Passed(u, v, p)) < Far(u, v, p)
<1> DEFINE i == p[1]
           j == p[2]
<1>1. i \in 1 .. Len(u) + 1 /\ j \in 1 .. Len(v) + 1 /\ Len(u) \in Nat /\ Len(v) \in Nat
  BY DEF Places, Body
<1>2. ASSUME BothBlocked(u, v, p)
      PROVE  Skipped(u, v, p) \in Places(u, v) /\ Far(u, v, Skipped(u, v, p)) < Far(u, v, p)
  <2> DEFINE x == SkipFrom(u, i)
             y == SkipFrom(v, j)
  <2>1. x \in i .. Len(u) + 1 /\ y \in j .. Len(v) + 1 /\ (x > i \/ y > j)
    BY <1>1 DEF SkipFrom, AtEnds
  <2>2. Skipped(u, v, p) = <<x, y>>
    BY DEF Skipped
  <2> HIDE DEF x, y
  <2>3. x \in 1 .. Len(u) + 1 /\ y \in 1 .. Len(v) + 1
    BY <1>1, <2>1
  <2>4. (Len(u) + 1 - x) + (Len(v) + 1 - y) < (Len(u) + 1 - i) + (Len(v) + 1 - j)
    <3> HIDE DEF i, j
    <3> QED  BY <1>1, <2>1, <2>3
  <2> QED  BY <2>2, <2>3, <2>4 DEF Places, Far
<1>3. ASSUME ~BothBlocked(u, v, p)
      PROVE  Passed(u, v, p) \in Places(u, v) /\ Far(u, v, Passed(u, v, p)) < Far(u, v, p)
  <2> DEFINE x == NextFrom(u, i)
             y == NextFrom(v, j)
  <2>1. x = i \/ (~IsBlocked(u, i) /\ x \in i + 1 .. Len(u) + 1)
    <3>1. CASE IsBlocked(u, i)
      BY <3>1 DEF NextFrom
    <3>2. CASE ~IsBlocked(u, i)
      <4>1. i \in 1 .. Len(u) /\ u[i].kind # "+"
        BY <1>1, <3>2 DEF IsBlocked, KindAt
      <4>2. Onto(u, i, GetComponent(u, i).next)
        BY <4>1, NextOnto
      <4> QED  BY <3>2, <4>2 DEF NextFrom, Onto
    <3> QED  BY <3>1, <3>2
  <2>2. y = j \/ (~IsBlocked(v, j) /\ y \in j + 1 .. Len(v) + 1)
    <3>1. CASE IsBlocked(v, j)
      BY <3>1 DEF NextFrom
    <3>2. CASE ~IsBlocked(v, j)
      <4>1. j \in 1 .. Len(v) /\ v[j].kind # "+"
        BY <1>1, <3>2 DEF IsBlocked, KindAt
      <4>2. Onto(v, j, GetComponent(v, j).next)
        BY <4>1, NextOnto
      <4> QED  BY <3>2, <4>2 DEF NextFrom, Onto
    <3> QED  BY <3>1, <3>2
  <2>3. x # i \/ y # j
    <3>1. ASSUME ~IsBlocked(u, i)  PROVE x # i
      <4>1. i \in 1 .. Len(u) /\ u[i].kind # "+"
        BY <1>1, <3>1 DEF IsBlocked, KindAt
      <4>2. Onto(u, i, GetComponent(u, i).next) /\ x = GetComponent(u, i).next
        BY <3>1, <4>1, NextOnto DEF NextFrom
      <4> HIDE DEF x
      <4> QED  BY <1>1, <4>2 DEF Onto
    <3>2. ASSUME ~IsBlocked(v, j)  PROVE y # j
      <4>1. j \in 1 .. Len(v) /\ v[j].kind # "+"
        BY <1>1, <3>2 DEF IsBlocked, KindAt
      <4>2. Onto(v, j, GetComponent(v, j).next) /\ y = GetComponent(v, j).next
        BY <3>2, <4>1, NextOnto DEF NextFrom
      <4> HIDE DEF y
      <4> QED  BY <1>1, <4>2 DEF Onto
    <3> QED  BY <1>3, <3>1, <3>2 DEF BothBlocked
  <2>4. Passed(u, v, p) = <<x, y>>
    BY DEF Passed
  <2> HIDE DEF x, y
  <2>5. x \in 1 .. Len(u) + 1 /\ y \in 1 .. Len(v) + 1 /\ x >= i /\ y >= j /\ (x > i \/ y > j)
    <3> HIDE DEF i, j
    <3> QED  BY <1>1, <2>1, <2>2, <2>3
  <2>6. (Len(u) + 1 - x) + (Len(v) + 1 - y) < (Len(u) + 1 - i) + (Len(v) + 1 - j)
    <3> HIDE DEF i, j
    <3> QED  BY <1>1, <2>5
  <2> QED  BY <2>4, <2>5, <2>6 DEF Places, Far
<1> QED  BY <1>2, <1>3

\* A function that goes from place to place as the loop does.
Loops(F, u, v) ==
  /\ F \in [Places(u, v) -> {-1, 0, 1}]
  /\ \A p \in Places(u, v) : F[p] = LoopBody(F, u, v, p)

\* The comparison of two bodies is the value of such a function at their beginnings.
LEMMA LoopIs ==
  ASSUME NEW u, NEW v, Body(u), Body(v)
  PROVE  \E F : Loops(F, u, v) /\ CompareBodies(u, v) = F[<<1, 1>>]
<1> DEFINE D == Places(u, v)
           C == {-1, 0, 1}
           F == CHOOSE f : f = [p \in D |-> LoopBody(f, u, v, p)]
           mu == [p \in D |-> Far(u, v, p)]
           g == [f \in [D -> C] |-> [p \in D |-> LoopBody(f, u, v, p)]]
           start == [p \in D |-> 0]
<1>1. CompareBodies(u, v) = F[<<1, 1>>]
  BY DEF CompareBodies, LoopBody, Places, AtEnds, BothBlocked, Skipped, Passed, KeyFrom, NextFrom, SkipFrom, IsBlocked
<1>2. \A p \in D : p[1] \in 1 .. Len(u) + 1 /\ p[2] \in 1 .. Len(v) + 1 /\ Len(u) \in Nat /\ Len(v) \in Nat
  BY DEF Places, Body
<1>3. mu \in [D -> Nat]
  <2>1. \A p \in D : Far(u, v, p) \in Nat
    BY <1>2 DEF Far
  <2> HIDE DEF D
  <2> QED  BY <2>1
<1>4. \A x, y : CompareKeys(x, y) \in C
  BY DEF CompareKeys, Compare
<1> HIDE DEF D, C
<1>5. 0 \in C
  BY DEF C
<1>6. ASSUME NEW f \in [D -> C], NEW p \in D  PROVE LoopBody(f, u, v, p) \in C
  <2>1. CASE AtEnds(u, v, p)
    BY <1>5, <2>1 DEF LoopBody
  <2>2. CASE ~AtEnds(u, v, p) /\ BothBlocked(u, v, p)
    <3>1. Skipped(u, v, p) \in D
      BY <2>2, LoopGoesOn DEF D
    <3> QED  BY <2>2, <3>1 DEF LoopBody
  <2>3. CASE ~AtEnds(u, v, p) /\ ~BothBlocked(u, v, p)
    <3>1. Passed(u, v, p) \in D
      BY <2>3, LoopGoesOn DEF D
    <3> QED  BY <1>4, <2>3, <3>1 DEF LoopBody
  <2> QED  BY <2>1, <2>2, <2>3
<1>7. g \in [[D -> C] -> [D -> C]]
  <2>1. \A f \in [D -> C] : [p \in D |-> LoopBody(f, u, v, p)] \in [D -> C]
    BY <1>6
  <2> QED  BY <2>1
<1>8. start \in [D -> C]
  BY <1>5
<1>9. Contracts(g, D, C, mu)
  <2>1. ASSUME NEW f \in [D -> C], NEW h \in [D -> C], NEW x \in D,
               \A y \in D : mu[y] < mu[x] => f[y] = h[y]
        PROVE  g[f][x] = g[h][x]
    <3>1. g[f][x] = LoopBody(f, u, v, x) /\ g[h][x] = LoopBody(h, u, v, x)
      OBVIOUS
    <3>2. mu[x] = Far(u, v, x) /\ \A y \in D : mu[y] = Far(u, v, y)
      OBVIOUS
    <3> HIDE DEF g, mu
    <3>3. CASE AtEnds(u, v, x)
      BY <3>1, <3>3 DEF LoopBody
    <3>4. CASE ~AtEnds(u, v, x) /\ BothBlocked(u, v, x)
      <4>1. Skipped(u, v, x) \in D /\ Far(u, v, Skipped(u, v, x)) < Far(u, v, x)
        BY <3>4, LoopGoesOn DEF D
      <4>2. f[Skipped(u, v, x)] = h[Skipped(u, v, x)]
        BY <2>1, <3>2, <4>1
      <4> QED  BY <3>1, <3>4, <4>2 DEF LoopBody
    <3>5. CASE ~AtEnds(u, v, x) /\ ~BothBlocked(u, v, x)
      <4>1. Passed(u, v, x) \in D /\ Far(u, v, Passed(u, v, x)) < Far(u, v, x)
        BY <3>5, LoopGoesOn DEF D
      <4>2. f[Passed(u, v, x)] = h[Passed(u, v, x)]
        BY <2>1, <3>2, <4>1
      <4> QED  BY <3>1, <3>5, <4>2 DEF LoopBody
    <3> QED  BY <3>3, <3>4, <3>5
  <2> QED  BY <2>1 DEF Contracts
<1>10. PICK h : Solves(h, g, D, C)
  <2> HIDE DEF g, mu, start
  <2> QED  BY <1>3, <1>7, <1>8, <1>9, Recursion
<1>11. h = [p \in D |-> LoopBody(h, u, v, p)]
  BY <1>10 DEF Solves
<1>12. F = [p \in D |-> LoopBody(F, u, v, p)]
  BY <1>11
<1> HIDE DEF F
    \* The chosen function has the values of the one that was found.
<1> DEFINE S == {p \in D : F[p] = h[p]}
<1>13. ASSUME NEW x \in D, \A y \in D : mu[y] < mu[x] => y \in S  PROVE x \in S
  <2>1. F[x] = LoopBody(F, u, v, x) /\ h[x] = LoopBody(h, u, v, x)
    BY <1>11, <1>12
  <2>2. \A y \in D : Far(u, v, y) < Far(u, v, x) => F[y] = h[y]
    BY <1>13
  <2>3. LoopBody(F, u, v, x) = LoopBody(h, u, v, x)
    <3>1. CASE AtEnds(u, v, x)
      BY <3>1 DEF LoopBody
    <3>2. CASE ~AtEnds(u, v, x) /\ BothBlocked(u, v, x)
      <4>1. F[Skipped(u, v, x)] = h[Skipped(u, v, x)]
        BY <2>2, <3>2, LoopGoesOn DEF D
      <4> QED  BY <3>2, <4>1 DEF LoopBody
    <3>3. CASE ~AtEnds(u, v, x) /\ ~BothBlocked(u, v, x)
      <4>1. F[Passed(u, v, x)] = h[Passed(u, v, x)]
        BY <2>2, <3>3, LoopGoesOn DEF D
      <4> QED  BY <3>3, <4>1 DEF LoopBody
    <3> QED  BY <3>1, <3>2, <3>3
  <2> QED  BY <2>1, <2>3
<1>14. D \subseteq S
  <2> HIDE DEF S, mu
  <2> QED  BY <1>3, <1>13, MeasureInduction
<1>15. \A p \in D : F[p] = h[p] /\ h[p] \in C
  BY <1>10, <1>14 DEF Solves
<1>16. F \in [D -> C] /\ \A p \in D : F[p] = LoopBody(F, u, v, p)
  BY <1>12, <1>15
<1>17. Loops(F, u, v)
  BY <1>16 DEF Loops, C, D
<1> QED  BY <1>1, <1>17

\* The components of two bodies are the same up to the m-th of block q, ...
SameTo(u, v, q, m) ==
  \A r \in Nat \ {0}, k \in Nat \ {0} : r < q \/ (r = q /\ k <= m) => KeyAt(u, r, k) = KeyAt(v, r, k)

\* ... and the next one decides, or there is none that differs.
Decides(u, v, q, m, c) ==
  /\ q \in Nat \ {0} /\ m \in Nat /\ (q <= Len(u) \/ q <= Len(v)) /\ (m + 1 <= Len(u) \/ m + 1 <= Len(v))
  /\ SameTo(u, v, q, m) /\ KeyAt(u, q, m + 1) # KeyAt(v, q, m + 1)
  /\ c = CompareKeys(KeyAt(u, q, m + 1), KeyAt(v, q, m + 1))
Verdict(u, v, c) ==
  \/ c = 0 /\ \A r \in Nat \ {0}, k \in Nat \ {0} : KeyAt(u, r, k) = KeyAt(v, r, k)
  \/ \E q, m : Decides(u, v, q, m, c)

Meets(u, v, p, q, m) == StandsAt(u, p[1], q, m) /\ StandsAt(v, p[2], q, m) /\ SameTo(u, v, q, m)

\* The key that the loop compares next is the documented one, 0 when it is missing.
LEMMA KeyNext ==
  ASSUME NEW b, Body(b), NEW i, NEW q, NEW m, StandsAt(b, i, q, m)
  PROVE  KeyAt(b, q, m + 1) = KeyFrom(b, i)
<1>1. CASE IsBlocked(b, i)
  <2>1. m + 1 \in Nat /\ m + 1 > m
    BY DEF StandsAt
  <2> QED  BY <1>1, <2>1, NoKeyHere DEF KeyFrom
<1>2. CASE ~IsBlocked(b, i)
  BY <1>2, KeyHere DEF KeyFrom
<1> QED  BY <1>1, <1>2

\* A place stays for the next component where the block has no more.
LEMMA StandNext ==
  ASSUME NEW b, Body(b), NEW i, NEW q, NEW m, StandsAt(b, i, q, m)
  PROVE  StandsAt(b, NextFrom(b, i), q, m + 1)
<1>1. CASE IsBlocked(b, i)
  <2>1. Cardinality(PartsOf(b, q)) <= m /\ m \in Nat
    BY <1>1 DEF StandsAt
  <2>2. Cardinality(PartsOf(b, q)) \in Nat
    <3>1. PartsOf(b, q) \in SUBSET Begins(b)
      BY DEF PartsOf
    <3> QED  BY <3>1, PartsFinite
  <2>3. Cardinality(PartsOf(b, q)) <= m + 1 /\ m + 1 \in Nat
    BY <2>1, <2>2
  <2> QED  BY <1>1, <2>3 DEF StandsAt, NextFrom
<1>2. CASE ~IsBlocked(b, i)
  BY <1>2, LoopStep DEF NextFrom
<1> QED  BY <1>1, <1>2

\* From wherever the loop is, it comes to the first component that differs.
LEMMA LoopDecides ==
  ASSUME NEW u, NEW v, Body(u), Body(v), NEW F, Loops(F, u, v)
  PROVE  \A p \in Places(u, v) : \A q, m : Meets(u, v, p, q, m) => Verdict(u, v, F[p])
<1> DEFINE D == Places(u, v)
           mu == [p \in D |-> Far(u, v, p)]
           S == {p \in D : \A q, m : Meets(u, v, p, q, m) => Verdict(u, v, F[p])}
<1>1. mu \in [D -> Nat]
  <2>1. \A p \in D : Far(u, v, p) \in Nat
    BY DEF Far, Places, Body
  <2> HIDE DEF D
  <2> QED  BY <2>1
<1>2. ASSUME NEW p \in D, \A y \in D : mu[y] < mu[p] => y \in S  PROVE p \in S
  <2> SUFFICES ASSUME NEW q, NEW m, Meets(u, v, p, q, m)  PROVE Verdict(u, v, F[p])
    OBVIOUS
  <2> DEFINE i == p[1]
             j == p[2]
  <2>1. StandsAt(u, i, q, m) /\ StandsAt(v, j, q, m) /\ SameTo(u, v, q, m)
    BY DEF Meets
  <2>2. F[p] = LoopBody(F, u, v, p)
    BY DEF Loops
  <2>3. q \in Nat \ {0} /\ m \in Nat
    BY <2>1 DEF StandsAt
  <2>4. ASSUME NEW y \in D, Far(u, v, y) < Far(u, v, p), NEW r, NEW k, Meets(u, v, y, r, k)
        PROVE  Verdict(u, v, F[y])
    BY <1>2, <2>4
  <2> HIDE DEF S, mu, D
  <2>5. CASE AtEnds(u, v, p)
    <3>1. F[p] = 0 /\ i > Len(u) /\ j > Len(v)
      BY <2>2, <2>5 DEF LoopBody, AtEnds
    <3>2. IsBlocked(u, i) /\ IsBlocked(v, j)
      BY <3>1 DEF IsBlocked
    <3>3. ASSUME NEW r \in Nat \ {0}, NEW k \in Nat \ {0}  PROVE KeyAt(u, r, k) = KeyAt(v, r, k)
      <4>1. CASE r < q \/ (r = q /\ k <= m)
        BY <2>1, <4>1 DEF SameTo
      <4>2. CASE r = q /\ k > m
        BY <2>1, <3>2, <4>2, NoKeyHere
      <4>3. CASE r > q
        BY <2>1, <3>1, <4>3, NoKeyBeyond
      <4> QED  BY <2>3, <4>1, <4>2, <4>3
    <3> QED  BY <3>1, <3>3 DEF Verdict
  <2>6. CASE ~AtEnds(u, v, p) /\ BothBlocked(u, v, p)
    <3> DEFINE y == Skipped(u, v, p)
    <3>1. F[p] = F[y]
      BY <2>2, <2>6 DEF LoopBody
    <3>2. y \in D /\ Far(u, v, y) < Far(u, v, p)
      BY <2>6, LoopGoesOn DEF D
    <3>3. y[1] = SkipFrom(u, i) /\ y[2] = SkipFrom(v, j)
      BY DEF Skipped
    <3>4. IsBlocked(u, i) /\ IsBlocked(v, j)
      BY <2>6 DEF BothBlocked
    <3>5. StandsAt(u, y[1], q + 1, 0) /\ StandsAt(v, y[2], q + 1, 0)
      BY <2>1, <3>3, <3>4, SkipOn
    <3>6. SameTo(u, v, q + 1, 0)
      <4>1. ASSUME NEW r \in Nat \ {0}, NEW k \in Nat \ {0}, r < q + 1  PROVE KeyAt(u, r, k) = KeyAt(v, r, k)
        <5>1. CASE r < q \/ (r = q /\ k <= m)
          BY <2>1, <5>1 DEF SameTo
        <5>2. CASE r = q /\ k > m
          BY <2>1, <3>4, <5>2, NoKeyHere
        <5> QED  BY <2>3, <4>1, <5>1, <5>2
      <4> QED  BY <4>1 DEF SameTo
    <3> HIDE DEF y
    <3>7. Meets(u, v, y, q + 1, 0)
      BY <3>5, <3>6 DEF Meets
    <3> QED  BY <2>4, <3>1, <3>2, <3>7
  <2>7. CASE ~AtEnds(u, v, p) /\ ~BothBlocked(u, v, p) /\ KeyFrom(u, i) # KeyFrom(v, j)
    <3>1. F[p] = CompareKeys(KeyFrom(u, i), KeyFrom(v, j))
      BY <2>2, <2>7 DEF LoopBody
    <3>2. KeyAt(u, q, m + 1) = KeyFrom(u, i) /\ KeyAt(v, q, m + 1) = KeyFrom(v, j)
      BY <2>1, KeyNext
    <3>3. (q <= Len(u) \/ q <= Len(v)) /\ (m + 1 <= Len(u) \/ m + 1 <= Len(v))
      <4>1. ~IsBlocked(u, i) \/ ~IsBlocked(v, j)
        BY <2>7 DEF BothBlocked
      <4> QED  BY <2>1, <4>1, KeyHere
    <3>4. Decides(u, v, q, m, F[p])
      BY <2>1, <2>3, <2>7, <3>1, <3>2, <3>3 DEF Decides
    <3> QED  BY <3>4 DEF Verdict
  <2>8. CASE ~AtEnds(u, v, p) /\ ~BothBlocked(u, v, p) /\ KeyFrom(u, i) = KeyFrom(v, j)
    <3> DEFINE y == Passed(u, v, p)
    <3>1. F[p] = F[y]
      BY <2>2, <2>8 DEF LoopBody
    <3>2. y \in D /\ Far(u, v, y) < Far(u, v, p)
      BY <2>8, LoopGoesOn DEF D
    <3>3. y[1] = NextFrom(u, i) /\ y[2] = NextFrom(v, j)
      BY DEF Passed
    <3>4. StandsAt(u, y[1], q, m + 1) /\ StandsAt(v, y[2], q, m + 1)
      BY <2>1, <3>3, StandNext
    <3>5. KeyAt(u, q, m + 1) = KeyAt(v, q, m + 1)
      BY <2>1, <2>8, KeyNext
    <3>6. SameTo(u, v, q, m + 1)
      <4>1. ASSUME NEW r \in Nat \ {0}, NEW k \in Nat \ {0}, r < q \/ (r = q /\ k <= m + 1)
            PROVE  KeyAt(u, r, k) = KeyAt(v, r, k)
        <5>1. CASE r < q \/ (r = q /\ k <= m)
          BY <2>1, <5>1 DEF SameTo
        <5>2. CASE r = q /\ k = m + 1
          BY <3>5, <5>2
        <5> QED  BY <2>3, <4>1, <5>1, <5>2
      <4> QED  BY <4>1 DEF SameTo
    <3> HIDE DEF y
    <3>7. Meets(u, v, y, q, m + 1)
      BY <3>4, <3>6 DEF Meets
    <3> QED  BY <2>4, <3>1, <3>2, <3>7
  <2> QED  BY <2>5, <2>6, <2>7, <2>8
<1>3. D \subseteq S
  <2> HIDE DEF S, mu, D
  <2> QED  BY <1>1, <1>2, MeasureInduction
<1> QED  BY <1>3

\* The loop of pkg_version_cmp is decided by the first component that differs.
LEMMA BodiesCompared ==
  ASSUME NEW u, NEW v, Body(u), Body(v)
  PROVE  Verdict(u, v, CompareBodies(u, v))
<1>1. PICK F : Loops(F, u, v) /\ CompareBodies(u, v) = F[<<1, 1>>]
  BY LoopIs
<1> DEFINE p == <<1, 1>>
<1>2. p \in Places(u, v) /\ 1 \in 1 .. Len(u) + 1 /\ 1 \in 1 .. Len(v) + 1
  BY DEF Places, Body
<1>3. BlockOf(u, 1) = 1 /\ BlockOf(v, 1) = 1
  <2>1. BlockOf(u, 1) \in Nat /\ 1 <= BlockOf(u, 1) /\ BlockOf(u, 1) <= 1
    BY <1>2, BlockFacts
  <2>2. BlockOf(v, 1) \in Nat /\ 1 <= BlockOf(v, 1) /\ BlockOf(v, 1) <= 1
    BY <1>2, BlockFacts
  <2> QED  BY <2>1, <2>2
<1>4. StandsAt(u, 1, 1, 0) /\ StandsAt(v, 1, 1, 0)
  BY <1>2, <1>3, BlockStart
<1>5. SameTo(u, v, 1, 0)
  BY DEF SameTo
<1>6. Meets(u, v, p, 1, 0)
  BY <1>4, <1>5 DEF Meets
<1> QED  BY <1>1, <1>2, <1>6, LoopDecides

Key == Int \X Int \X Int

\* The tokens of a version have numbers.
LEMMA TokenFacts ==
  ASSUME NEW v, IsVersion(v), NEW i \in 1 .. Len(v.body)
  PROVE  /\ v.body[i].n \in Nat /\ (Special(v.body[i]) => Stage[v.body[i].run] \in Nat)
<1> DEFINE Plain == [kind : {"number"}, n : Nat, run : {""}]
           Lettered == [kind : {"letters"}, n : 1 .. 26, run : {""}]
           Named == [kind : {"letters"}, n : {0}, run : DOMAIN Stage]
           Signs == [kind : {Separator, "+", "*"}, n : {0}, run : {""}]
           Token == Plain \cup Lettered \cup Named \cup Signs
<1>1. v.body \in Seq(Token)
  BY DEF IsVersion
<1> DEFINE t == v.body[i]
<1>2. t \in Token
  <2> HIDE DEF Token
  <2> QED  BY <1>1, ElementOfSeq
<1> HIDE DEF t
<1>3. t.n \in Nat
  <2>1. CASE t \in Plain
    BY <2>1
  <2>2. CASE t \in Lettered
    <3>1. t.n \in 1 .. 26
      BY <2>2
    <3>2. \A x \in 1 .. 26 : x \in Nat
      OBVIOUS
    <3> HIDE DEF Plain, Lettered, Named, Signs, Token
    <3> QED  BY <3>1, <3>2, Zenon
  <2>3. CASE t \in Named
    BY <2>3
  <2>4. CASE t \in Signs
    <3> DEFINE Marks == {Separator, "+", "*"}
    <3>1. t \in [kind : Marks, n : {0}, run : {""}]
      BY <2>4
    <3> HIDE DEF Marks, Plain, Lettered, Named, Signs, Token
    <3>2. t.n \in {0}
      BY <3>1
    <3>3. t.n = 0
      BY <3>2, Zenon
    <3> QED  BY <3>3
  <2> HIDE DEF Plain, Lettered, Named, Signs
  <2> QED  BY <1>2, <2>1, <2>2, <2>3, <2>4
<1>4. \A r \in DOMAIN Stage : Stage[r] \in Nat
  BY DEF Stage
<1> QED  BY <1>3, <1>4 DEF Special, t

\* The parts of a version, ...
LEMMA VersionBody ==
  ASSUME NEW v, IsVersion(v)
  PROVE  Body(v.body) /\ v.epoch \in Nat /\ v.revision \in Nat
<1>1. \E S : v.body \in Seq(S)
  BY DEF IsVersion
<1> QED  BY <1>1, LenProperties DEF Body, IsVersion

\* ... and its documented keys.
LEMMA KeyType ==
  ASSUME NEW v, IsVersion(v), NEW q, NEW m
  PROVE  KeyAt(v.body, q, m) \in Key
<1> DEFINE b == v.body
<1>1. Body(b)
  BY VersionBody
<1>2. \A i \in 1 .. Len(b) : b[i].n \in Nat /\ (Special(b[i]) => Stage[b[i].run] \in Nat)
  BY TokenFacts
<1> HIDE DEF b
<1>3. ASSUME NEW i \in 1 .. Len(b)  PROVE KeyOf(b, i) \in Key
  <2> DEFINE number == IF b[i].kind = "number" THEN b[i].n ELSE IF b[i].kind = "*" THEN -2 ELSE -1
             l == IF b[i].kind = "number" THEN i + 1 ELSE i
             has == KindAt(b, l) = "letters" /\ (l = i \/ ~Special(b[l]))
             letter == IF ~has THEN 0 ELSE LetterAt(b, l)
             patch == IF ~has THEN 0 ELSE PatchAt(b, l)
  <2>1. KeyOf(b, i) = <<number, letter, patch>>
    BY DEF KeyOf, LetterAt, PatchAt
  <2>2. number \in Int
    BY <1>2
  <2>3. has => l \in 1 .. Len(b)
    BY DEF KindAt
  <2> HIDE DEF number, l, has
  <2>4. letter \in Int
    BY <1>2, <2>3 DEF LetterAt
  <2>5. patch \in Int
    <3>1. KindAt(b, l + 1) = "number" => l + 1 \in 1 .. Len(b)
      BY DEF KindAt
    <3> QED  BY <1>2, <3>1 DEF PatchAt
  <2> HIDE DEF letter, patch
  <2> QED  BY <2>1, <2>2, <2>4, <2>5 DEF Key
<1>4. CASE Candidates(b, q, m) = {}
  BY <1>4, KeyAtIs DEF Zero, Key, b
<1>5. CASE Candidates(b, q, m) # {}
  <2> DEFINE C == Candidates(b, q, m)
  <2>1. C \subseteq 1 .. Len(b)
    BY DEF Candidates, Begins
  <2>2. C \in SUBSET Nat /\ C # {}
    BY <1>5, <2>1
  <2> HIDE DEF C
  <2>3. Min(C) \in C
    BY <2>2, MinOf
  <2>4. KeyAt(b, q, m) = KeyOf(b, Min(C))
    BY <1>5, KeyAtIs DEF C
  <2> QED  BY <1>3, <2>1, <2>3, <2>4 DEF b
<1> QED  BY <1>4, <1>5

\* The order of keys.
LEMMA KeysOrdered ==
  ASSUME NEW x \in Key, NEW y \in Key
  PROVE  /\ CompareKeys(x, y) \in {-1, 0, 1} /\ CompareKeys(y, x) = -CompareKeys(x, y)
         /\ CompareKeys(x, y) = 0 <=> x = y
<1>1. x = <<x[1], x[2], x[3]>> /\ x[1] \in Int /\ x[2] \in Int /\ x[3] \in Int
  BY DEF Key
<1>2. y = <<y[1], y[2], y[3]>> /\ y[1] \in Int /\ y[2] \in Int /\ y[3] \in Int
  BY DEF Key
<1>3. CompareKeys(x, y) \in {-1, 0, 1} /\ CompareKeys(y, x) = -CompareKeys(x, y)
  BY <1>1, <1>2 DEF CompareKeys, Compare
<1>4. CompareKeys(x, y) = 0 <=> x[1] = y[1] /\ x[2] = y[2] /\ x[3] = y[3]
  BY <1>1, <1>2 DEF CompareKeys, Compare
<1> QED  BY <1>1, <1>2, <1>3, <1>4

\* It is transitive.
LEMMA KeysTransitive ==
  ASSUME NEW x \in Key, NEW y \in Key, NEW z \in Key, CompareKeys(x, y) <= 0, CompareKeys(y, z) <= 0
  PROVE  CompareKeys(x, z) <= 0 /\ (CompareKeys(x, y) < 0 \/ CompareKeys(y, z) < 0 => CompareKeys(x, z) < 0)
<1>1. x[1] \in Int /\ x[2] \in Int /\ x[3] \in Int /\ y[1] \in Int /\ y[2] \in Int /\ y[3] \in Int
      /\ z[1] \in Int /\ z[2] \in Int /\ z[3] \in Int
  BY DEF Key
<1> DEFINE Below(s, t) == s[1] < t[1] \/ (s[1] = t[1] /\ (s[2] < t[2] \/ (s[2] = t[2] /\ s[3] < t[3])))
           Even(s, t) == s[1] = t[1] /\ s[2] = t[2] /\ s[3] = t[3]
<1>2. (CompareKeys(x, y) < 0 <=> Below(x, y)) /\ (CompareKeys(x, y) <= 0 <=> Below(x, y) \/ Even(x, y))
  BY <1>1 DEF CompareKeys, Compare
<1>3. (CompareKeys(y, z) < 0 <=> Below(y, z)) /\ (CompareKeys(y, z) <= 0 <=> Below(y, z) \/ Even(y, z))
  BY <1>1 DEF CompareKeys, Compare
<1>4. (CompareKeys(x, z) < 0 <=> Below(x, z)) /\ (CompareKeys(x, z) <= 0 <=> Below(x, z) \/ Even(x, z))
  BY <1>1 DEF CompareKeys, Compare
<1>5. /\ (Below(x, y) \/ Even(x, y)) /\ (Below(y, z) \/ Even(y, z)) => Below(x, z) \/ Even(x, z)
      /\ Below(x, y) /\ (Below(y, z) \/ Even(y, z)) => Below(x, z)
      /\ (Below(x, y) \/ Even(x, y)) /\ Below(y, z) => Below(x, z)
  BY <1>1
<1> HIDE DEF Below, Even
<1> QED  BY <1>2, <1>3, <1>4, <1>5

\* Where the first difference is, there the verdict is made.
LEMMA VerdictAt ==
  ASSUME NEW u, NEW v, NEW c, Verdict(u, v, c), NEW q \in Nat \ {0}, NEW m \in Nat,
         SameTo(u, v, q, m), KeyAt(u, q, m + 1) # KeyAt(v, q, m + 1)
  PROVE  c = CompareKeys(KeyAt(u, q, m + 1), KeyAt(v, q, m + 1))
<1>1. m + 1 \in Nat \ {0}
  OBVIOUS
<1>2. PICK r, k : Decides(u, v, r, k, c)
  BY <1>1 DEF Verdict
<1>3. r \in Nat \ {0} /\ k \in Nat /\ k + 1 \in Nat \ {0} /\ SameTo(u, v, r, k)
      /\ KeyAt(u, r, k + 1) # KeyAt(v, r, k + 1) /\ c = CompareKeys(KeyAt(u, r, k + 1), KeyAt(v, r, k + 1))
  BY <1>2 DEF Decides
<1>4. ~(r < q) /\ ~(q < r) /\ (r = q => ~(k + 1 <= m) /\ ~(m + 1 <= k))
  BY <1>1, <1>3 DEF SameTo
<1>5. r = q /\ k = m
  BY <1>3, <1>4
<1> QED  BY <1>3, <1>5

\* The comparison of versions (libpkg/pkg_version.c pkg_version_cmp) is the
\* order that the comment above get_component documents: of any two versions, the
\* epoch, then the first component that differs, with missing ones taken for zero,
\* then the revision.
THEOREM VersionsAsDocumented ==
  ASSUME NEW u, NEW v, IsVersion(u), IsVersion(v)
  PROVE  VersionCmp(u, v) = Documented(u, v)
<1> DEFINE s == u.body
           t == v.body
           c == CompareBodies(s, t)
           n == Max({Len(s), Len(t)}) + 1
           Differ == {p \in (1 .. n) \X (1 .. n) : KeyAt(s, p[1], p[2]) # KeyAt(t, p[1], p[2])}
           Least(p) == \A r \in Differ : p[1] < r[1] \/ (p[1] = r[1] /\ p[2] <= r[2])
           first == CHOOSE p \in Differ : Least(p)
<1>1. Body(s) /\ Body(t)
  BY VersionBody
<1>2. Verdict(s, t, c)
  BY <1>1, BodiesCompared
<1>3. \A q, m : KeyAt(s, q, m) \in Key /\ KeyAt(t, q, m) \in Key
  BY KeyType
<1>4. Documented(u, v) =
        IF u.epoch # v.epoch THEN Compare(u.epoch, v.epoch)
        ELSE IF Differ # {} THEN CompareKeys(KeyAt(s, first[1], first[2]), KeyAt(t, first[1], first[2]))
        ELSE Compare(u.revision, v.revision)
  BY DEF Documented
<1>5. VersionCmp(u, v) =
        IF u.epoch # v.epoch THEN Compare(u.epoch, v.epoch)
        ELSE IF s # t /\ c # 0 THEN c ELSE Compare(u.revision, v.revision)
  BY DEF VersionCmp
<1>6. n \in Nat /\ Len(s) < n /\ Len(t) < n
  <2> DEFINE S == {Len(s), Len(t)}
             N == Len(s) + Len(t)
  <2>1. S \in SUBSET Nat /\ S # {} /\ N \in Nat /\ \A y \in S : y <= N
    <3>1. Len(s) \in Nat /\ Len(t) \in Nat
      BY <1>1 DEF Body
    <3> HIDE DEF s, t
    <3> QED  BY <3>1
  <2> HIDE DEF N, S
  <2>2. Max(S) \in S /\ \A y \in S : Max(S) >= y
    BY <2>1, MaxOf
  <2> QED  BY <2>1, <2>2 DEF S
<1> HIDE DEF s, t, c, n
<1>7. CASE c = 0 /\ \A r \in Nat \ {0}, k \in Nat \ {0} : KeyAt(s, r, k) = KeyAt(t, r, k)
  <2>1. \A r \in 1 .. n, k \in 1 .. n : r \in Nat \ {0} /\ k \in Nat \ {0}
    BY <1>6
  <2>2. Differ = {}
    BY <1>7, <2>1
  <2> QED  BY <1>4, <1>5, <1>7, <2>2
<1>8. ASSUME NEW q, NEW m, Decides(s, t, q, m, c)  PROVE VersionCmp(u, v) = Documented(u, v)
  <2>1. /\ q \in Nat \ {0} /\ m \in Nat /\ (q <= Len(s) \/ q <= Len(t)) /\ (m + 1 <= Len(s) \/ m + 1 <= Len(t))
        /\ SameTo(s, t, q, m) /\ KeyAt(s, q, m + 1) # KeyAt(t, q, m + 1)
        /\ c = CompareKeys(KeyAt(s, q, m + 1), KeyAt(t, q, m + 1))
    BY <1>8 DEF Decides
  <2>2. q \in 1 .. n /\ m + 1 \in 1 .. n
    BY <1>1, <1>6, <2>1 DEF Body
  <2> DEFINE p == <<q, m + 1>>
  <2>3. p \in Differ
    BY <2>1, <2>2
  <2>4. ASSUME NEW r \in Differ  PROVE p[1] < r[1] \/ (p[1] = r[1] /\ p[2] <= r[2])
    <3>1. r[1] \in Nat \ {0} /\ r[2] \in Nat \ {0} /\ KeyAt(s, r[1], r[2]) # KeyAt(t, r[1], r[2])
      BY <1>6
    <3>2. ~(r[1] < q \/ (r[1] = q /\ r[2] <= m))
      BY <2>1, <3>1 DEF SameTo
    <3> QED  BY <2>1, <3>1, <3>2
  <2>5. first = p
    <3>1. Least(p)
      BY <2>4
    <3>2. \A r \in Differ : r \in Nat \X Nat
      BY <1>6
    <3>3. p \in Nat \X Nat
      BY <2>1
    <3> HIDE DEF p, Differ
    <3>4. \A r \in Differ : Least(r) => r = p
      <4> SUFFICES ASSUME NEW r \in Differ, Least(r)  PROVE r = p
        OBVIOUS
      <4>1. r[1] = p[1] /\ r[2] = p[2]
        BY <2>3, <3>1, <3>2, <3>3
      <4>2. r = <<r[1], r[2]>> /\ p = <<p[1], p[2]>>
        BY <3>2, <3>3
      <4> QED  BY <4>1, <4>2
    <3> QED  BY <2>3, <3>1, <3>4
  <2>6. c # 0
    BY <1>3, <2>1, KeysOrdered
  <2>7. s # t
    BY <2>1
  <2>8. first[1] = q /\ first[2] = m + 1
    <3> HIDE DEF first
    <3> QED  BY <2>5
  <2>9. Differ # {}
    BY <2>3
  <2> HIDE DEF first, Differ, p
  <2> QED  BY <1>4, <1>5, <2>1, <2>6, <2>7, <2>8, <2>9
<1> QED  BY <1>2, <1>7, <1>8 DEF Verdict

\* The two bodies the other way round.
LEMMA VerdictBack ==
  ASSUME NEW u, NEW v, IsVersion(u), IsVersion(v)
  PROVE  CompareBodies(v.body, u.body) = -CompareBodies(u.body, v.body)
         /\ CompareBodies(u.body, v.body) \in {-1, 0, 1}
<1> DEFINE s == u.body
           t == v.body
           c == CompareBodies(s, t)
           d == CompareBodies(t, s)
<1>1. Verdict(s, t, c) /\ Verdict(t, s, d)
  BY VersionBody, BodiesCompared
<1>2. \A q, m : KeyAt(s, q, m) \in Key /\ KeyAt(t, q, m) \in Key
  BY KeyType
<1> HIDE DEF s, t, c, d
<1>3. ASSUME c = 0, \A r \in Nat \ {0}, k \in Nat \ {0} : KeyAt(s, r, k) = KeyAt(t, r, k)
      PROVE  d = -c /\ c \in {-1, 0, 1}
  <2>1. ASSUME NEW q, NEW m, Decides(t, s, q, m, d)  PROVE FALSE
    <3>1. q \in Nat \ {0} /\ m + 1 \in Nat \ {0} /\ KeyAt(t, q, m + 1) # KeyAt(s, q, m + 1)
      BY <2>1 DEF Decides
    <3> QED  BY <1>3, <3>1
  <2>2. d = 0
    BY <1>1, <2>1 DEF Verdict
  <2>3. c = 0
    BY <1>3
  <2>4. \A x \in Int, y \in Int : x + y = 0 => y = -x
    OBVIOUS
  <2>5. c \in Int /\ d \in Int /\ c + d = 0 /\ c \in {-1, 0, 1}
    BY <2>2, <2>3
  <2> QED  BY <2>4, <2>5, Zenon
<1>4. ASSUME NEW q, NEW m, Decides(s, t, q, m, c)  PROVE d = -c /\ c \in {-1, 0, 1}
  <2>1. /\ q \in Nat \ {0} /\ m \in Nat /\ SameTo(s, t, q, m) /\ KeyAt(s, q, m + 1) # KeyAt(t, q, m + 1)
        /\ c = CompareKeys(KeyAt(s, q, m + 1), KeyAt(t, q, m + 1))
    BY <1>4 DEF Decides
  <2>2. SameTo(t, s, q, m)
    BY <2>1 DEF SameTo
  <2>3. d = CompareKeys(KeyAt(t, q, m + 1), KeyAt(s, q, m + 1))
    BY <1>1, <2>1, <2>2, VerdictAt
  <2> QED  BY <1>2, <2>1, <2>3, KeysOrdered
<1>5. d = -c /\ c \in {-1, 0, 1}
  <2>1. CASE c = 0 /\ \A r \in Nat \ {0}, k \in Nat \ {0} : KeyAt(s, r, k) = KeyAt(t, r, k)
    BY <1>3, <2>1
  <2> QED  BY <1>1, <1>4, <2>1 DEF Verdict
<1> QED  BY <1>5 DEF c, d, s, t

\* Three bodies.
LEMMA VerdictOn ==
  ASSUME NEW u, NEW v, NEW w, IsVersion(u), IsVersion(v), IsVersion(w),
         CompareBodies(u.body, v.body) <= 0, CompareBodies(v.body, w.body) <= 0
  PROVE  /\ CompareBodies(u.body, w.body) <= 0
         /\ CompareBodies(u.body, v.body) < 0 \/ CompareBodies(v.body, w.body) < 0 =>
              CompareBodies(u.body, w.body) < 0
<1> DEFINE s == u.body
           t == v.body
           x == w.body
           c == CompareBodies(s, t)
           d == CompareBodies(t, x)
           e == CompareBodies(s, x)
           Even(a, b) == \A r \in Nat \ {0}, k \in Nat \ {0} : KeyAt(a, r, k) = KeyAt(b, r, k)
<1>1. Verdict(s, t, c) /\ Verdict(t, x, d) /\ Verdict(s, x, e)
  BY VersionBody, BodiesCompared
<1>2. \A q, m : KeyAt(s, q, m) \in Key /\ KeyAt(t, q, m) \in Key /\ KeyAt(x, q, m) \in Key
  BY KeyType
<1>3. c <= 0 /\ d <= 0
  OBVIOUS
<1> SUFFICES e <= 0 /\ (c < 0 \/ d < 0 => e < 0)
  OBVIOUS
<1> HIDE DEF s, t, x, c, d, e
  \* At a place up to which all three are the same, and where a pair differs.
<1>4. ASSUME NEW q \in Nat \ {0}, NEW m \in Nat, SameTo(s, t, q, m), SameTo(t, x, q, m),
             KeyAt(s, q, m + 1) # KeyAt(t, q, m + 1) \/ KeyAt(t, q, m + 1) # KeyAt(x, q, m + 1)
      PROVE  e < 0
  <2> DEFINE f == KeyAt(s, q, m + 1)
             g == KeyAt(t, q, m + 1)
             h == KeyAt(x, q, m + 1)
  <2>1. f \in Key /\ g \in Key /\ h \in Key
    BY <1>2
  <2>2. f # g => CompareKeys(f, g) = c
    BY <1>1, <1>4, VerdictAt
  <2>3. g # h => CompareKeys(g, h) = d
    BY <1>1, <1>4, VerdictAt
  <2>4. SameTo(s, x, q, m)
    BY <1>4 DEF SameTo
  <2>5. f # h => CompareKeys(f, h) = e
    BY <1>1, <2>4, VerdictAt
  <2> HIDE DEF f, g, h
  <2>6. /\ CompareKeys(f, g) \in {-1, 0, 1} /\ (CompareKeys(f, g) = 0 <=> f = g)
        /\ CompareKeys(g, h) \in {-1, 0, 1} /\ (CompareKeys(g, h) = 0 <=> g = h)
        /\ CompareKeys(f, h) \in {-1, 0, 1} /\ (CompareKeys(f, h) = 0 <=> f = h)
    BY <2>1, KeysOrdered
  <2>7. CompareKeys(f, g) <= 0 /\ CompareKeys(g, h) <= 0
    BY <1>3, <2>2, <2>3, <2>6
  <2>8. CompareKeys(f, g) < 0 \/ CompareKeys(g, h) < 0
    <3>1. f # g \/ g # h
      BY <1>4 DEF f, g, h
    <3> QED  BY <2>6, <2>7, <3>1
  <2>9. CompareKeys(f, h) < 0
    BY <2>1, <2>7, <2>8, KeysTransitive
  <2> QED  BY <2>5, <2>6, <2>9
<1>5. ASSUME NEW q, NEW m, Decides(s, t, q, m, c), NEW r, NEW k, Decides(t, x, r, k, d)  PROVE e < 0
  <2>1. /\ q \in Nat \ {0} /\ m \in Nat /\ SameTo(s, t, q, m) /\ KeyAt(s, q, m + 1) # KeyAt(t, q, m + 1)
        /\ r \in Nat \ {0} /\ k \in Nat /\ SameTo(t, x, r, k) /\ KeyAt(t, r, k + 1) # KeyAt(x, r, k + 1)
    BY <1>5 DEF Decides
  <2>2. CASE q < r \/ (q = r /\ m <= k)
    <3>1. SameTo(t, x, q, m)
      BY <2>1, <2>2 DEF SameTo
    <3> QED  BY <1>4, <2>1, <3>1
  <2>3. CASE r < q \/ (q = r /\ k <= m)
    <3>1. SameTo(s, t, r, k)
      BY <2>1, <2>3 DEF SameTo
    <3> QED  BY <1>4, <2>1, <3>1
  <2> QED  BY <2>1, <2>2, <2>3
<1>6. ASSUME NEW q, NEW m, Decides(s, t, q, m, c), Even(t, x)  PROVE e < 0
  <2>1. q \in Nat \ {0} /\ m \in Nat /\ SameTo(s, t, q, m) /\ KeyAt(s, q, m + 1) # KeyAt(t, q, m + 1)
    BY <1>6 DEF Decides
  <2>2. SameTo(t, x, q, m)
    BY <1>6 DEF SameTo
  <2> QED  BY <1>4, <2>1, <2>2
<1>7. ASSUME NEW q, NEW m, Even(s, t), Decides(t, x, q, m, d)  PROVE e < 0
  <2>1. q \in Nat \ {0} /\ m \in Nat /\ SameTo(t, x, q, m) /\ KeyAt(t, q, m + 1) # KeyAt(x, q, m + 1)
    BY <1>7 DEF Decides
  <2>2. SameTo(s, t, q, m)
    BY <1>7 DEF SameTo
  <2> QED  BY <1>4, <2>1, <2>2
<1>8. CASE c = 0 /\ Even(s, t) /\ d = 0 /\ Even(t, x)
  <2>1. Even(s, x)
    BY <1>8
  <2>2. ASSUME NEW q, NEW m, Decides(s, x, q, m, e)  PROVE FALSE
    <3>1. q \in Nat \ {0} /\ m + 1 \in Nat \ {0} /\ KeyAt(s, q, m + 1) # KeyAt(x, q, m + 1)
      BY <2>2 DEF Decides
    <3> QED  BY <2>1, <3>1
  <2>3. e = 0
    BY <1>1, <2>2 DEF Verdict
  <2> QED  BY <1>8, <2>3
<1>9. e < 0 => e <= 0
  <2>1. e \in {-1, 0, 1}
    BY VerdictBack DEF e, s, x
  <2> QED  BY <2>1
<1>10. /\ (c = 0 /\ Even(s, t)) \/ \E q, m : Decides(s, t, q, m, c)
       /\ (d = 0 /\ Even(t, x)) \/ \E q, m : Decides(t, x, q, m, d)
  BY <1>1 DEF Verdict
<1> HIDE DEF Even
<1> QED  BY <1>5, <1>6, <1>7, <1>8, <1>9, <1>10

\* The comparison of versions is a total order, but for versions that are written
\* differently and equal: what an upgrade takes for newer does not depend on the
\* order in which the versions of a package are met.
THEOREM VersionsOrdered ==
  ASSUME NEW u, NEW v, NEW w, IsVersion(u), IsVersion(v), IsVersion(w)
  PROVE  /\ VersionCmp(u, v) \in {-1, 0, 1} /\ VersionCmp(v, u) = -VersionCmp(u, v)
         /\ VersionCmp(u, v) <= 0 /\ VersionCmp(v, w) <= 0 =>
              /\ VersionCmp(u, w) <= 0
              /\ VersionCmp(u, v) < 0 \/ VersionCmp(v, w) < 0 => VersionCmp(u, w) < 0
<1> DEFINE c(a, b) == CompareBodies(a.body, b.body)
           z(a, b) == IF a.body = b.body THEN 0 ELSE c(a, b)
           cmp(a, b) == IF a.epoch # b.epoch THEN Compare(a.epoch, b.epoch)
                        ELSE IF c(a, b) # 0 THEN c(a, b) ELSE Compare(a.revision, b.revision)
<1>1. ASSUME NEW a, IsVersion(a)  PROVE c(a, a) = 0
  <2>1. c(a, a) = -c(a, a) /\ c(a, a) \in {-1, 0, 1}
    BY <1>1, VerdictBack
  <2> HIDE DEF c
  <2> QED  BY <2>1
<1>2. ASSUME NEW a, NEW b, IsVersion(a), IsVersion(b)  PROVE VersionCmp(a, b) = cmp(a, b)
  <2>1. VersionCmp(a, b) =
          IF a.epoch # b.epoch THEN Compare(a.epoch, b.epoch)
          ELSE IF a.body # b.body /\ c(a, b) # 0 THEN c(a, b) ELSE Compare(a.revision, b.revision)
    BY DEF VersionCmp
  <2>2. a.body = b.body => c(a, b) = 0
    <3>1. c(a, a) = 0
      BY <1>1, <1>2
    <3> QED  BY <3>1
  <2> HIDE DEF c
  <2> QED  BY <2>1, <2>2
<1>3. /\ u.epoch \in Int /\ v.epoch \in Int /\ w.epoch \in Int
      /\ u.revision \in Int /\ v.revision \in Int /\ w.revision \in Int
  BY VersionBody
<1>4. c(u, v) \in {-1, 0, 1} /\ c(v, w) \in {-1, 0, 1} /\ c(u, w) \in {-1, 0, 1} /\ c(v, u) = -c(u, v)
  BY VerdictBack
<1>5. c(u, v) <= 0 /\ c(v, w) <= 0 => c(u, w) <= 0 /\ (c(u, v) < 0 \/ c(v, w) < 0 => c(u, w) < 0)
  BY VerdictOn
<1>6. VersionCmp(u, v) = cmp(u, v) /\ VersionCmp(v, u) = cmp(v, u) /\ VersionCmp(v, w) = cmp(v, w)
      /\ VersionCmp(u, w) = cmp(u, w)
  BY <1>2
<1> HIDE DEF c
<1>7. cmp(u, v) \in {-1, 0, 1} /\ cmp(v, u) = -cmp(u, v)
  BY <1>3, <1>4 DEF Compare
<1>8. ASSUME cmp(u, v) <= 0, cmp(v, w) <= 0
      PROVE  cmp(u, w) <= 0 /\ (cmp(u, v) < 0 \/ cmp(v, w) < 0 => cmp(u, w) < 0)
  BY <1>3, <1>4, <1>5, <1>8 DEF Compare
<1> HIDE DEF cmp
<1> QED  BY <1>6, <1>7, <1>8

\* The comparison of the version of a probe with any other is the documented
\* order, and with VersionsOrdered it is total and transitive: the version that
\* an upgrade chooses does not depend on the order in which versions are met.
THEOREM ReleaseOrders == Spec => []VersionOrder
<1> DEFINE Probed == phase = "probe" => probe \in Probes
<1>1. Init => Probed
  BY DEF Init
<1>2. Probed /\ [Next]_vars => Probed'
  BY DEF Next, Make, Record, Hand, Update, Use, vars
<1>3. Probed => VersionOrder
  <2> SUFFICES ASSUME probe \in Probes, probe[1] = "version", NEW p \in Probes, p[1] = "version"
               PROVE  VersionCmp(probe[2], p[2]) = Documented(probe[2], p[2])
    BY DEF VersionOrder
  <2>1. IsVersion(probe[2]) /\ IsVersion(p[2])
    BY ReleaseAssumption
  <2> QED  BY <2>1, VersionsAsDocumented
<1> HIDE DEF Probed
<1> QED  BY <1>1, <1>2, <1>3, PTL DEF Spec
=============================================================================
