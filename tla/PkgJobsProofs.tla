--------------------------- MODULE PkgJobsProofs ----------------------------
(***************************************************************************)
(* Proofs about PkgJobs, for any catalogue, database, cache and answers of *)
(* the solver: only what the user has agreed to is done, nothing is        *)
(* installed before it is fetched, and the check finds the packages that   *)
(* clash.                                                                  *)
(*                                                                         *)
(* The first two depend on how the two loops and their flags go together,  *)
(* and on nothing that the check finds, so JobsInv leaves the conflicts    *)
(* out; ClashInv, in the second half, is about nothing else.               *)
(***************************************************************************)
EXTENDS PkgJobs, TLAPS, NaturalsInduction, WellFoundedInduction

-----------------------------------------------------------------------------
(* Plans and databases.                                                    *)

LEMMA RegisteredType ==
  ASSUME NEW d \in Databases, NEW n \in Names, NEW v \in Versions
  PROVE  /\ Registered(d, n, v) \in Databases
         /\ Registered(d, n, v).ver = [d.ver EXCEPT ![n] = v]
  BY DEF Registered, Databases, Conflicts

LEMMA UnregisteredType ==
  ASSUME NEW d \in Databases, NEW n \in Names
  PROVE  /\ Unregistered(d, n) \in Databases
         /\ Unregistered(d, n).ver = [d.ver EXCEPT ![n] = None]
  BY DEF Unregistered, Databases

\* The empty list of jobs installs nothing.
LEMMA NoJobsNoItems ==
  ASSUME plan = db.ver
  PROVE  ToInstall(plan) = {}
  BY DEF ToInstall, Selected, IsLocal

\* A job that is done, or half done, adds nothing that is to be installed.
LEMMA JobShrinks ==
  ASSUME db \in Databases, plan \in Plans, NEW n \in Jobs(plan), NEW w \in Versions \cup {None},
         db' \in Databases, db'.ver = [db.ver EXCEPT ![n] = w], plan' = plan
  PROVE  ToInstall(plan)' \subseteq ToInstall(plan)
<1>1. ASSUME NEW p \in ToInstall(plan)'
      PROVE  p \in ToInstall(plan)
  <2>1. p \in Items /\ plan[p[1]] = p[2] /\ db'.ver[p[1]] # p[2]
    BY <1>1 DEF ToInstall, Selected, IsLocal
  <2>2. db.ver[p[1]] # p[2]
    BY <2>1 DEF Jobs, Items, Databases
  <2> QED BY <2>1, <2>2 DEF ToInstall, Selected, IsLocal
<1> QED BY <1>1

-----------------------------------------------------------------------------
(* The inductive invariant.                                                *)

DataOK ==
  /\ db \in Databases /\ plan \in Plans
  /\ needFetch \in BOOLEAN /\ hasConflicts \in BOOLEAN

\* The plan in the hands of pkg_jobs_apply, as long as it has found no conflict.
Applied == loop = "apply" /\ ~hasConflicts

\* A loop that asks for another solution has noted it; pkg_jobs_apply cannot
\* forget that the plan is not the one that was shown.
LoopNoted ==
  /\ loop = "apply" /\ pc = "solve" => hasConflicts
  /\ pc \in {"confirm", "fetch", "execute"} => loop = "none"

Agreed ==
  pc \in {"fetch", "execute"} \/ (pc \in {"startCheck", "check"} /\ Applied) => shown = plan

Fetchable ==
  ~needFetch \/ pc = "execute" \/ (pc \in {"startCheck", "check"} /\ Applied)
    => ToInstall(plan) \subseteq cached

JobsInv == DataOK /\ LoopNoted /\ Agreed /\ Fetchable

LEMMA InitInv == Init => JobsInv
<1> SUFFICES ASSUME Init PROVE JobsInv
  OBVIOUS
<1>1. DataOK
  BY JobsAssumption DEF Init, DataOK, Databases, Plans
<1>2. ToInstall(plan) = {}
  BY NoJobsNoItems DEF Init
<1> QED BY <1>1, <1>2 DEF Init, JobsInv, LoopNoted, Agreed, Fetchable, Applied

LEMMA SolveInv ==
  ASSUME JobsInv, NEW t \in Plans, Solve(t)
  PROVE  JobsInv'
<1>1. DataOK'
  BY DEF JobsInv, DataOK, Solve, AfterSolve
<1>2. LoopNoted' /\ Agreed'
  BY DEF JobsInv, LoopNoted, Agreed, Applied, Solve, AfterSolve
<1>3. ~needFetch' => ToInstall(plan)' \subseteq cached'
  <2> SUFFICES ASSUME ~needFetch', NEW p \in ToInstall(plan)'
               PROVE  p \in cached'
    OBVIOUS
  <2>1. db' = db /\ cached' = cached /\ plan' = t
    BY DEF Solve
  <2>2. p \in ToInstall(t) /\ ~IsLocal(p)
    BY <2>1 DEF ToInstall, Selected, IsLocal
  <2>3. Loaded(p)
    BY <2>2 DEF Solve, JobsInv, DataOK
  <2> QED BY <2>1, <2>2, <2>3 DEF Loaded
<1>4. Fetchable'
  BY <1>3 DEF JobsInv, LoopNoted, Fetchable, Applied, Solve, AfterSolve
<1> QED BY <1>1, <1>2, <1>4 DEF JobsInv

LEMMA SolveFailsInv ==
  ASSUME JobsInv, SolveFails
  PROVE  JobsInv'
<1>1. DataOK'
  BY DEF JobsInv, DataOK, SolveFails, Exit, check, Databases, Plans
<1>2. LoopNoted' /\ Agreed'
  BY DEF JobsInv, LoopNoted, Agreed, Applied, SolveFails, Exit, check
<1>3. ToInstall(plan)' = {}
  BY DEF SolveFails, ToInstall, Selected, IsLocal
<1> QED BY <1>1, <1>2, <1>3 DEF JobsInv, Fetchable

LEMMA EndCheckInv ==
  ASSUME JobsInv, EndCheck
  PROVE  JobsInv'
<1>1. CASE Resolve
  <2>1. DataOK'
    BY <1>1 DEF JobsInv, DataOK, EndCheck, Resolve, Databases, Plans
  <2>2. LoopNoted' /\ Agreed'
    BY <1>1 DEF JobsInv, LoopNoted, Agreed, Applied, EndCheck, Resolve
  <2>3. ToInstall(plan)' = {}
    BY <1>1 DEF EndCheck, Resolve, ToInstall, Selected, IsLocal
  <2> QED BY <2>1, <2>2, <2>3 DEF JobsInv, Fetchable
<1>2. CASE Passed
  <2>1. DataOK'
    BY <1>2 DEF JobsInv, DataOK, EndCheck, Passed, Exit
  <2>2. LoopNoted' /\ Agreed'
    BY <1>2 DEF JobsInv, LoopNoted, Agreed, Applied, EndCheck, Passed, Exit
  <2>3. ToInstall(plan)' = ToInstall(plan)
    BY <1>2 DEF EndCheck, Passed, ToInstall, Selected, IsLocal
  <2>4. Fetchable'
    BY <1>2, <2>3 DEF JobsInv, Fetchable, Applied, EndCheck, Passed, Exit
  <2> QED BY <2>1, <2>2, <2>4 DEF JobsInv
<1> QED BY <1>1, <1>2 DEF EndCheck

\* The steps that leave the database and the plan alone.
LEMMA CheckInv ==
  ASSUME JobsInv,
         \/ StartCheck
         \/ \E p \in Items, f \in Files : CheckPath(p, f)
         \/ \E n \in Names : LoadFails(n)
  PROVE  JobsInv'
<1>1. /\ UNCHANGED <<db, cached, plan, needFetch, loop, hasConflicts, shown>>
      /\ pc \in {"startCheck", "check"} /\ pc' = "check"
  BY DEF StartCheck, CheckPath, LoadFails, jobs
<1>2. ToInstall(plan)' = ToInstall(plan)
  BY <1>1 DEF ToInstall, Selected, IsLocal
<1> QED BY <1>1, <1>2 DEF JobsInv, DataOK, LoopNoted, Agreed, Fetchable, Applied

LEMMA CommandInv ==
  ASSUME JobsInv,
         Agree \/ Decline \/ NothingToDo \/ FetchFails \/ Fetched \/ ExecuteFails \/ Executed
  PROVE  JobsInv'
<1>1. UNCHANGED <<db, cached, plan, needFetch>>
  BY DEF Agree, Decline, NothingToDo, FetchFails, Fetched, ExecuteFails, Executed, jobs
<1>2. ToInstall(plan)' = ToInstall(plan)
  BY <1>1 DEF ToInstall, Selected, IsLocal
<1>3. DataOK'
  BY <1>1 DEF JobsInv, DataOK, Agree, Decline, NothingToDo, FetchFails, Fetched, ExecuteFails,
     Executed, check
<1>4. LoopNoted' /\ Agreed'
  BY <1>1 DEF JobsInv, DataOK, LoopNoted, Agreed, Applied, Agree, Decline, NothingToDo,
     FetchFails, Fetched, ExecuteFails, Executed, Exit, check
<1>5. Fetchable'
  BY <1>1, <1>2 DEF JobsInv, DataOK, LoopNoted, Fetchable, Applied, Agree, Decline, NothingToDo,
     FetchFails, Fetched, ExecuteFails, Executed, Exit, check
<1> QED BY <1>3, <1>4, <1>5 DEF JobsInv

LEMMA FetchInv ==
  ASSUME JobsInv, NEW p \in Items, Fetch(p)
  PROVE  JobsInv'
<1>1. ToInstall(plan)' = ToInstall(plan) /\ cached \subseteq cached'
  BY DEF Fetch, jobs, ToInstall, Selected, IsLocal
<1> QED BY <1>1 DEF JobsInv, DataOK, LoopNoted, Agreed, Fetchable, Applied, Fetch, jobs, check

\* What a job does to the database.
LEMMA JobDone ==
  ASSUME JobsInv, NEW n \in Names, Install(n) \/ Delete(n) \/ RemoveForUpgrade(n)
  PROVE  /\ pc = "execute" /\ n \in Jobs(plan)
         /\ db' \in Databases
         /\ \E w \in {plan[n], None} : db'.ver = [db.ver EXCEPT ![n] = w]
         /\ UNCHANGED <<cached, plan, needFetch, loop, hasConflicts, pc, shown>>
<1>1. db \in Databases /\ plan[n] \in Versions \cup {None}
  BY DEF JobsInv, DataOK, Plans
<1>2. CASE Install(n)
  <2>1. plan[n] \in Versions /\ db' = Registered(db, n, plan[n])
    BY <1>1, <1>2 DEF Install
  <2> QED BY <1>1, <1>2, <2>1, RegisteredType DEF Install, jobs, check
<1>3. CASE Delete(n)
  BY <1>1, <1>3, UnregisteredType DEF Delete, jobs, check
<1>4. CASE RemoveForUpgrade(n)
  BY <1>1, <1>4, UnregisteredType DEF RemoveForUpgrade, jobs, check
<1> QED BY <1>2, <1>3, <1>4

LEMMA JobInv ==
  ASSUME JobsInv, NEW n \in Names, Install(n) \/ Delete(n) \/ RemoveForUpgrade(n)
  PROVE  JobsInv'
<1>1. PICK w \in {plan[n], None} : db'.ver = [db.ver EXCEPT ![n] = w]
  BY JobDone
<1>2. w \in Versions \cup {None}
  BY <1>1 DEF JobsInv, DataOK, Plans
<1>3. ToInstall(plan)' \subseteq ToInstall(plan)
  BY <1>1, <1>2, JobDone, JobShrinks DEF JobsInv, DataOK
<1> QED BY <1>3, JobDone DEF JobsInv, DataOK, LoopNoted, Agreed, Fetchable, Applied

LEMMA NextInv == JobsInv /\ [Next]_vars => JobsInv'
<1> SUFFICES ASSUME JobsInv, [Next]_vars PROVE JobsInv'
  OBVIOUS
<1>1. CASE \E t \in Plans : Solve(t)
  BY <1>1, SolveInv
<1>2. CASE SolveFails
  BY <1>2, SolveFailsInv
<1>3. CASE StartCheck \/ (\E p \in Items, f \in Files : CheckPath(p, f)) \/ (\E n \in Names : LoadFails(n))
  BY <1>3, CheckInv
<1>4. CASE EndCheck
  BY <1>4, EndCheckInv
<1>5. CASE Agree \/ Decline \/ NothingToDo \/ FetchFails \/ Fetched \/ ExecuteFails \/ Executed
  BY <1>5, CommandInv
<1>6. CASE \E p \in Items : Fetch(p)
  BY <1>6, FetchInv
<1>7. CASE \E n \in Names : Install(n) \/ Delete(n) \/ RemoveForUpgrade(n)
  BY <1>7, JobInv
<1>8. CASE UNCHANGED vars
  BY <1>8 DEF vars, JobsInv, DataOK, LoopNoted, Agreed, Fetchable, Applied, ToInstall, Selected,
       IsLocal
<1> QED BY <1>1, <1>2, <1>3, <1>4, <1>5, <1>6, <1>7, <1>8 DEF Next

\* The loop that a plan is in, and whether it has met a conflict, decide whether the
\* plan is the one that was shown and whether all of it is in the cache.
THEOREM Invariance == Spec => []JobsInv
<1>1. Init => JobsInv
  BY InitInv
<1>2. JobsInv /\ [Next]_vars => JobsInv'
  BY NextInv
<1> QED BY <1>1, <1>2, PTL DEF Spec

-----------------------------------------------------------------------------
(* The properties.                                                         *)

\* pkg_jobs_execute never meets a job whose archive has not been fetched, whatever
\* pkg_jobs_solve and pkg_jobs_apply have replaced the plan with.
THEOREM AllFetched == Spec => []FetchedBeforeUse
<1>1. JobsInv => FetchedBeforeUse
  BY DEF JobsInv, Fetchable, FetchedBeforeUse
<1> QED BY <1>1, Invariance, PTL

\* Whatever the solver, the check and the failures do, the command only makes changes
\* that its last summary showed.
THEOREM NothingUnseen == Spec => OnlyAgreedChanges
<1> DEFINE Seen == \A n \in Names : db'.ver[n] # db.ver[n] =>
                     shown # None /\ plan = shown /\ db'.ver[n] \in {shown[n], None}
<1>1. JobsInv /\ [Next]_vars => [Seen]_vars
  <2> SUFFICES ASSUME JobsInv, Next, NEW m \in Names, db'.ver[m] # db.ver[m]
               PROVE  shown # None /\ plan = shown /\ db'.ver[m] \in {shown[m], None}
    OBVIOUS
  <2>1. db' # db
    OBVIOUS
  <2>2. PICK n \in Names : Install(n) \/ Delete(n) \/ RemoveForUpgrade(n)
    BY <2>1 DEF Next, Solve, SolveFails, StartCheck, CheckPath, EndCheck, Agree, Decline,
       NothingToDo, FetchFails, Fetched, Fetch, LoadFails, ExecuteFails, Executed
  <2>3. shown = plan /\ shown # None
    BY <2>2, JobDone, JobsAssumption DEF JobsInv, DataOK, Agreed
  <2>4. PICK w \in {plan[n], None} : db'.ver = [db.ver EXCEPT ![n] = w]
    BY <2>2, JobDone
  <2>5. db.ver \in Plans
    BY DEF JobsInv, DataOK, Databases, Plans
  <2>6. m = n /\ db'.ver[m] = w
    BY <2>4, <2>5 DEF Plans
  <2> QED BY <2>3, <2>4, <2>6
<1> QED BY <1>1, Invariance, PTL DEF Spec, OnlyAgreedChanges

-----------------------------------------------------------------------------
(* Least elements.                                                         *)

\* A set of naturals has its least element.
LEMMA Least ==
  ASSUME NEW S \in SUBSET Nat, S # {}
  PROVE  Min(S) \in S /\ \A k \in S : Min(S) <= k
<1> DEFINE R == OpToRel(<, Nat)
<1>1. PICK m \in S : \A k \in S : ~(<<k, m>> \in R)
  <2>1. IsWellFoundedOn(R, Nat)
    BY NatLessThanWellFounded
  <2> HIDE DEF R
  <2> QED  BY <2>1, WFMin
<1>2. ASSUME NEW k \in S PROVE m <= k
  <2>1. <<k, m>> \notin R
    BY <1>1
  <2>2. k \in Nat /\ m \in Nat /\ (k < m => <<k, m>> \in R)
    BY DEF OpToRel
  <2> HIDE DEF R
  <2> QED  BY <2>1, <2>2
<1> QED  BY <1>2 DEF Min

-----------------------------------------------------------------------------
(* Conflicts and the tree.                                                 *)

ConflictsType == [Items -> SUBSET Items]

\* A chain that is registered keeps the type of the conflicts, and only adds to them.
LEMMA RegisterChainType ==
  ASSUME NEW c \in ConflictsType, NEW p, NEW q
  PROVE  /\ RegisterChain(c, p, q) \in ConflictsType
         /\ \A x \in Items : c[x] \subseteq RegisterChain(c, p, q)[x]
  BY DEF RegisterChain, ConflictsType

\* An item is a name with a version.
LEMMA ItemType ==
  ASSUME NEW p \in Items
  PROVE  p[1] \in Names /\ p[2] \in Versions /\ p = <<p[1], p[2]>>
  BY DEF Items

\* A package has a set of files.
LEMMA FilesType ==
  ASSUME NEW p \in Items
  PROVE  FilesOf[p[1]][p[2]] \in SUBSET Files
  BY ItemType, PackagesAssumption

\* What is to be checked of a name is a set of items with their paths.
LEMMA ToCheckType ==
  ASSUME NEW n
  PROVE  ToCheck(n) \in SUBSET (Items \X Files)
  BY DEF ToCheck

LEMMA StopOf ==
  ASSUME NEW p \in Items, NEW f \in Files, tree[f] \in Seq(Items)
  PROVE  \/ Stop(p, f) = 0 /\ Stops(p, f) = {}
         \/ /\ Stop(p, f) \in DOMAIN tree[f] /\ Stop(p, f) \in Stops(p, f)
            /\ \A j \in 1 .. Stop(p, f) - 1 : j \in DOMAIN tree[f] /\ j \notin Stops(p, f)
<1>1. DOMAIN tree[f] = 1 .. Len(tree[f]) /\ Len(tree[f]) \in Nat
  OBVIOUS
<1>2. Stops(p, f) \in SUBSET Nat /\ Stops(p, f) \subseteq DOMAIN tree[f]
  BY <1>1 DEF Stops
<1>3. CASE Stops(p, f) = {}
  BY <1>3 DEF Stop
<1>4. CASE Stops(p, f) # {}
  <2>1. Stop(p, f) = Min(Stops(p, f))
    BY <1>4 DEF Stop
  <2>2. Stop(p, f) \in Stops(p, f) /\ \A k \in Stops(p, f) : Stop(p, f) <= k
    BY <1>2, <1>4, <2>1, Least
  <2> HIDE DEF Items
  <2>3. Stop(p, f) \in 1 .. Len(tree[f])
    BY <1>1, <1>2, <2>2
  <2>4. \A j \in 1 .. Stop(p, f) - 1 : j \in 1 .. Len(tree[f]) /\ ~(Stop(p, f) <= j)
    BY <1>1, <2>3
  <2> QED  BY <1>1, <2>2, <2>3, <2>4
<1> QED  BY <1>3, <1>4

\* The walk of a path ends at an item, or nowhere.
LEMMA FoundOnType ==
  ASSUME NEW p \in Items, NEW f \in Files, tree[f] \in Seq(Items)
  PROVE  FoundOn(p, f) \in Seq(Items)
<1>1. Append(tree[f], p) \in Seq(Items)
  OBVIOUS
<1>2. ASSUME NEW i PROVE [tree[f] EXCEPT ![i] = p] \in Seq(Items)
  <2>1. tree[f] \in [1 .. Len(tree[f]) -> Items] /\ Len(tree[f]) \in Nat
    OBVIOUS
  <2>2. [tree[f] EXCEPT ![i] = p] \in [1 .. Len(tree[f]) -> Items]
    BY <2>1
  <2>3. \A n \in Nat : [1 .. n -> Items] \subseteq Seq(Items)
    OBVIOUS
  <2> QED  BY <2>1, <2>2, <2>3
<1> QED  BY <1>1, <1>2 DEF FoundOn

\* The visit of the tree keeps the types.
LEMMA AfterTreeType ==
  ASSUME conflicts \in ConflictsType, NEW p, NEW f
  PROVE  /\ AfterTree(p, f) \in ConflictsType
         /\ \A x \in Items : conflicts[x] \subseteq AfterTree(p, f)[x]
<1>1. AfterTree(p, f) = conflicts \/ AfterTree(p, f) = RegisterChain(conflicts, p, tree[f][Stop(p, f)])
  BY DEF AfterTree
<1> QED  BY <1>1, RegisterChainType

\* The visit of the local packages keeps the types.
LEMMA AfterLocalType ==
  ASSUME NEW c \in ConflictsType, NEW p, NEW f
  PROVE  /\ AfterLocal(c, p, f) \in ConflictsType
         /\ \A x \in Items : c[x] \subseteq AfterLocal(c, p, f)[x]
<1>1. AfterLocal(c, p, f) = c \/ AfterLocal(c, p, f) = RegisterChain(c, p, Local(db.owner[f]))
  BY DEF AfterLocal
<1> QED  BY <1>1, RegisterChainType

\* The types at the start.
LEMMA InitType == Init => TypeOK
<1> SUFFICES ASSUME Init PROVE TypeOK
  OBVIOUS
<1>1. cached \in SUBSET Items
  BY JobsAssumption DEF Init
<1>2. DataOK
  BY InitInv DEF JobsInv
<1>3. tree \in [Files -> Seq(Items)] /\ conflicts \in [Items -> SUBSET Items]
  BY DEF Init
<1> QED  BY <1>1, <1>2, <1>3 DEF Init, TypeOK, DataOK

\* The step of the check keeps the types.
LEMMA CheckPathType ==
  ASSUME TypeOK, NEW p \in Items, NEW f \in Files, CheckPath(p, f)
  PROVE  TypeOK'
<1>1. FoundOn(p, f) \in Seq(Items)
  BY FoundOnType DEF TypeOK
<1>2. tree' \in [Files -> Seq(Items)]
  BY <1>1 DEF TypeOK, CheckPath
<1>3. conflicts' \in [Items -> SUBSET Items]
  BY AfterTreeType, AfterLocalType DEF TypeOK, CheckPath, ConflictsType
<1> QED  BY <1>2, <1>3 DEF TypeOK, CheckPath, jobs

\* Every step keeps the types.
LEMMA TypeStep == TypeOK /\ JobsInv /\ [Next]_vars => TypeOK'
<1> SUFFICES ASSUME TypeOK, JobsInv, [Next]_vars PROVE TypeOK'
  OBVIOUS
<1>1. CASE \E t \in Plans : Solve(t)
  <2>1. loop' \in {"none", "solve", "apply"} /\ hasConflicts' \in BOOLEAN
        /\ pc' \in {"startCheck", "confirm"}
    BY <1>1 DEF TypeOK, Solve, AfterSolve
  <2>2. plan' \in Plans /\ solved' \in Nat /\ needFetch' \in BOOLEAN
    BY <1>1 DEF TypeOK, Solve
  <2> QED  BY <1>1, <2>1, <2>2 DEF TypeOK, Solve
<1>2. CASE SolveFails
  BY <1>2 DEF TypeOK, SolveFails, Exit, check, Databases, Plans
<1>3. CASE StartCheck
  <2>1. todo' \in SUBSET (Items \X Files)
    BY <1>3, ToCheckType DEF StartCheck
  <2> QED  BY <1>3, <2>1 DEF TypeOK, StartCheck, jobs
<1>4. CASE \E p \in Items, f \in Files : CheckPath(p, f)
  BY <1>4, CheckPathType
<1>5. CASE \E n \in Names : LoadFails(n)
  BY <1>5 DEF TypeOK, LoadFails, jobs
<1>6. CASE EndCheck
  BY <1>6 DEF TypeOK, EndCheck, Resolve, Passed, Exit, Databases, Plans
<1>7. CASE Agree \/ Decline \/ NothingToDo
  BY <1>7 DEF TypeOK, Agree, Decline, NothingToDo, Exit, jobs, check
<1>8. CASE FetchFails \/ Fetched \/ ExecuteFails \/ Executed
  BY <1>8 DEF TypeOK, FetchFails, Fetched, ExecuteFails, Executed, Exit, jobs, check
<1>9. CASE \E p \in Items : Fetch(p)
  BY <1>9 DEF TypeOK, Fetch, jobs, check
<1>10. ASSUME NEW n \in Names, Install(n) \/ Delete(n) \/ RemoveForUpgrade(n) PROVE TypeOK'
  BY <1>10, JobDone DEF TypeOK, Install, Delete, RemoveForUpgrade, jobs, check
<1>11. CASE UNCHANGED vars
  BY <1>11 DEF TypeOK, vars
<1> QED  BY <1>1, <1>2, <1>3, <1>4, <1>5, <1>6, <1>7, <1>8, <1>9, <1>10, <1>11 DEF Next

\* The variables keep their types, with any answers of the solver: a conflict has the
\* digest of an item, and the tree holds items.
THEOREM TypeCorrect == Spec => []TypeOK
<1>1. Init => TypeOK
  BY InitType
<1>2. TypeOK /\ JobsInv /\ [Next]_vars => TypeOK'
  BY TypeStep
<1> QED  BY <1>1, <1>2, Invariance, PTL DEF Spec

-----------------------------------------------------------------------------
(* What the check finds.                                                   *)

\* The database until the jobs are executed: as it was found.
Solving == pc \notin {"execute", "exit"}

\* No package was forced over another one: each owns all of its files.
Whole(d) == \A n \in Names : Installed(d, n) => FilesOf[n][d.ver[n]] \subseteq FilesOwned(d, n)

\* What the check works on: items that are in the cache and not installed, on paths of theirs.
TreeOK ==
  Solving => \A f \in Files : \A i \in DOMAIN tree[f] :
               LET x == tree[f][i]
               IN x \in cached /\ ~IsLocal(x) /\ f \in FilesOf[x[1]][x[2]]

Readable ==
  /\ Solving => \A p \in inspected : Loaded(p)
  /\ pc = "solve" /\ loop = "none" => inspected = {}
  /\ pc \in {"startCheck", "check"} => loop # "none"

\* A path of p has been compared with the items found on it before, and with the
\* installed packages, and there was nothing new.
Compared(p, f) ==
  \E i \in DOMAIN tree[f] :
    /\ tree[f][i][1] = p[1]
    /\ \A j \in 1 .. i - 1 : HasUid(conflicts, p, tree[f][j][1])
ComparedLocal(p, f) ==
  \A q \in Items : IsLocal(q) /\ q[1] # p[1] /\ f \in FilesOf[q[1]][q[2]] => HasUid(conflicts, q, p[1])
Checked ==
  pc = "check" /\ verdict # "conflict" =>
    \A p \in ToInstall(plan) \cap inspected : \A f \in FilesOf[p[1]][p[2]] :
      <<p, f>> \in todo \/ (Compared(p, f) /\ ComparedLocal(p, f))

\* No two items of a plan that has passed clash, but for those told of other versions.
Compatible ==
  \A p \in ToInstall(plan) \cap inspected, q \in Selected(plan) \cap inspected :
    p # q /\ Clash(p, q) => HasUid(conflicts, p, q[1]) \/ HasUid(conflicts, q, p[1])
Passes == pc \in {"confirm", "fetch", "execute"} => Compatible

\* The solver has kept the registered conflicts.
Apart ==
  pc \in {"startCheck", "confirm", "fetch", "execute"} \/ (pc = "check" /\ verdict # "conflict") =>
    \A p \in ToInstall(plan), q \in Selected(plan) : q \notin conflicts[p] /\ p \notin conflicts[q]

\* The plan is made of items of the universe.
InUniverse == Solving => \A p \in Selected(plan) : InChain(p[1], p[2])

\* What is still to be checked is in the cache and not installed.
TodoOK ==
  pc = "check" => \A t \in todo : t[1] \in cached /\ ~IsLocal(t[1]) /\ t[2] \in FilesOf[t[1][1]][t[1][2]]

ClashInv ==
  /\ Solving => Whole(db)
  /\ TreeOK /\ Readable /\ Checked /\ Passes /\ Apart /\ InUniverse /\ TodoOK

\* Two packages clash both ways.
LEMMA ClashSym ==
  ASSUME NEW x, NEW y, MayConflict(x, y)
  PROVE  MayConflict(y, x)
  BY DEF MayConflict, Clash

\* On the way round a chain there is a first foe, if there is one at all.
LEMMA FirstFoeExists ==
  ASSUME NEW x \in Items, NEW p \in Items, MayConflict(x, p)
  PROVE  \E y \in FirstFoe(x, p) : y \in Items /\ y[1] = p[1]
<1>1. \A v \in Versions : Position(v) \in 1 .. Len(ChainOrder)
  BY JobsAssumption DEF Position
<1>2. Len(ChainOrder) \in Nat
  BY JobsAssumption
<1>3. ASSUME NEW y \in Items
      PROVE  Steps(p, y) \in Nat
  <2>1. Position(p[2]) \in 1 .. Len(ChainOrder) /\ Position(y[2]) \in 1 .. Len(ChainOrder)
    BY <1>1, ItemType
  <2>2. \A m, n \in Nat, l \in Nat \ {0} : (m - n) % l \in Nat
    OBVIOUS
  <2> QED  BY <1>2, <2>1, <2>2 DEF Steps
<1> DEFINE S == {Steps(p, y) : y \in Foes(x, p)}
<1>4. Foes(x, p) \subseteq Items /\ p \in Foes(x, p)
  BY DEF Foes
<1>5. S \in SUBSET Nat /\ S # {}
  BY <1>3, <1>4
<1>6. PICK y \in Foes(x, p) : Steps(p, y) = Min(S)
  <2>1. Min(S) \in S
    BY <1>5, Least
  <2> QED  BY <2>1
<1>7. \A z \in Foes(x, p) : Min(S) <= Steps(p, z)
  <2> DEFINE m == Min(S)
  <2>1. \A k \in S : m <= k
    BY <1>5, Least
  <2> HIDE DEF m
  <2>2. \A z \in Foes(x, p) : m <= Steps(p, z)
    BY <2>1
  <2> QED  BY <2>2 DEF m
<1>8. y \in FirstFoe(x, p)
  BY <1>6, <1>7 DEF FirstFoe
<1> QED  BY <1>4, <1>6, <1>8 DEF Foes

\* Two items that clash are news, unless each has been told of the other's name.
LEMMA Registers ==
  ASSUME NEW c \in ConflictsType, NEW p \in Items, NEW q \in Items, MayConflict(p, q)
  PROVE  /\ ~HasUid(c, p, q[1]) => RegisterChain(c, p, q) # c
         /\ ~HasUid(c, q, p[1]) => RegisterChain(c, p, q) # c
<1>1. PICK y \in Items : y \in FirstFoe(p, q) /\ y[1] = q[1]
  BY FirstFoeExists
<1>2. PICK z \in Items : z \in FirstFoe(q, p) /\ z[1] = p[1]
  BY FirstFoeExists, ClashSym
<1>3. ASSUME ~HasUid(c, p, q[1])
      PROVE  y \in RegisterChain(c, p, q)[p] /\ y \notin c[p]
  BY <1>1, <1>3 DEF RegisterChain, HasUid
<1>4. ASSUME ~HasUid(c, q, p[1])
      PROVE  z \in RegisterChain(c, p, q)[q] /\ z \notin c[q]
  BY <1>2, <1>4 DEF RegisterChain, HasUid
<1> QED  BY <1>3, <1>4

\* A path that is visited without a new conflict.
LEMMA Quiet ==
  ASSUME TypeOK, NEW p \in Items, NEW f \in Files,
         AfterLocal(AfterTree(p, f), p, f) = conflicts
  PROVE  AfterTree(p, f) = conflicts /\ AfterLocal(conflicts, p, f) = conflicts
<1>1. conflicts \in ConflictsType
  BY DEF TypeOK, ConflictsType
<1>2. AfterTree(p, f) \in ConflictsType /\ \A x \in Items : conflicts[x] \subseteq AfterTree(p, f)[x]
  BY <1>1, AfterTreeType
<1>3. \A x \in Items : AfterTree(p, f)[x] \subseteq conflicts[x]
  BY <1>2, AfterLocalType
<1>4. \A x \in Items : AfterTree(p, f)[x] = conflicts[x]
  BY <1>2, <1>3
<1>5. AfterTree(p, f) = conflicts
  BY <1>1, <1>2, <1>4 DEF ConflictsType
<1> QED  BY <1>5

\* The path is in the tree, behind items that p has been told of.
LEMMA TreeVisit ==
  ASSUME TypeOK, Solving, TreeOK, NEW p \in Items, NEW f \in Files,
         p \in cached, ~IsLocal(p), f \in FilesOf[p[1]][p[2]], AfterTree(p, f) = conflicts
  PROVE  \E i \in DOMAIN FoundOn(p, f) :
           /\ FoundOn(p, f)[i][1] = p[1]
           /\ \A j \in 1 .. i - 1 : HasUid(conflicts, p, FoundOn(p, f)[j][1])
<1> DEFINE s == tree[f]
<1>1. s \in Seq(Items) /\ DOMAIN s = 1 .. Len(s) /\ Len(s) \in Nat
  BY DEF TypeOK
<1>2. conflicts \in ConflictsType
  BY DEF TypeOK, ConflictsType
<1>3. ASSUME NEW j \in DOMAIN s, j \notin Stops(p, f)
      PROVE  HasUid(conflicts, p, s[j][1])
  <2>1. s[j] \in Items /\ s[j] \in cached /\ ~IsLocal(s[j]) /\ f \in FilesOf[s[j][1]][s[j][2]]
    BY <1>1, <1>3 DEF TreeOK
  <2>2. MayConflict(p, s[j])
    BY <2>1 DEF MayConflict, Loaded, Clash
  <2>3. RegisterChain(conflicts, p, s[j]) # conflicts \/ HasUid(conflicts, p, s[j][1])
    BY <1>2, <2>1, <2>2, Registers
  <2>4. ~NewConflict(p, s[j])
    BY <1>3 DEF Stops
  <2> QED  BY <2>3, <2>4 DEF NewConflict
<1>4. CASE Stop(p, f) = 0
  <2>1. Stops(p, f) = {}
    BY <1>1, <1>4, StopOf
  <2>2. FoundOn(p, f) = Append(s, p)
    BY <1>4 DEF FoundOn
  <2>3. /\ DOMAIN Append(s, p) = 1 .. Len(s) + 1 /\ Append(s, p)[Len(s) + 1] = p
        /\ \A j \in 1 .. Len(s) : Append(s, p)[j] = s[j]
    BY <1>1
  <2>4. \A j \in 1 .. Len(s) : HasUid(conflicts, p, s[j][1])
    BY <1>1, <1>3, <2>1
  <2>5. Len(s) + 1 \in DOMAIN FoundOn(p, f) /\ (Len(s) + 1) - 1 = Len(s)
    BY <1>1, <2>2, <2>3
  <2> HIDE DEF s
  <2> QED  BY <2>2, <2>3, <2>4, <2>5
<1>5. CASE Stop(p, f) # 0
  <2> DEFINE i == Stop(p, f)
  <2>1. /\ i \in DOMAIN s /\ i \in Stops(p, f)
        /\ \A j \in 1 .. i - 1 : j \in DOMAIN s /\ j \notin Stops(p, f)
    BY <1>1, <1>5, StopOf
  <2>2. s[i][1] = p[1]
    <3>1. s[i][1] = p[1] \/ NewConflict(p, s[i])
      BY <2>1 DEF Stops
    <3>2. s[i][1] # p[1] => RegisterChain(conflicts, p, s[i]) = conflicts
      BY <1>5 DEF AfterTree
    <3> QED  BY <3>1, <3>2 DEF NewConflict
  <2>3. FoundOn(p, f) = [s EXCEPT ![i] = p]
    BY <1>5, <2>2 DEF FoundOn
  <2>4. i \in Nat /\ \A j \in 1 .. i - 1 : j # i
    BY <1>1, <2>1
  <2> HIDE DEF i
  <2>5. DOMAIN FoundOn(p, f) = DOMAIN s /\ FoundOn(p, f)[i] = p
    BY <2>1, <2>3
  <2>6. \A j \in 1 .. i - 1 : FoundOn(p, f)[j] = s[j]
    BY <2>1, <2>3, <2>4
  <2>7. \A j \in 1 .. i - 1 : HasUid(conflicts, p, s[j][1])
    BY <1>3, <2>1
  <2> QED  BY <2>1, <2>5, <2>6, <2>7
<1> QED  BY <1>4, <1>5

\* The installed packages with the path have been told of p.
LEMMA LocalVisit ==
  ASSUME TypeOK, Whole(db), NEW p \in Items, NEW f \in Files,
         p \in cached, ~IsLocal(p), f \in FilesOf[p[1]][p[2]],
         AfterLocal(conflicts, p, f) = conflicts
  PROVE  ComparedLocal(p, f)
<1> SUFFICES ASSUME NEW q \in Items, IsLocal(q), q[1] # p[1], f \in FilesOf[q[1]][q[2]],
                    ~HasUid(conflicts, q, p[1])
             PROVE  FALSE
  BY DEF ComparedLocal
<1>1. p[1] \in Names /\ q[1] \in Names /\ q[2] \in Versions /\ q = <<q[1], q[2]>>
  BY ItemType
<1>2. Local(q[1]) = q /\ Installed(db, q[1])
  BY <1>1, PackagesAssumption DEF IsLocal, Local, Installed
<1>3. db.owner[f] = q[1]
  BY <1>1, <1>2 DEF Whole, FilesOwned, IsLocal
<1>4. IsNewFile(p, f)
  BY <1>1, <1>3 DEF IsNewFile, Whole, FilesOwned
<1>5. q[1] # None
  BY <1>1, PackagesAssumption
<1>6. AfterLocal(conflicts, p, f) = RegisterChain(conflicts, p, q)
  BY <1>2, <1>3, <1>4, <1>5 DEF AfterLocal
<1>7. MayConflict(p, q)
  BY DEF MayConflict, Loaded, Clash
<1> QED  BY <1>6, <1>7, Registers DEF TypeOK, ConflictsType

\* Of two items of the plan on a path, the one that is behind has been told of the other.
LEMMA OneIsTold ==
  ASSUME TypeOK, NEW p \in Items, NEW q \in Items, NEW f \in Files,
         p[1] # q[1], Compared(p, f), Compared(q, f)
  PROVE  HasUid(conflicts, p, q[1]) \/ HasUid(conflicts, q, p[1])
<1>1. PICK i \in DOMAIN tree[f] : /\ tree[f][i][1] = p[1]
                                  /\ \A j \in 1 .. i - 1 : HasUid(conflicts, p, tree[f][j][1])
  BY DEF Compared
<1>2. PICK k \in DOMAIN tree[f] : /\ tree[f][k][1] = q[1]
                                  /\ \A j \in 1 .. k - 1 : HasUid(conflicts, q, tree[f][j][1])
  BY DEF Compared
<1>3. DOMAIN tree[f] = 1 .. Len(tree[f]) /\ Len(tree[f]) \in Nat
  BY DEF TypeOK
<1>4. i \in Nat \ {0} /\ k \in Nat \ {0} /\ i # k
  BY <1>1, <1>2, <1>3
<1>5. i \in 1 .. k - 1 \/ k \in 1 .. i - 1
  BY <1>4
<1> QED  BY <1>1, <1>2, <1>5

-----------------------------------------------------------------------------
(* The invariant of the check is inductive.                                *)

\* The items of a path stay in their order: one is replaced by another of its name,
\* or one is appended.
LEMMA TreeStable ==
  ASSUME TypeOK, NEW p \in Items, NEW f \in Files
  PROVE  \A i \in DOMAIN tree[f] : i \in DOMAIN FoundOn(p, f) /\ FoundOn(p, f)[i][1] = tree[f][i][1]
<1> DEFINE s == tree[f]
<1>1. s \in Seq(Items) /\ DOMAIN s = 1 .. Len(s) /\ Len(s) \in Nat
  BY DEF TypeOK
<1>2. CASE FoundOn(p, f) = Append(s, p)
  BY <1>1, <1>2
<1>3. CASE FoundOn(p, f) = s
  BY <1>3
<1>4. ASSUME NEW k, FoundOn(p, f) = [s EXCEPT ![k] = p], s[k][1] = p[1]
      PROVE  \A i \in DOMAIN s : i \in DOMAIN FoundOn(p, f) /\ FoundOn(p, f)[i][1] = s[i][1]
  <2> HIDE DEF s
  <2> QED  BY <1>1, <1>4
<1> QED  BY <1>2, <1>3, <1>4 DEF FoundOn

\* What is found on a path of p is in the cache and not installed.
LEMMA FoundKnown ==
  ASSUME TypeOK, Solving, TreeOK, NEW p \in Items, NEW f \in Files,
         p \in cached, ~IsLocal(p), f \in FilesOf[p[1]][p[2]]
  PROVE  \A i \in DOMAIN FoundOn(p, f) :
           LET x == FoundOn(p, f)[i]
           IN x \in cached /\ ~IsLocal(x) /\ f \in FilesOf[x[1]][x[2]]
<1> DEFINE s == tree[f]
           Fit(x) == x \in cached /\ ~IsLocal(x) /\ f \in FilesOf[x[1]][x[2]]
<1>1. s \in Seq(Items) /\ DOMAIN s = 1 .. Len(s) /\ Len(s) \in Nat
  BY DEF TypeOK
<1>2. \A i \in DOMAIN s : Fit(s[i])
  BY DEF TreeOK
<1>3. Fit(p)
  OBVIOUS
<1> HIDE DEF s, Fit
<1>4. CASE FoundOn(p, f) = Append(s, p)
  <2>1. \A i \in DOMAIN Append(s, p) :
          \/ Append(s, p)[i] = p
          \/ i \in DOMAIN s /\ Append(s, p)[i] = s[i]
    BY <1>1
  <2> QED  BY <1>2, <1>3, <1>4, <2>1 DEF Fit
<1>5. CASE FoundOn(p, f) = s
  BY <1>2, <1>5 DEF Fit
<1>6. ASSUME NEW k, FoundOn(p, f) = [s EXCEPT ![k] = p]
      PROVE  \A i \in DOMAIN FoundOn(p, f) : Fit(FoundOn(p, f)[i])
  <2>1. \A i \in DOMAIN FoundOn(p, f) :
          \/ FoundOn(p, f)[i] = p
          \/ i \in DOMAIN s /\ FoundOn(p, f)[i] = s[i]
    BY <1>1, <1>6
  <2> QED  BY <1>2, <1>3, <2>1
<1> QED  BY <1>4, <1>5, <1>6 DEF FoundOn, s, Fit

\* Items of a plan with one name are one item.
LEMMA OnePerName ==
  ASSUME NEW p \in Selected(plan), NEW q \in Selected(plan), p # q
  PROVE  p \in Items /\ q \in Items /\ p[1] # q[1]
  BY DEF Selected, Items

\* At the start nothing is planned, inspected or in the tree.
LEMMA InitClash ==
  ASSUME \A d \in Databases0 : Whole(d)
  PROVE  Init => ClashInv
  BY DEF Init, ClashInv, TodoOK, TreeOK, Readable, Checked, Passes, Apart, Whole,
     InUniverse, Selected, InChain, ToInstall

\* A new solution is a plan whose conflicts the solver has seen.
LEMMA SolveClash ==
  ASSUME TypeOK, JobsInv, ClashInv, NEW t \in Plans, Solve(t)
  PROVE  ClashInv'
<1>1. /\ UNCHANGED <<db, cached, conflicts, tree, inspected>> /\ plan' = t /\ Solving /\ Solving'
      /\ pc' \in {"startCheck", "confirm"}
      /\ pc' = "startCheck" => loop' # "none"
      /\ pc' = "confirm" => loop = "none" /\ pc = "solve"
  BY DEF Solve, AfterSolve, Solving
<1>2. Apart'
  <2>1. \A p, q \in Selected(t) : q \notin conflicts[p]
    BY DEF Solve, Allowed
  <2>2. ToInstall(plan)' \subseteq Selected(t) /\ Selected(plan)' = Selected(t)
    BY <1>1 DEF ToInstall, Selected
  <2> QED  BY <1>1, <2>1, <2>2 DEF Apart
<1>3. Passes'
  BY <1>1 DEF ClashInv, Readable, Passes, Compatible
<1>4. TreeOK' /\ Readable'
  BY <1>1 DEF ClashInv, TreeOK, Readable, IsLocal, Loaded
<1>5. InUniverse'
  BY <1>1 DEF Solve, Allowed, InUniverse, Selected, InChain
<1> QED  BY <1>1, <1>2, <1>3, <1>4, <1>5 DEF ClashInv, Whole, Checked, TodoOK

\* No solution: the command is over.
LEMMA SolveFailsClash ==
  ASSUME TypeOK, JobsInv, ClashInv, SolveFails
  PROVE  ClashInv'
<1>1. /\ UNCHANGED <<db, cached, conflicts, tree, inspected>> /\ Solving
      /\ pc' \in {"startCheck", "exit"} /\ (pc' = "startCheck" => loop' # "none")
  BY DEF SolveFails, Exit, check, Solving
<1>2. ToInstall(plan)' = {}
  BY DEF SolveFails, ToInstall, Selected, IsLocal
<1>3. InUniverse'
  BY <1>1 DEF SolveFails, InUniverse, Selected, InChain
<1> QED  BY <1>1, <1>2, <1>3 DEF ClashInv, TreeOK, Readable, Checked, Passes, Apart, TodoOK,
     Solving,
     IsLocal, Loaded, Whole

\* A check starts with an empty tree and every job to visit.
LEMMA StartCheckClash ==
  ASSUME TypeOK, ClashInv, StartCheck
  PROVE  ClashInv'
<1>1. /\ UNCHANGED <<db, cached, plan, conflicts, tree, loop>> /\ Solving /\ Solving'
      /\ pc = "startCheck" /\ pc' = "check"
      /\ todo' = UNION {ToCheck(p[1]) : p \in ToInstall(plan)}
      /\ inspected' = {p \in Items : Loaded(p)}
  BY DEF StartCheck, jobs, Solving
<1>2. ToInstall(plan)' = ToInstall(plan) /\ Selected(plan)' = Selected(plan)
  BY <1>1 DEF ToInstall, Selected, IsLocal
<1>3. TodoOK'
  BY <1>1 DEF TodoOK, ToCheck, IsLocal
<1>4. Checked'
  <2> SUFFICES ASSUME NEW p \in ToInstall(plan), p \in inspected', NEW f \in FilesOf[p[1]][p[2]]
               PROVE  <<p, f>> \in todo'
    BY <1>2 DEF Checked
  <2>1. p \in Items /\ p \in cached /\ ~IsLocal(p) /\ f \in Files
    BY <1>1, FilesType DEF ToInstall, Selected, Loaded
  <2>2. p[1] \in Names /\ p = <<p[1], p[2]>> /\ p[2] = plan[p[1]]
    BY <2>1, ItemType DEF ToInstall, Selected
  <2>3. InChain(p[1], p[2])
    BY <1>1 DEF ClashInv, InUniverse, ToInstall
  <2>4. <<p, f>> \in ToCheck(p[1])
    BY <2>1, <2>2, <2>3 DEF ToCheck
  <2> QED  BY <1>1, <2>4
<1>5. TreeOK' /\ Readable' /\ Passes' /\ Apart' /\ InUniverse'
  BY <1>1, <1>2 DEF ClashInv, TreeOK, Readable, Passes, Apart, InUniverse, InChain, IsLocal, Loaded
<1> QED  BY <1>1, <1>3, <1>4, <1>5 DEF ClashInv, Whole

\* One path of one item: what is told stays told, and the path joins those checked.
LEMMA CheckPathClash ==
  ASSUME TypeOK, ClashInv, NEW p \in Items, NEW f \in Files, CheckPath(p, f)
  PROVE  ClashInv'
<1>1. /\ UNCHANGED <<db, cached, plan, loop, inspected>> /\ Solving /\ Solving'
      /\ pc = "check" /\ pc' = "check" /\ todo' = todo \ {<<p, f>>} /\ <<p, f>> \in todo
      /\ tree' = [tree EXCEPT ![f] = FoundOn(p, f)]
      /\ conflicts' = AfterLocal(AfterTree(p, f), p, f)
      /\ verdict' = IF conflicts' # conflicts THEN "conflict" ELSE verdict
  BY DEF CheckPath, jobs, Solving, IsNext
<1>2. ToInstall(plan)' = ToInstall(plan) /\ Selected(plan)' = Selected(plan)
  BY <1>1 DEF ToInstall, Selected, IsLocal
<1>3. p \in cached /\ ~IsLocal(p) /\ f \in FilesOf[p[1]][p[2]]
  <2>1. LET t == <<p, f>>
        IN t[1] \in cached /\ ~IsLocal(t[1]) /\ t[2] \in FilesOf[t[1][1]][t[1][2]]
    BY <1>1 DEF ClashInv, TodoOK
  <2> QED  BY <2>1
<1>4. tree \in [Files -> Seq(Items)]
  BY DEF TypeOK
<1>5. tree'[f] = FoundOn(p, f) /\ \A g \in Files : g # f => tree'[g] = tree[g]
  BY <1>1, <1>4
<1>6. TreeOK'
  <2>1. \A i \in DOMAIN FoundOn(p, f) :
           LET x == FoundOn(p, f)[i]
           IN x \in cached /\ ~IsLocal(x) /\ f \in FilesOf[x[1]][x[2]]
    BY <1>1, <1>3, FoundKnown DEF ClashInv
  <2> QED  BY <1>1, <1>5, <2>1 DEF ClashInv, TreeOK, IsLocal
<1>7. CASE conflicts' # conflicts
  <2>1. verdict' = "conflict"
    BY <1>1, <1>7
  <2> QED  BY <1>1, <1>2, <1>6, <2>1 DEF ClashInv, Whole, Readable, Checked, Passes, Apart,
       InUniverse,
     InChain, TodoOK, IsLocal, Loaded
<1>8. CASE conflicts' = conflicts
  <2>1. verdict' = verdict
    BY <1>1, <1>8
  <2>2. AfterTree(p, f) = conflicts /\ AfterLocal(conflicts, p, f) = conflicts
    BY <1>1, <1>8, Quiet
  <2>3. Compared(p, f)'
    <3>1. \E i \in DOMAIN FoundOn(p, f) :
            /\ FoundOn(p, f)[i][1] = p[1]
            /\ \A j \in 1 .. i - 1 : HasUid(conflicts, p, FoundOn(p, f)[j][1])
      BY <1>1, <1>3, <2>2, TreeVisit DEF ClashInv
    <3> QED  BY <1>5, <1>8, <3>1 DEF Compared
  <2>4. ComparedLocal(p, f)
    BY <1>1, <1>3, <2>2, LocalVisit DEF ClashInv
  <2>5. ASSUME NEW q \in Items, NEW g \in Files, Compared(q, g)
        PROVE  Compared(q, g)'
    <3>1. \A i \in DOMAIN tree[g] : i \in DOMAIN tree'[g] /\ tree'[g][i][1] = tree[g][i][1]
      BY <1>5, TreeStable
    <3>2. PICK i \in DOMAIN tree[g] : /\ tree[g][i][1] = q[1]
                                      /\ \A j \in 1 .. i - 1 : HasUid(conflicts, q, tree[g][j][1])
      BY <2>5 DEF Compared
    <3>3. DOMAIN tree[g] = 1 .. Len(tree[g]) /\ Len(tree[g]) \in Nat
      BY <1>4
    <3>4. \A j \in 1 .. i - 1 : j \in DOMAIN tree[g]
      BY <3>3
    <3> QED  BY <1>8, <3>1, <3>2, <3>4 DEF Compared
  <2>6. ASSUME NEW q, NEW g, ComparedLocal(q, g)
        PROVE  ComparedLocal(q, g)'
    BY <1>1, <1>8, <2>6 DEF ComparedLocal, IsLocal
  <2>7. Checked'
    <3> SUFFICES ASSUME verdict # "conflict", NEW q \in ToInstall(plan), q \in inspected,
                        NEW g \in FilesOf[q[1]][q[2]], <<q, g>> \notin todo'
                 PROVE  Compared(q, g)' /\ ComparedLocal(q, g)'
      BY <1>1, <1>2, <2>1 DEF Checked
    <3>1. q \in Items /\ g \in Files
      BY FilesType DEF ToInstall, Selected
    <3>2. CASE q = p /\ g = f
      BY <2>3, <2>4, <2>6, <3>2
    <3>3. CASE ~(q = p /\ g = f)
      <4>1. <<q, g>> \notin todo
        BY <1>1, <3>3
      <4>2. Compared(q, g) /\ ComparedLocal(q, g)
        BY <1>1, <4>1 DEF ClashInv, Checked
      <4> QED  BY <2>5, <2>6, <3>1, <4>2
    <3> QED  BY <3>2, <3>3
  <2> QED  BY <1>1, <1>2, <1>6, <1>8, <2>1, <2>7 DEF ClashInv, Whole, Readable, Passes, Apart,
       InUniverse,
     InChain, TodoOK, IsLocal, Loaded
<1> QED  BY <1>7, <1>8

\* A chain that is passed over is not inspected.
LEMMA LoadFailsClash ==
  ASSUME TypeOK, ClashInv, NEW n \in Names, LoadFails(n)
  PROVE  ClashInv'
<1>1. /\ UNCHANGED <<db, cached, plan, loop, conflicts, tree>> /\ Solving /\ Solving'
      /\ pc = "check" /\ pc' = "check" /\ todo' = todo \ ToCheck(n)
      /\ inspected' = {p \in inspected : p[1] # n}
      /\ verdict' # "conflict" => verdict # "conflict"
  BY DEF LoadFails, jobs, Solving
<1>2. ToInstall(plan)' = ToInstall(plan) /\ Selected(plan)' = Selected(plan)
  BY <1>1 DEF ToInstall, Selected, IsLocal
<1>3. Checked'
  <2> SUFFICES ASSUME verdict # "conflict", NEW q \in ToInstall(plan), q \in inspected, q[1] # n,
                      NEW g \in FilesOf[q[1]][q[2]], <<q, g>> \notin todo'
               PROVE  Compared(q, g) /\ ComparedLocal(q, g)
    BY <1>1, <1>2 DEF Checked, Compared, ComparedLocal, IsLocal
  <2>1. <<q, g>> \notin ToCheck(n)
    BY DEF ToCheck
  <2>2. <<q, g>> \notin todo
    BY <1>1, <2>1
  <2> QED  BY <1>1, <2>2 DEF ClashInv, Checked
<1> QED  BY <1>1, <1>2, <1>3 DEF ClashInv, Whole, TreeOK, Readable, Passes, Apart, InUniverse,
     InChain, TodoOK, IsLocal, Loaded

\* A check that has visited all there is leaves a plan that has passed.
LEMMA AllChecked ==
  ASSUME TypeOK, ClashInv, pc = "check", todo = {}, verdict # "conflict"
  PROVE  Compatible
<1> SUFFICES ASSUME NEW p \in ToInstall(plan), p \in inspected,
                    NEW q \in Selected(plan), q \in inspected, p # q, Clash(p, q)
             PROVE  HasUid(conflicts, p, q[1]) \/ HasUid(conflicts, q, p[1])
  BY DEF Compatible
<1>1. p \in Items /\ q \in Items /\ p[1] # q[1]
  BY OnePerName DEF ToInstall
<1>2. PICK f : f \in FilesOf[p[1]][p[2]] /\ f \in FilesOf[q[1]][q[2]]
  BY DEF Clash
<1>3. f \in Files
  BY <1>1, <1>2, FilesType
<1>4. Compared(p, f) /\ ComparedLocal(p, f)
  BY <1>2 DEF ClashInv, Checked
<1>5. CASE IsLocal(q)
  BY <1>1, <1>2, <1>4, <1>5 DEF ComparedLocal
<1>6. CASE ~IsLocal(q)
  <2>1. q \in ToInstall(plan)
    BY <1>6 DEF ToInstall
  <2>2. Compared(q, f)
    BY <1>2, <2>1 DEF ClashInv, Checked
  <2> QED  BY <1>1, <1>3, <1>4, <2>2, OneIsTold
<1> QED  BY <1>5, <1>6

\* The end of a check: the plan has passed, or another solution is asked for.
LEMMA EndCheckClash ==
  ASSUME TypeOK, JobsInv, ClashInv, EndCheck
  PROVE  ClashInv'
<1>1. UNCHANGED <<db, cached, conflicts, tree, inspected>> /\ Solving /\ pc = "check"
  BY DEF EndCheck, Solving
<1>2. CASE Resolve
  <2>1. pc' = "solve" /\ loop' # "none"
    BY <1>1, <1>2 DEF EndCheck, Resolve, ClashInv, Readable
  <2>2. InUniverse'
    BY <1>1, <1>2 DEF Resolve, InUniverse, Selected, InChain
  <2> QED  BY <1>1, <2>1, <2>2 DEF ClashInv, Whole, TreeOK, Readable, Checked, Passes, Apart,
       TodoOK,
     Solving, IsLocal, Loaded
<1>3. CASE Passed
  <2>1. pc' \in {"confirm", "execute", "exit"} /\ plan' = plan /\ verdict # "conflict" /\ todo = {}
    BY <1>3 DEF EndCheck, Passed, Exit
  <2>2. ToInstall(plan)' = ToInstall(plan) /\ Selected(plan)' = Selected(plan)
    BY <1>1, <2>1 DEF ToInstall, Selected, IsLocal
  <2>3. Compatible'
    BY <1>1, <2>1, <2>2, AllChecked DEF Compatible
  <2>4. Apart'
    BY <1>1, <2>1, <2>2 DEF ClashInv, Apart
  <2>5. TreeOK' /\ Readable' /\ InUniverse'
    BY <1>1, <2>1, <2>2 DEF ClashInv, TreeOK, Readable, InUniverse, InChain, Solving, IsLocal,
         Loaded
  <2> QED  BY <1>1, <2>1, <2>3, <2>4, <2>5 DEF ClashInv, Whole, Checked, Passes, TodoOK, Solving
<1> QED  BY <1>2, <1>3 DEF EndCheck

\* The steps of the command that touch neither the plan nor the conflicts.
LEMMA CommandClash ==
  ASSUME TypeOK, JobsInv, ClashInv,
         \/ Agree \/ Decline \/ NothingToDo \/ FetchFails \/ Fetched \/ ExecuteFails \/ Executed
         \/ \E p \in Items : Fetch(p)
  PROVE  ClashInv'
<1>1. /\ UNCHANGED <<db, plan, conflicts, tree, inspected>> /\ cached \subseteq cached'
      /\ Solving' => Solving
      /\ pc' \in {"fetch", "execute", "startCheck", "exit"}
      /\ pc' # "exit" => pc \in {"confirm", "fetch"}
      /\ pc' = "startCheck" => loop' # "none"
  BY DEF Agree, Decline, NothingToDo, FetchFails, Fetched, ExecuteFails, Executed, Fetch, Exit,
     jobs, check, Solving
<1>2. ToInstall(plan)' = ToInstall(plan) /\ Selected(plan)' = Selected(plan)
  BY <1>1 DEF ToInstall, Selected, IsLocal
<1>3. Passes' /\ Apart'
  BY <1>1, <1>2 DEF ClashInv, Passes, Compatible, Apart
<1>4. TreeOK' /\ Readable' /\ InUniverse'
  BY <1>1, <1>2 DEF ClashInv, TreeOK, Readable, InUniverse, InChain, IsLocal, Loaded
<1> QED  BY <1>1, <1>3, <1>4 DEF ClashInv, Whole, Checked, TodoOK

\* A job that is done takes items from those to install.
LEMMA JobClash ==
  ASSUME TypeOK, JobsInv, ClashInv, NEW n \in Names, Install(n) \/ Delete(n) \/ RemoveForUpgrade(n)
  PROVE  ClashInv'
<1>1. pc = "execute" /\ UNCHANGED <<pc, plan, cached, conflicts, inspected>>
  BY JobDone DEF Install, Delete, RemoveForUpgrade, check
<1>2. PICK w \in {plan[n], None} : db'.ver = [db.ver EXCEPT ![n] = w]
  BY JobDone
<1>3. w \in Versions \cup {None}
  BY <1>2 DEF JobsInv, DataOK, Plans
<1>4. ToInstall(plan)' \subseteq ToInstall(plan)
  BY <1>2, <1>3, JobDone, JobShrinks DEF JobsInv, DataOK
<1>5. Selected(plan)' = Selected(plan)
  BY <1>1 DEF Selected
<1>6. Passes' /\ Apart'
  BY <1>1, <1>4, <1>5 DEF ClashInv, Passes, Compatible, Apart
<1> QED  BY <1>1, <1>6 DEF ClashInv, Whole, TreeOK, Readable, Checked, InUniverse, TodoOK, Solving

\* Every step keeps the invariant of the check.
LEMMA ClashStep == TypeOK /\ JobsInv /\ ClashInv /\ [Next]_vars => ClashInv'
<1> SUFFICES ASSUME TypeOK, JobsInv, ClashInv, [Next]_vars PROVE ClashInv'
  OBVIOUS
<1>1. CASE (\E t \in Plans : Solve(t)) \/ SolveFails \/ StartCheck
  BY <1>1, SolveClash, SolveFailsClash, StartCheckClash
<1>2. CASE (\E p \in Items, f \in Files : CheckPath(p, f)) \/ (\E n \in Names : LoadFails(n)) \/ EndCheck
  BY <1>2, CheckPathClash, LoadFailsClash, EndCheckClash
<1>3. CASE \/ Agree \/ Decline \/ NothingToDo \/ FetchFails \/ Fetched \/ ExecuteFails \/ Executed
           \/ \E p \in Items : Fetch(p)
  BY <1>3, CommandClash
<1>4. CASE \E n \in Names : Install(n) \/ Delete(n) \/ RemoveForUpgrade(n)
  BY <1>4, JobClash
<1>5. CASE UNCHANGED vars
  BY <1>5 DEF vars, ClashInv, Whole, TreeOK, Readable, Checked, Compared, ComparedLocal, Passes,
       Compatible,
     Apart, InUniverse, InChain, TodoOK, Solving, ToInstall, Selected, IsLocal, Loaded
<1> QED  BY <1>1, <1>2, <1>3, <1>4, <1>5 DEF Next

\* On a system where no package was forced over another one, with any catalogue, cache,
\* order of the chains, answers of the solver and failures: two packages of the plan that
\* is executed share a file only if one could not be read when the plan was checked, or
\* was given its conflict with the other's name for another version.
THEOREM ClashesFound ==
  ASSUME \A d \in Databases0 : Whole(d)
  PROVE  Spec => []ReadableClashesFound
<1>1. Init => ClashInv
  BY InitClash
<1>2. TypeOK /\ JobsInv /\ ClashInv /\ [Next]_vars => ClashInv'
  BY ClashStep
<1>3. ClashInv => ReadableClashesFound
  BY DEF ClashInv, Passes, Compatible, Apart, ReadableClashesFound
<1> QED  BY <1>1, <1>2, <1>3, Invariance, TypeCorrect, PTL DEF Spec
=============================================================================
