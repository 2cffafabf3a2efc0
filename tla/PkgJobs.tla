------------------------------ MODULE PkgJobs -------------------------------
(***************************************************************************)
(* One run of install or upgrade (src/install.c 233-262): solve, check the *)
(* plan for file conflicts, solve again, ask, fetch, check again, execute. *)
(* libpkg/pkg_jobs.c holds the loop, libpkg/pkg_jobs_conflicts.c the check.*)
(*                                                                         *)
(* Files of a package that is not installed are known only when its        *)
(* archive is in the cache, so the check has to be made before and after   *)
(* fetching, and every conflict it finds changes the plan.                 *)
(*                                                                         *)
(* An item is a name and a version.  The chain of a name is what the       *)
(* universe holds of it: the installed version and all that the catalogues *)
(* offer.  A plan is the version each name is to have; the jobs are the    *)
(* names whose version it changes.  The solver is not modelled: its answer *)
(* is any plan without a conflict that was registered before it was asked. *)
(***************************************************************************)
EXTENDS Packages, Naturals, Sequences, FiniteSetsExt

CONSTANTS
  Available,      \* the items that the catalogues offer
  ChainOrder,     \* all versions, in the order items join a chain
  Databases0,     \* databases to start from
  Caches0,        \* items with an archive in the cache at first
  Forced,          \* install -f
  Failures        \* what may fail: "solve", "load", "fetch", "execute"

Items == Names \X Versions
Plans == [Names -> Versions \cup {None}]
Clash(p, q) == FilesOf[p[1]][p[2]] \cap FilesOf[q[1]][q[2]] # {}

ASSUME JobsAssumption ==
  /\ Available \subseteq Items /\ None \notin Plans
  /\ ChainOrder \in Seq(Versions) /\ \A v \in Versions : \E i \in DOMAIN ChainOrder : ChainOrder[i] = v
  /\ Databases0 \subseteq Databases
  /\ Caches0 \subseteq SUBSET Available
  /\ Forced \in BOOLEAN
  /\ Failures \subseteq {"solve", "load", "fetch", "execute"}

VARIABLES
  db,             \* local.sqlite
  cached,         \* items with an archive in the cache
  plan,           \* j->jobs, as the version each name is to have
  solved,         \* j->solved
  needFetch,      \* j->need_fetch
  conflicts,      \* pkg->conflicts of each item, with the digest each was registered for
  tree,           \* j->conflict_items: for each path the items found on it
  pc,
  loop,           \* which loop runs the check: in pkg_jobs_solve or in pkg_jobs_apply
  hasConflicts,   \* has_conflicts of that loop
  todo,           \* items and paths the check has still to visit
  verdict,        \* what pkg_jobs_check_conflicts is to return
  shown,          \* the plan the user has agreed to, or None
  exit,           \* the exit status
  inspected       \* history: the items whose files the last check could read

vars == <<db, cached, plan, solved, needFetch, conflicts, tree, pc, loop, hasConflicts, todo,
          verdict, shown, exit, inspected>>
jobs == <<plan, solved, needFetch>>
check == <<conflicts, tree, loop, hasConflicts, todo, verdict, inspected>>

-----------------------------------------------------------------------------
IsLocal(p) == db.ver[p[1]] = p[2]
Local(n) == <<n, db.ver[n]>>
Loaded(p) == IsLocal(p) \/ p \in cached

InChain(n, v) == <<n, v>> \in Available \/ db.ver[n] = v

Selected(t) == {p \in Items : t[p[1]] = p[2]}
Jobs(t) == {n \in Names : t[n] # db.ver[n]}
ToInstall(t) == {p \in Selected(t) : ~IsLocal(p)}

TypeOK ==
  /\ db \in Databases /\ cached \in SUBSET Items
  /\ plan \in Plans /\ solved \in Nat /\ needFetch \in BOOLEAN
  /\ conflicts \in [Items -> SUBSET Items] /\ tree \in [Files -> Seq(Items)]
  /\ pc \in {"solve", "startCheck", "check", "confirm", "fetch", "execute", "exit"}
  /\ loop \in {"none", "solve", "apply"} /\ hasConflicts \in BOOLEAN
  /\ todo \in SUBSET (Items \X Files)
  /\ verdict \in {"ok", "fatal", "conflict"}
  /\ shown \in Plans \cup {None} /\ exit \in {"none", "ok", "fail"}
  /\ inspected \in SUBSET Items

Init ==
  /\ db \in Databases0 /\ cached \in Caches0
  /\ plan = db.ver /\ solved = 0 /\ needFetch = FALSE
  /\ conflicts = [p \in Items |-> {}] /\ tree = [f \in Files |-> <<>>]
  /\ pc = "solve" /\ loop = "none" /\ hasConflicts = FALSE
  /\ todo = {} /\ verdict = "ok"
  /\ shown = None /\ exit = "none" /\ inspected = {}

Exit(status) == pc' = "exit" /\ exit' = status

-----------------------------------------------------------------------------
(* pkg_jobs_solve.                                                         *)

\* pkg_solve_add_chain_rule and pkg_solve_add_conflict_rule
Allowed(t) ==
  /\ \A p \in Selected(t) : InChain(p[1], p[2])
  /\ \A p, q \in Selected(t) : q \notin conflicts[p]

\* A nested call returns to the loop; the first one starts a loop of its own.
AfterSolve ==
  IF loop # "none" THEN pc' = "startCheck" /\ UNCHANGED <<loop, hasConflicts>>
  ELSE IF solved' = 1 /\ ~needFetch' THEN pc' = "startCheck" /\ loop' = "solve" /\ hasConflicts' = FALSE
  ELSE pc' = "confirm" /\ UNCHANGED <<loop, hasConflicts>>

\* Mutant: only the first solution decides whether to fetch.
Solve_FirstFetch(t) ==
  /\ pc = "solve" /\ Allowed(t)
  /\ plan' = t
  /\ solved' = solved + 1
  /\ needFetch' = (needFetch \/ (solved = 0 /\ \E p \in ToInstall(t) : ~Loaded(p)))
  /\ AfterSolve
  /\ UNCHANGED <<db, cached, conflicts, tree, todo, verdict, inspected, shown, exit>>

Solve(t) ==
  /\ pc = "solve" /\ Allowed(t)
  /\ plan' = t
  /\ solved' = solved + 1
  /\ needFetch' = (needFetch \/ \E p \in ToInstall(t) : ~Loaded(p))
  /\ AfterSolve
  /\ UNCHANGED <<db, cached, conflicts, tree, todo, verdict, inspected, shown, exit>>

\* An external solver fails, or the problem cannot be stated, which resets the
\* counter.  The loops do not look at what the nested call returns.
SolveFails ==
  /\ "solve" \in Failures
  /\ pc = "solve"
  /\ plan' = db.ver
  /\ solved' \in {0, solved + 1}
  /\ IF loop = "none" THEN Exit("fail") ELSE pc' = "startCheck" /\ UNCHANGED exit
  /\ UNCHANGED <<db, cached, needFetch, check, shown>>

-----------------------------------------------------------------------------
(* pkg_jobs_check_conflicts.  The items of the chains of the packages to   *)
(* install are compared, path by path, with the items met before and with  *)
(* the installed packages.                                                 *)

HasUid(c, p, n) == \E q \in c[p] : q[1] = n

\* pkg_conflicts_need_conflict, but for the conflicts that are already registered.
MayConflict(p, q) ==
  /\ Loaded(p) /\ Loaded(q) /\ ~(IsLocal(p) /\ IsLocal(q))
  /\ Clash(p, q)

\* How far y is from p in the chain of both, backwards round the circle of prev pointers.
Position(v) == CHOOSE i \in DOMAIN ChainOrder : ChainOrder[i] = v
Steps(p, y) == (Position(p[2]) - Position(y[2])) % Len(ChainOrder)

\* The first item that x is found in conflict with on the way round p's chain.
Foes(x, p) == {y \in Items : y[1] = p[1] /\ MayConflict(x, y)}
FirstFoe(x, p) == {y \in Foes(x, p) : \A z \in Foes(x, p) : Steps(p, y) <= Steps(p, z)}

\* Mutant: the conflict is registered with the uid only.
RegisterChain_NoDigest(c, p, q) ==
  [x \in Items |->
     c[x] \cup {y[1] : y \in {z \in Items : /\ ~HasUid(c, x, z[1])
                                          /\ \/ x[1] = p[1] /\ z \in FirstFoe(x, q)
                                             \/ x[1] = q[1] /\ z \in FirstFoe(x, p)}}]

\* pkg_conflicts_register_chain: every item of one chain against every item of the
\* other.  pkg_conflicts_register_unsafe gives an item one conflict per uid, with
\* the digest of the item it met first; a pair is passed over when each side has a
\* conflict with the other's uid, so an item without one gets it at its first pair.
RegisterChain(c, p, q) ==
  [x \in Items |->
     c[x] \cup {y \in Items : /\ ~HasUid(c, x, y[1])
                              /\ \/ x[1] = p[1] /\ y \in FirstFoe(x, q)
                                 \/ x[1] = q[1] /\ y \in FirstFoe(x, p)}]

\* pkg_conflicts_check_all_paths: walk the items found on the path to the first
\* of the same name, or the first a new conflict is registered with.
NewConflict(p, q) == ~HasUid(conflicts, p, q[1]) /\ RegisterChain(conflicts, p, q) # conflicts
Stops(p, f) == {i \in DOMAIN tree[f] : tree[f][i][1] = p[1] \/ NewConflict(p, tree[f][i])}
Stop(p, f) == IF Stops(p, f) = {} THEN 0 ELSE Min(Stops(p, f))
FoundOn(p, f) == \* the tree's items on f afterwards
  LET i == Stop(p, f) IN
  CASE i = 0 -> Append(tree[f], p)
    [] i # 0 /\ tree[f][i][1] = p[1] -> [tree[f] EXCEPT ![i] = p]
    [] OTHER -> tree[f]
AfterTree(p, f) == \* the conflicts afterwards
  LET i == Stop(p, f) IN
  IF i = 0 \/ tree[f][i][1] = p[1] THEN conflicts ELSE RegisterChain(conflicts, p, tree[f][i])

\* pkg_conflicts_check_local_path: the installed package that has f, unless the
\* installed version of p has it too or knows of p.
IsNewFile(p, f) == ~Installed(db, p[1]) \/ f \notin FilesOf[p[1]][db.ver[p[1]]]
AfterLocal(c, p, f) ==
  LET o == db.owner[f] IN
  IF /\ IsNewFile(p, f)
     /\ o # None /\ o # p[1]
     /\ ~HasUid(c, Local(o), p[1])
  THEN RegisterChain(c, p, Local(o))
  ELSE c

\* The items of n's chain that pkg_conflicts_append_chain looks at, path by path:
\* those whose archive is there, but for the installed one.
ToCheck(n) == {t \in Items \X Files :
                 /\ t[1][1] = n /\ InChain(n, t[1][2])
                 /\ t[1] \in cached /\ ~IsLocal(t[1])
                 /\ t[2] \in FilesOf[n][t[1][2]]}

\* Mutant: conflicts_registered keeps its value from the round before.
StartCheck_CountKept ==
  /\ pc = "startCheck"
  /\ todo' = UNION {ToCheck(p[1]) : p \in ToInstall(plan)}
  /\ inspected' = {p \in Items : Loaded(p)}
  /\ pc' = "check"
  /\ UNCHANGED <<db, cached, jobs, conflicts, tree, loop, hasConflicts, verdict, shown, exit>>

StartCheck ==
  /\ pc = "startCheck"
  /\ todo' = UNION {ToCheck(p[1]) : p \in ToInstall(plan)}
  /\ inspected' = {p \in Items : Loaded(p)}
  /\ verdict' = "ok"
  /\ pc' = "check"
  /\ UNCHANGED <<db, cached, jobs, conflicts, tree, loop, hasConflicts, shown, exit>>

\* Items are looked at one after the other.
Begun(p) == \E f \in FilesOf[p[1]][p[2]] : <<p, f>> \notin todo
IsNext(p, f) == <<p, f>> \in todo /\ \A t \in todo : Begun(t[1]) => t[1] = p

\* Mutant: without the look at the installed packages.
CheckPath_NotLocal(p, f) ==
  /\ pc = "check" /\ IsNext(p, f)
  /\ tree' = [tree EXCEPT ![f] = FoundOn(p, f)]
  /\ conflicts' = AfterTree(p, f)
  /\ verdict' = IF conflicts' # conflicts THEN "conflict" ELSE verdict
  /\ todo' = todo \ {<<p, f>>}
  /\ UNCHANGED <<db, cached, jobs, pc, loop, hasConflicts, shown, exit, inspected>>

CheckPath(p, f) ==
  /\ pc = "check" /\ IsNext(p, f)
  /\ tree' = [tree EXCEPT ![f] = FoundOn(p, f)]
  /\ conflicts' = AfterLocal(AfterTree(p, f), p, f)
  /\ verdict' = IF conflicts' # conflicts THEN "conflict" ELSE verdict
  /\ todo' = todo \ {<<p, f>>}
  /\ UNCHANGED <<db, cached, jobs, pc, loop, hasConflicts, shown, exit, inspected>>

\* The files of the installed version cannot be loaded: its chain is passed over.
LoadFails(n) ==
  /\ "load" \in Failures
  /\ pc = "check" /\ Installed(db, n)
  /\ \E p \in ToInstall(plan) : p[1] = n
  /\ ToCheck(n) \subseteq todo
  /\ todo' = todo \ ToCheck(n)
  /\ verdict' = IF verdict = "conflict" THEN verdict ELSE "fatal"
  /\ inspected' = {p \in inspected : p[1] # n}
  /\ UNCHANGED <<db, cached, jobs, conflicts, tree, pc, loop, hasConflicts, shown, exit>>

\* What the loops do with the verdict.  Solving again clears the list of jobs; a
\* plan that comes out of it goes back to the user.
Resolve ==
  /\ verdict = "conflict"
  /\ plan' = db.ver
  /\ hasConflicts' = TRUE
  /\ pc' = "solve"
  /\ UNCHANGED <<loop, exit>>

\* Mutant: pkg_jobs_apply goes on with the plan it has just solved for.
Passed_GoesOn ==
  /\ verdict # "conflict"
  /\ \/ loop = "solve" /\ pc' = "confirm" /\ UNCHANGED exit
     \/ /\ loop = "apply"
        /\ IF verdict = "ok" THEN pc' = "execute" /\ UNCHANGED exit ELSE Exit("fail")
  /\ loop' = "none"
  /\ UNCHANGED <<plan, hasConflicts>>

Passed ==
  /\ verdict # "conflict"
  /\ \/ /\ loop = "solve" \/ hasConflicts
        /\ pc' = "confirm" /\ UNCHANGED exit
     \/ /\ loop = "apply" /\ ~hasConflicts
        /\ IF verdict = "ok" THEN pc' = "execute" /\ UNCHANGED exit ELSE Exit("fail")
  /\ loop' = "none"
  /\ UNCHANGED <<plan, hasConflicts>>

EndCheck ==
  /\ pc = "check" /\ todo = {}
  /\ Resolve \/ Passed
  /\ UNCHANGED <<db, cached, solved, needFetch, conflicts, tree, todo, verdict, shown, inspected>>

-----------------------------------------------------------------------------
(* The command, and pkg_jobs_fetch.                                        *)

Agree ==
  /\ pc = "confirm" /\ Jobs(plan) # {}
  /\ shown' = plan
  /\ pc' = IF needFetch THEN "fetch" ELSE "execute"
  /\ UNCHANGED <<db, cached, jobs, check, exit>>

\* The answer is no, or -n.
Decline ==
  /\ pc = "confirm" /\ Jobs(plan) # {}
  /\ Exit("fail")
  /\ UNCHANGED <<db, cached, jobs, check, shown>>

\* No jobs, or none any more after a conflict.
NothingToDo ==
  /\ pc = "confirm" /\ Jobs(plan) = {}
  /\ Exit("ok")
  /\ UNCHANGED <<db, cached, jobs, check, shown>>

Fetch(p) ==
  /\ pc = "fetch" /\ p \in ToInstall(plan) \ cached
  /\ cached' = cached \cup {p}
  /\ UNCHANGED <<db, jobs, check, pc, shown, exit>>

FetchFails ==
  /\ "fetch" \in Failures
  /\ pc = "fetch" /\ ~(ToInstall(plan) \subseteq cached)
  /\ Exit("fail")
  /\ UNCHANGED <<db, cached, jobs, check, shown>>

\* Only the first solution is checked once it is fetched.
Fetched ==
  /\ pc = "fetch" /\ ToInstall(plan) \subseteq cached
  /\ IF solved = 1 THEN pc' = "startCheck" /\ loop' = "apply" /\ hasConflicts' = FALSE
                   ELSE pc' = "execute" /\ UNCHANGED <<loop, hasConflicts>>
  /\ UNCHANGED <<db, cached, jobs, conflicts, tree, todo, verdict, inspected, shown, exit>>

-----------------------------------------------------------------------------
(* pkg_jobs_execute, the jobs in any order.                                *)

Install(n) ==
  /\ pc = "execute" /\ n \in Jobs(plan) /\ plan[n] # None
  /\ Forced \/ Conflicts(db, n, plan[n]) = {}
  /\ db' = Registered(db, n, plan[n])
  /\ UNCHANGED <<cached, jobs, check, pc, shown, exit>>

Delete(n) ==
  /\ pc = "execute" /\ n \in Jobs(plan) /\ plan[n] = None
  /\ db' = Unregistered(db, n)
  /\ UNCHANGED <<cached, jobs, check, pc, shown, exit>>

\* The first half of a split upgrade: the installed version is in conflict with something.
RemoveForUpgrade(n) ==
  /\ pc = "execute" /\ n \in Jobs(plan) /\ plan[n] # None /\ Installed(db, n)
  /\ conflicts[Local(n)] # {}
  /\ db' = Unregistered(db, n)
  /\ UNCHANGED <<cached, jobs, check, pc, shown, exit>>

\* The lock is not to be had, a package is vital, a job fails.
ExecuteFails ==
  /\ "execute" \in Failures
  /\ pc = "execute" /\ Jobs(plan) # {}
  /\ Exit("fail")
  /\ UNCHANGED <<db, cached, jobs, check, shown>>

Executed ==
  /\ pc = "execute" /\ Jobs(plan) = {}
  /\ Exit("ok")
  /\ UNCHANGED <<db, cached, jobs, check, shown>>

-----------------------------------------------------------------------------
Next ==
  \/ \E t \in Plans : Solve(t)
  \/ SolveFails
  \/ StartCheck
  \/ \E p \in Items, f \in Files : CheckPath(p, f)
  \/ EndCheck
  \/ Agree \/ Decline \/ NothingToDo
  \/ FetchFails \/ Fetched
  \/ \E p \in Items : Fetch(p)
  \/ \E n \in Names : LoadFails(n) \/ Install(n) \/ Delete(n) \/ RemoveForUpgrade(n)
  \/ ExecuteFails \/ Executed

Spec == Init /\ [][Next]_vars

\* The program goes on, and the user answers.
FairSpec == Spec /\ WF_vars(Next)

-----------------------------------------------------------------------------
(* Properties.                                                             *)

\* The database changes only towards the plan that was last shown to the user and
\* agreed to: a plan that is solved for after that, because of a conflict, is shown again.
OnlyAgreedChanges ==
  [][\A n \in Names : db'.ver[n] # db.ver[n] =>
       shown # None /\ plan = shown /\ db'.ver[n] \in {shown[n], None}]_vars

\* Nothing is installed whose archive is not in the cache, however often the plan changed.
FetchedBeforeUse == pc = "execute" => ToInstall(plan) \subseteq cached

\* When jobs are executed, a file is in two packages of the plan only if one of them
\* could not be read when the plan was last checked, or when one of them was given its
\* conflict with the other's name for another version.
ReadableClashesFound ==
  pc = "execute" =>
    \A p \in ToInstall(plan) \cap inspected, q \in Selected(plan) \cap inspected :
      p # q /\ Clash(p, q) =>
        /\ HasUid(conflicts, p, q[1]) \/ HasUid(conflicts, q, p[1])
        /\ q \notin conflicts[p] /\ p \notin conflicts[q]

\* The loops of solving and checking come to an end.
Ends == <>(pc = "exit")
=============================================================================
