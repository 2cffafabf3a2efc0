------------------------------ MODULE PkgPlan -------------------------------
(***************************************************************************)
(* From a request to the installed packages: the requests and the universe *)
(* (PkgUniverse), the solver (PkgSolve), the check for files in common and *)
(* the second solution it asks for, the order of the jobs (PkgPriority)    *)
(* and their execution one by one, any of which may fail.                  *)
(* pkg_jobs_solve, pkg_jobs_apply and pkg_jobs_execute of                  *)
(* libpkg/pkg_jobs.c and pkg_solve_sat_problem of libpkg/pkg_solve.c.      *)
(*                                                                         *)
(* PkgJobs has the check for conflicts in detail, with archives that are   *)
(* not in the cache yet; here it sees every file.  PkgTransaction has what *)
(* one job does to the database and to the disk; here a job is done or not.*)
(***************************************************************************)
EXTENDS PkgPriority, Functions

CONSTANT MaxAttempts    \* after how many failures the solver asks: 10 in the code

ASSUME PlanAssumption == MaxAttempts \in Nat

VARIABLES
  problem,              \* the problem
  pc,
  universe,             \* j->universe
  request,              \* the names in j->request_add or j->request_delete
  known,                \* the registered conflicts, as pairs of packages
  assume,               \* what the solver is told to assume of each requested package
  failed,               \* names the solver is asked about again as their packages would go
  attempts,             \* failures of the solver
  model,                \* its answer
  solved,               \* history: the universe it was given
  jobs,                 \* j->jobs
  prio,                 \* the priorities of the packages
  at,                   \* the job whose priority is set
  installed,            \* the packages in local.sqlite
  executed              \* how many jobs have been executed

vars == <<problem, pc, universe, request, known, assume, failed, attempts, model, solved, jobs, prio, at,
          installed, executed>>
input == <<problem, request>>
ordering == <<prio, at>>

TypeOK ==
  /\ problem \in Problems
  /\ pc \in {"request", "solve", "ask", "check", "order", "execute", "done", "failed", "refused"}
  /\ universe.items \subseteq Items /\ universe.done \subseteq universe.items
  /\ {universe.order[n] : n \in DOMAIN universe.order} = {i[1] : i \in universe.items}
  /\ request \subseteq Uids /\ known \subseteq Items \X Items
  /\ DOMAIN assume \subseteq universe.items /\ \A i \in DOMAIN assume : assume[i] \in BOOLEAN
  /\ failed \subseteq Uids /\ attempts \in 0..MaxAttempts
  /\ model \subseteq solved.items /\ solved.items \subseteq universe.items
  /\ \A n \in DOMAIN jobs : jobs[n] \in Jobs
  /\ prio \in Priorities /\ at \in 1..Len(jobs) + 1
  /\ installed \subseteq Items /\ executed \in 0..Len(jobs)

Begin ==
  /\ pc = "request" /\ universe = EmptyUniverse /\ request = {} /\ known = {}
  /\ assume = << >> /\ failed = {} /\ attempts = 0 /\ model = {} /\ solved = EmptyUniverse /\ jobs = <<>>
  /\ prio = [i \in Items |-> 0] /\ at = 1
  /\ installed = Installed(problem) /\ executed = 0

Init == problem \in Problems /\ Begin

-----------------------------------------------------------------------------
(* pkg_jobs_solve.                                                         *)

\* jobs_solve_install_upgrade, jobs_solve_deinstall, jobs_solve_autoremove,
\* and pkg_solve_jobs_to_sat, which makes the assumptions
Requested ==
  /\ pc = "request"
  /\ LET r == Request(problem)
     IN /\ universe' = r.u /\ request' = r.request
        /\ IF r.is = "ok" THEN pc' = "solve" /\ assume' = Assumed(problem, r.request)
                          ELSE pc' = "refused" /\ UNCHANGED assume
  /\ UNCHANGED <<problem, known, failed, attempts, model, solved, jobs, ordering, installed, executed>>

\* The first answer is not taken when an install or upgrade would delete.
AskAgain(M) == ~IsDelete(problem) /\ attempts = 0 /\ failed = {} /\ Gone(universe, M) # {}

\* pkg_solve_sat_to_jobs, in the order the names joined the universe
JobsOf(M) ==
  LET names == universe.order
      Upto[k \in 0..Len(names)] == IF k = 0 THEN <<>> ELSE Upto[k - 1] \o JobOf(universe, M, names[k])
  IN Upto[Len(names)]

Solved(M) ==
  /\ pc = "solve" /\ ~AskAgain(M)
  /\ model' = M /\ solved' = universe /\ jobs' = JobsOf(M)
  /\ pc' = IF IsDelete(problem) THEN "order" ELSE "check"
  /\ UNCHANGED <<input, universe, known, assume, failed, attempts, ordering, installed, executed>>

SolvedAgain(M) ==
  /\ pc = "solve" /\ AskAgain(M)
  /\ failed' = Gone(universe, M)
  /\ UNCHANGED <<input, pc, universe, known, assume, attempts, model, solved, jobs, ordering, installed, executed>>

\* The last of the failed assumptions is turned round: any set of assumptions
\* that cannot hold together may be the one picosat reports.
Failed(i) ==
  \E core \in SUBSET DOMAIN assume :
    i \in core /\ Models(problem, universe, known, [j \in core |-> assume[j]]) = {}
\* Mutant: nobody is ever asked.
Unsolved_Endless(i) ==
  /\ pc = "solve" /\ i \in DOMAIN assume
  /\ Models(problem, universe, known, assume) = {} /\ Failed(i)
  /\ attempts' = attempts + 1 /\ assume' = [assume EXCEPT ![i] = ~@]
  /\ UNCHANGED <<input, pc, universe, known, failed, model, solved, jobs, ordering, installed, executed>>

Unsolved(i) ==
  /\ pc = "solve" /\ i \in DOMAIN assume
  /\ Models(problem, universe, known, assume) = {} /\ Failed(i)
  /\ IF attempts + 1 < MaxAttempts
     THEN attempts' = attempts + 1 /\ assume' = [assume EXCEPT ![i] = ~@] /\ UNCHANGED pc
     ELSE attempts' = MaxAttempts /\ pc' = "ask" /\ UNCHANGED assume
  /\ UNCHANGED <<input, universe, known, failed, model, solved, jobs, ordering, installed, executed>>

\* Whether to drop it is asked, and asked again when the answer is no.
Answer(i) ==
  /\ pc = "ask"
  /\ i \in DOMAIN assume /\ Failed(i)
  /\ pc' = "solve"
  /\ assume' \in {assume, [assume EXCEPT ![i] = ~@]}
  /\ UNCHANGED <<input, universe, known, failed, attempts, model, solved, jobs, ordering, installed, executed>>

-----------------------------------------------------------------------------
(* pkg_jobs_check_conflicts, made of every plan that installs something.   *)

Clash(i, j) == i[1] # j[1] /\ {<<i, j>>, <<j, i>>} \cap problem.clash # {}

\* pkg_conflicts_append_chain: the packages of the job's name that are compared
Compared == {i \in universe.items : ~IsLocal(i) /\ \E n \in DOMAIN jobs : jobs[n].type # "delete" /\ jobs[n].item[1] = i[1]}

\* pkg_conflicts_check_local_path: owners of a file of theirs join the universe,
\* unless they are locked or have a dependency that cannot be found.
Owners == {n \in problem.local : \E i \in Compared : Clash(i, Local(n))}
\* Mutant: owners of files are not looked for among what is installed.
Joined_Alone == [u |-> universe, names |-> {}]

JoinedUniverses == [u : Universes, names : SUBSET Uids]
Join(s, n) ==
  LET p == Process(problem, s.u, Local(n))
  IN [u |-> p.u, names |-> IF p.ok THEN s.names \cup {n} ELSE s.names]
Joined ==
  ForEach(Owners, [u |-> universe, names |-> {}], [n \in Uids |-> [s \in JoinedUniverses |-> Join(s, n)]])

\* pkg_conflicts_register_chain: the two chains are compared when one path says so.
Conflicts(v, owners) ==
  LET Meet(a, b) ==
        \E i \in Compared :
          /\ i[1] = a
          /\ (\E j \in Compared : j[1] = b /\ Clash(i, j)) \/ (b \in owners /\ Clash(i, Local(b)))
  IN {p \in v.items \X v.items :
        /\ Clash(p[1], p[2]) /\ ~(IsLocal(p[1]) /\ IsLocal(p[2]))
        /\ (Meet(p[1][1], p[2][1]) \/ Meet(p[2][1], p[1][1]))}

\* Mutant: conflicts that are known count as found again.
Checked_Again ==
  /\ pc = "check"
  /\ LET found == Conflicts(Joined.u, Joined.names)
     IN /\ known' = known \cup found
        /\ IF found = {}
           THEN pc' = "order" /\ UNCHANGED <<assume, failed, attempts, model, solved, jobs>>
           ELSE /\ pc' = "solve" /\ assume' = Assumed(problem, request) /\ failed' = {} /\ attempts' = 0
                /\ model' = {} /\ solved' = EmptyUniverse /\ jobs' = <<>>
  /\ universe' = Joined.u
  /\ UNCHANGED <<input, ordering, installed, executed>>

\* The plan is dropped when the check registers anything, and made again.
Checked ==
  /\ pc = "check"
  /\ LET found == Conflicts(Joined.u, Joined.names)
     IN /\ known' = known \cup found
        /\ IF found \subseteq known
           THEN pc' = "order" /\ UNCHANGED <<assume, failed, attempts, model, solved, jobs>>
           ELSE /\ pc' = "solve" /\ assume' = Assumed(problem, request) /\ failed' = {} /\ attempts' = 0
                /\ model' = {} /\ solved' = EmptyUniverse /\ jobs' = <<>>
  /\ universe' = Joined.u
  /\ UNCHANGED <<input, ordering, installed, executed>>

-----------------------------------------------------------------------------
(* pkg_jobs_execute.                                                       *)

\* The priority of one job is set, which may split it; then all are set anew.
SetsPriority ==
  /\ pc = "order" /\ at <= Len(jobs)
  /\ \E r \in {SetPriority(problem, universe, known, prio, jobs[at])} :
       IF r.split
       THEN jobs' = SplitJob(jobs, at) /\ at' = 1 /\ prio' = Zeroed(r.prio, jobs)
       ELSE at' = at + 1 /\ prio' = r.prio /\ UNCHANGED jobs
  /\ UNCHANGED <<input, pc, universe, known, assume, failed, attempts, model, solved, installed, executed>>

Order ==
  /\ pc = "order" /\ at > Len(jobs)
  /\ \E order \in Bijection(DOMAIN jobs, DOMAIN jobs) :
       Sorted(prio, jobs, order) /\ jobs' = [k \in DOMAIN jobs |-> jobs[order[k]]]
  /\ pc' = "execute" /\ at' = 1 /\ prio' = [i \in Items |-> 0]
  /\ UNCHANGED <<input, universe, known, assume, failed, attempts, model, solved, installed, executed>>

Vital(job) == job.type = "delete" /\ job.item[1] \in problem.vital /\ ~problem.forced

Do ==
  /\ pc = "execute" /\ executed < Len(jobs) /\ ~Vital(jobs[executed + 1])
  /\ LET job == jobs[executed + 1]
     IN installed' = IF job.type \in {"delete", "upgradeRemove"} THEN installed \ {job.item}
                     ELSE (installed \ job.old) \cup {job.item}
  /\ executed' = executed + 1
  /\ UNCHANGED <<input, pc, universe, known, assume, failed, attempts, model, solved, jobs, ordering>>

\* A job that fails, or would delete a vital package, is the last.
Stops ==
  /\ pc = "execute" /\ executed < Len(jobs)
  /\ pc' = "failed"
  /\ UNCHANGED <<input, universe, known, assume, failed, attempts, model, solved, jobs, ordering, installed, executed>>

Finish ==
  /\ pc = "execute" /\ executed = Len(jobs)
  /\ pc' = "done"
  /\ UNCHANGED <<input, universe, known, assume, failed, attempts, model, solved, jobs, ordering, installed, executed>>

Next ==
  \/ Requested
  \/ pc = "solve" /\ \E M \in Answers(problem, universe, known, assume, failed) : Solved(M) \/ SolvedAgain(M)
  \/ \E i \in Items : Unsolved(i) \/ Answer(i)
  \/ Checked \/ SetsPriority \/ Order \/ Do \/ Stops \/ Finish

Spec == Init /\ [][Next]_vars

-----------------------------------------------------------------------------
(* What is promised, and where the promise ends.                           *)

Has(S, n) == \E i \in S : i[1] = n
IsUnlocked(i) == ~IsLocked(problem, i)
Planned == pc \in {"order", "execute", "done"}
End == Target(problem, solved, model)
Later(n, types) == \E x \in DOMAIN jobs : x > executed /\ jobs[x].item[1] = n /\ jobs[x].type \in types

\* The database has what its packages depend on; deinstall -f may have changed that.
Whole == \A n \in problem.local : problem.dep[Local(n)] \subseteq problem.local

\* A dependency that nobody has: the package is installed without it, since
\* what pkg_jobs_universe_process returns is not looked at.
Missing == ~Whole \/ \E i \in Items : \E d \in problem.dep[i] : d \notin problem.local /\ ~HasRemote(problem, d)

\* Who depends on a package that was asked for and is not processed itself is not
\* looked for, nor later when it turns out that the package has to go.
Overlooked(i, d) == ~IsDelete(problem) /\ i \notin solved.items /\ Local(d) \in solved.items \ solved.done

\* Names that depend on each other, in whichever of their versions: priorities
\* are then raised up to the limit and say nothing.
DependsOn == [n \in Uids |-> problem.dep[Local(n)] \cup problem.dep[Remote(n)]]
Needs[k \in 1..Size, n \in Uids] ==
  IF k = 1 THEN DependsOn[n] ELSE DependsOn[n] \cup UNION {Needs[k - 1, d] : d \in DependsOn[n]}
Orderly == ~Missing /\ \A n \in Uids : n \notin Needs[Size, n]
Forced == IsDelete(problem) /\ problem.forced

\* A plan leaves no package without a package it depends on, whichever
\* requests had to be given up and whatever is deleted to make room: the
\* universe holds enough dependants for the rules to keep them whole, but for
\* those that were overlooked.  Locked packages have no variable, and deinstall -f
\* is asked to break things.
PlanDeps ==
  Planned /\ ~Missing /\ ~Forced =>
    \A i \in End : IsUnlocked(i) => \A d \in problem.dep[i] : Has(End, d) \/ Overlooked(i, d)

\* No plan that is carried out leaves two packages with a file in common: the
\* solutions are checked until one brings nothing new to light.
PlanClash == Planned /\ Whole => \A i, j \in End : IsUnlocked(i) /\ IsUnlocked(j) => ~Clash(i, j)

\* Nor are two such packages installed together on the way: the owner of a
\* file goes, or is split from its new version and removed, before the package
\* that takes the file comes.
StepClash == Orderly => \A i, j \in installed : IsUnlocked(i) /\ IsUnlocked(j) => ~Clash(i, j)

\* Between two jobs, and when a job fails and the rest is given up, every
\* installed package has what it depends on, but for three cases: it is itself
\* to be upgraded later on, what it depends on is between the two halves of a
\* split upgrade, or it is to be deleted later on because of a conflict.
KeepsDeps ==
  Orderly /\ ~Forced =>
    \A i \in installed : IsUnlocked(i) =>
      \A d \in problem.dep[i] :
        \/ Has(installed, d) \/ Overlooked(i, d)
        \/ IsLocal(i) /\ Later(i[1], {"upgrade", "upgradeRemove"})
        \/ Later(d, {"upgradeInstall"})
        \/ known # {} /\ Later(i[1], {"delete"})

\* Of an upgrade that was split because the new owner of a file comes in
\* between, the old package goes first -- but for two cases, in which both halves
\* end with the same priority and the half that was there first, the new
\* version, is installed beside the old one: some package of the universe
\* depends on the name, or the new owner is not in the plan after all.
RemovedFirst ==
  Orderly /\ pc = "execute" =>
    \A x, y \in DOMAIN jobs :
      jobs[x].type = "upgradeInstall" /\ jobs[y].type = "upgradeRemove" /\ jobs[x].item[1] = jobs[y].item[1] =>
        \/ y < x
        \/ \E i \in universe.items : jobs[y].item[1] \in problem.dep[i]
        \/ \A n \in DOMAIN jobs : <<jobs[y].item, jobs[n].item>> \notin known

\* A locked package stays, whoever depends on it, needs its files or replaces it.
LockedKept == \A n \in problem.locked : Local(n) \in installed

\* The jobs make the changes the solver said and no others, in whatever order they
\* are done and wherever they stop: what is to stay is never gone, a locked package
\* least of all, nothing comes that is not to be there in the end, and when
\* every job is done, whichever were split, the database is what the solver said.
AsPlanned ==
  /\ LockedKept
  /\ Planned \/ pc = "failed" =>
       Installed(problem) \cap End \subseteq installed /\ installed \subseteq Installed(problem) \cup End
  /\ pc = "done" => installed = End

\* An install or upgrade that met no conflict and gave up no request keeps every
\* name that is installed, in one version or the other.
NothingLost ==
  Planned /\ ~IsDelete(problem) /\ known = {} /\ attempts = 0 => \A n \in problem.local : Has(End, n)

\* Solving and checking comes to an end: every time the solver is asked again
\* a conflict is registered that was not, and those there were stay, or a failure
\* is counted, or a second opinion is asked for, once -- or the user was asked
\* which request to drop, which may go on for ever.
Progresses ==
  [][pc' = "solve" =>
       \/ pc \in {"request", "ask"}
       \/ known \subseteq known' /\ known # known'
       \/ known = known' /\ attempts < attempts'
       \/ known = known' /\ attempts = attempts' /\ failed = {} /\ failed' # {}]_vars

=============================================================================
