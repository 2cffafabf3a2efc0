---------------------------- MODULE PkgPriority -----------------------------
(***************************************************************************)
(* The order in which the jobs of a plan are executed: pkg_jobs_set_prio-  *)
(* rities of libpkg/pkg_jobs.c over the recursion of pkg_jobs_universe.c.  *)
(* Jobs with a higher priority come first; of equals, deletions do.        *)
(*                                                                         *)
(* A priority is a number for each package, raised along dependencies,     *)
(* dependants and conflicts until nothing changes or RecursionLimit is     *)
(* passed, which a cycle of dependencies always does.                      *)
(***************************************************************************)
EXTENDS PkgUniverse

CONSTANT RecursionLimit    \* 1024 in the code

ASSUME PriorityAssumption == RecursionLimit \in Nat

\* The names in the list pkg->conflicts of a package
ConflictNames(known, i) == {j[1] : j \in {p \in Items : <<i, p>> \in known}}

\* Mutant: deletions are ordered like installations.
Below_Request(w, i, why) == w.dep[i]

Below(w, i, why) == IF why = "delete" THEN Dependants(w, i) ELSE w.dep[i]
Above(w, i, why) == IF why = "delete" THEN w.dep[i] ELSE Dependants(w, i)

\* Mutant: equal priorities will do.
TooLate_Equal(prio, i, j) == prio[j] < prio[i]

\* A package that conflicts has to go before the other comes.
TooLate(prio, i, j) == prio[j] <= prio[i]

Reasons == {"request", "delete", "conflict"}
Priorities == [Items -> Nat]
Jobs == [type : {"install", "upgrade", "delete", "upgradeRemove", "upgradeInstall"},
         item : Items, old : SUBSET Items]

\* A call of pkg_jobs_update_universe_item_priority: a package and what follows it
\* in its chain, of which the installed one is the first, are raised to p.
Calls == [prio : Priorities, item : Items, p : Nat, why : Reasons]
Call(prio, i, p, why) == [prio |-> prio, item |-> i, p |-> p, why |-> why]

\* maxpri, over the packages of the universe that should come later
AtLeast(w, u, prio, i, p, why) ==
  LET More(max, j) == IF j \in u.items /\ prio[j] >= max THEN prio[j] + 1 ELSE max
  IN ForEach(Above(w, i, why), p, [n \in Uids |-> [max \in Nat |-> More(More(max, Local(n)), Remote(n))]])

\* The body of its loop, of which raise[c] is what a call c of its makes.
RaiseItem(w, u, known, raise, c) ==
  LET i == c.item
      Lower(f, j) == IF j \in u.items /\ f[j] < c.p + 1 THEN raise[Call(f, j, c.p + 1, c.why)] ELSE f
      lowered == ForEach(Below(w, i, c.why), [c.prio EXCEPT ![i] = c.p],
                         [n \in Uids |-> [f \in Priorities |-> Lower(Lower(f, Local(n)), Remote(n))]])
      top == AtLeast(w, u, lowered, i, c.p, c.why)
      Before(f, j) == IF j \in u.items /\ TooLate(f, i, j) THEN raise[Call(f, j, f[i] + 1, "conflict")] ELSE f
      cleared == IF IsLocal(i) THEN lowered
                 ELSE ForEach(ConflictNames(known, i), lowered,
                              [n \in Uids |-> [f \in Priorities |-> Before(f, Local(n))]])
      Rest(f) == IF IsLocal(i) /\ Remote(i[1]) \in u.items THEN raise[Call(f, Remote(i[1]), c.p, c.why)] ELSE f
  IN IF c.p > RecursionLimit THEN c.prio
     ELSE IF (~IsLocal(i) /\ c.why \in {"conflict", "delete"}) \/ c.prio[i] > c.p THEN Rest(c.prio)
     ELSE IF top # c.p THEN raise[Call(lowered, i, top, c.why)] ELSE Rest(cleared)

\* A call asks for a higher priority or is about the rest of the chain, so no more
\* than 2 * (RecursionLimit + 2) calls are ever nested.
Raise(w, u, known, c) ==
  LET Nested[depth \in Nat] ==
        [d \in Calls |-> IF depth = 0 THEN d.prio ELSE RaiseItem(w, u, known, Nested[depth - 1], d)]
  IN Nested[2 * (RecursionLimit + 2)][c]

Old(job) == CHOOSE o \in job.old : TRUE

\* pkg_jobs_update_conflict_priority, for an upgrade
RaiseConflict(w, u, known, job, prio, n) ==
  LET f == Raise(w, u, known, Call(prio, Old(job), prio[Remote(n)] + 1, "conflict"))
  IN IF prio[Remote(n)] >= prio[Old(job)]
     THEN Raise(w, u, known, Call(f, job.item, f[job.item], "request")) ELSE prio
RaiseConflicts(w, u, known, prio, job) ==
  ForEach(ConflictNames(known, Old(job)), prio,
          [n \in Uids |-> [f \in Priorities |-> RaiseConflict(w, u, known, job, f, n)]])

\* pkg_jobs_update_universe_priority, of a job that has no priority yet
Raised(w, u, known, prio, job) ==
  IF prio[job.item] # 0 THEN prio
  ELSE Raise(w, u, known, Call(prio, job.item, 0, IF job.type = "delete" THEN "delete" ELSE "request"))

\* Mutant: no upgrade is split.
SetPriority_Whole(w, u, known, prio, job) == [prio |-> Raised(w, u, known, prio, job), split |-> FALSE]

\* pkg_jobs_set_execute_priority; split is set when the job is an upgrade whose
\* old package has to go first.
SetPriority(w, u, known, prio, job) ==
  IF job.type = "upgrade" /\ ConflictNames(known, Old(job)) # {}
  THEN LET raised == IF prio[job.item] = 0 THEN RaiseConflicts(w, u, known, prio, job) ELSE prio
       IN [prio |-> raised, split |-> raised[Old(job)] > raised[job.item]]
  ELSE [prio |-> Raised(w, u, known, prio, job), split |-> FALSE]

\* Mutant: the old package is never removed.
SplitJob_Forgets(jobs, k) == [jobs EXCEPT ![k] = [type |-> "upgradeInstall", item |-> jobs[k].item, old |-> {}]]

\* An upgrade becomes two jobs: one in its place, and one at the end.
SplitJob(jobs, k) ==
  Append([jobs EXCEPT ![k] = [type |-> "upgradeInstall", item |-> jobs[k].item, old |-> {}]],
         [type |-> "upgradeRemove", item |-> Old(jobs[k]), old |-> {}])

\* pkg_jobs_set_priorities begins a round over the jobs.
Zeroed(prio, jobs) ==
  LET items == UNION {{jobs[k].item} \cup jobs[k].old : k \in DOMAIN jobs}
  IN [i \in Items |-> IF i \in items THEN 0 ELSE prio[i]]

\* pkg_jobs_sort_priority, and that the sort is stable
Sooner(prio, jobs, a, b) ==
  LET pa == prio[jobs[a].item]
      pb == prio[jobs[b].item]
      da == jobs[a].type = "delete"
      db == jobs[b].type = "delete"
  IN \/ pa > pb
     \/ pa = pb /\ da /\ ~db
     \/ pa = pb /\ da = db /\ a < b

Sorted(prio, jobs, order) == \A a, b \in DOMAIN jobs : Sooner(prio, jobs, order[a], order[b]) => a < b
=============================================================================
