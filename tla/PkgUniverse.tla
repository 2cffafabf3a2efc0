---------------------------- MODULE PkgUniverse -----------------------------
(***************************************************************************)
(* libpkg/pkg_jobs_universe.c and the first half of pkg_jobs.c: from what  *)
(* was asked to the requests, and from these to the universe, the packages *)
(* the solver has a variable for.  A package that is not in the universe   *)
(* stays as it is and its dependencies are nobody's concern.               *)
(*                                                                         *)
(* The universe is built by a recursion that stops at the first dependency *)
(* it cannot find; what is left out then depends on the order, which is    *)
(* kept.  Lists of names are in the order of their numbers.                *)
(***************************************************************************)
EXTENDS PkgSolve

Universes == [items : SUBSET Items, done : SUBSET Items, order : Seq(Uids)]
Results == [u : Universes, ok : BOOLEAN]

HasRemote(w, n) == w.offer[n] # "none"
IsLocked(w, i) == IsLocal(i) /\ i[1] \in w.locked

\* pkg_jobs_need_upgrade
NeedUpgrade(w, n) == n \notin w.local \/ (n \notin w.locked /\ w.offer[n] = "newer")

\* pkg_rdeps: the catalogues are not asked who depends on a package they offer.
Dependants(w, i) == IF IsLocal(i) THEN {n \in w.local : i[1] \in w.dep[Local(n)]} ELSE {}

EmptyUniverse == [items |-> {}, done |-> {}, order |-> <<>>]

\* pkg_jobs_universe_add_pkg
Add(u, i) ==
  [items |-> u.items \cup {i}, done |-> u.done,
   order |-> IF Chain(u, i[1]) = {} THEN Append(u.order, i[1]) ELSE u.order]
Mark(u, i) ==
  LET v == Add(u, i) IN [items |-> v.items, done |-> v.done \cup {i}, order |-> v.order]
AddUnlessLocked(w, u, i) == IF i \in u.items \/ IsLocked(w, i) THEN u ELSE Add(u, i)

\* A loop over a list of names: step[n] is what its body does at the name n.
ForEach(names, s, step) ==
  LET Walk[n \in 0..Size] ==
        IF n = 0 THEN s ELSE IF n \in names THEN step[n][Walk[n - 1]] ELSE Walk[n - 1]
  IN Walk[Size]

-----------------------------------------------------------------------------
(* Processing a package brings in what it depends on and what depends on   *)
(* it.  process[i][u] is what the recursive call makes of i.               *)

\* pkg_jobs_universe_process_deps, the body of its loop, at the name d
ProcessDep(w, process, s, d) ==
  LET isLocal == d \in w.local
      a == IF isLocal THEN process[Local(d)][s.u] ELSE s
      b == IF a.ok /\ HasRemote(w, d) /\ NeedUpgrade(w, d) THEN process[Remote(d)][a.u] ELSE a
  IN IF ~s.ok \/ Chain(s.u, d) # {} THEN s
     ELSE IF ~isLocal /\ ~HasRemote(w, d) THEN [u |-> s.u, ok |-> w.missing]
     ELSE [u |-> b.u, ok |-> isLocal \/ b.ok]

ProcessDeps(w, process, s, names) ==
  ForEach(names, s, [d \in Uids |-> [t \in Results |-> ProcessDep(w, process, t, d)]])

\* pkg_jobs_universe_process_item
ProcessItem(w, process, u, i) ==
  LET start == [u |-> Mark(u, i), ok |-> TRUE]
  IN IF i \notin u.items /\ IsLocked(w, i) THEN [u |-> u, ok |-> FALSE]
     ELSE IF i \in u.done THEN [u |-> u, ok |-> TRUE]
     ELSE IF IsDelete(w) THEN start
     ELSE ProcessDeps(w, process, ProcessDeps(w, process, start, w.dep[i]), Dependants(w, i))

\* A call that calls again has marked one package more, so 2 * Size calls are as
\* many as are ever nested.
Process(w, u, i) ==
  LET Nested[depth \in Nat] ==
        [j \in Items |-> [v \in Universes |->
          IF depth = 0 THEN [u |-> v, ok |-> FALSE] ELSE ProcessItem(w, Nested[depth - 1], v, j)]]
  IN Nested[2 * Size + 1][i][u]

-----------------------------------------------------------------------------
(* Install and upgrade.  The outcome of a name is "ok", "installed" when   *)
(* there is nothing to do, "ignored", or "fatal" or "locked", which end    *)
(* the command.                                                            *)

Outcomes == {"ok", "fatal", "locked", "endless"}
Requests == [u : Universes, is : Outcomes, request : SUBSET Uids]

\* pkg_jobs_find_upgrade with pkg_jobs_process_remote_pkg and
\* pkg_jobs_universe_get_upgrade_candidates.  A name of which the catalogues
\* have nothing is left alone when it has dependants; no package takes its place.
FindUpgrade(w, u, n) ==
  LET known == Chain(u, n) # {} /\ (w.forced => Remote(n) \in u.items)
      withLocal == IF n \in w.local THEN Add(u, Local(n)) ELSE u
      both == Add(withLocal, Remote(n))
      alone == Dependants(w, Local(n)) = {}
  IN IF n \notin w.local /\ ~HasRemote(w, n) THEN [u |-> u, is |-> "fatal"]
     ELSE IF ~HasRemote(w, n) \/ n \in w.locked
          THEN IF ~alone THEN [u |-> u, is |-> "ignored"]
               ELSE IF n \in w.locked THEN [u |-> u, is |-> "locked"]
               ELSE [u |-> Add(u, Local(n)), is |-> "fatal"]
     ELSE IF known THEN [u |-> u, is |-> IF Remote(n) \in u.items THEN "ok" ELSE "installed"]
     ELSE IF w.forced \/ NeedUpgrade(w, n) THEN [u |-> both, is |-> "ok"]
     ELSE [u |-> withLocal, is |-> "installed"]

\* jobs_solve_install_upgrade over its patterns, or pkg_jobs_find_install_candidates
Candidates(w) == {n \in w.local : w.forced \/ w.offer[n] \notin {"none", "same"}}
FindNext(w, s, n) ==
  LET f == FindUpgrade(w, s.u, n)
  IN IF s.is # "ok" \/ (w.type = "upgrade" /\ n \notin w.local) THEN s
     ELSE [u |-> f.u,
           is |-> IF w.asked # {} /\ f.is \in {"fatal", "locked"} THEN f.is ELSE s.is,
           request |-> IF f.is = "ok" THEN s.request \cup {n} ELSE s.request]
FindAll(w) ==
  ForEach(IF w.asked = {} THEN Candidates(w) ELSE w.asked,
          [u |-> EmptyUniverse, is |-> "ok", request |-> {}],
          [n \in Uids |-> [s \in Requests |-> FindNext(w, s, n)]])

\* Whether one of them could be processed is not looked at.
RequestInstall(w) ==
  LET f == FindAll(w)
  IN [u |-> ForEach(f.request, f.u, [n \in Uids |-> [v \in Universes |-> Process(w, v, Remote(n)).u]]),
      is |-> f.is, request |-> f.request]

-----------------------------------------------------------------------------
(* Deinstall and autoremove.                                               *)

\* pkg_jobs_process_delete_request: dependants join, round by round, until one
\* is locked.  There are no more rounds than names.
WithNext(w, s) ==
  LET more == (UNION {Dependants(w, Local(n)) : n \in s.request}) \ s.request
      added == ForEach(more, s.u, [n \in Uids |-> [v \in Universes |-> AddUnlessLocked(w, v, Local(n))]])
  IN IF w.forced \/ more = {} THEN s
     ELSE IF more \cap w.locked # {} THEN [u |-> s.u, is |-> "fatal", request |-> s.request]
     ELSE [u |-> added, is |-> s.is, request |-> s.request \cup more]
WithDependants(w, s) == ForEach(Uids, s, [round \in Uids |-> [t \in Requests |-> WithNext(w, t)]])

\* jobs_solve_deinstall
RequestDeinstall(w) ==
  LET chosen == (IF w.asked = {} THEN w.local ELSE w.asked \cap w.local) \ w.locked
  IN WithDependants(w, [u |-> ForEach(chosen, EmptyUniverse, [n \in Uids |-> [v \in Universes |-> Add(v, Local(n))]]),
                        is |-> "ok", request |-> chosen])

\* pkg_jobs_test_automatic: every dependant, and theirs, is automatic.  It is
\* "endless" when automatic packages depend on each other: nothing keeps the
\* recursion from coming back to a package, and the process runs out of stack.
Verdicts == [u : Universes, is : {"yes", "no", "endless"}]
TestNext(w, test, s, d) ==
  LET p == Process(w, s.u, Local(d))
  IN IF s.is # "yes" THEN s
     ELSE IF d \notin w.automatic \/ ~p.ok THEN [u |-> s.u, is |-> "no"]
     ELSE test[d][p.u]
TestAutomatic(w, u, n) ==
  LET Nested[depth \in Nat] ==
        [m \in Uids |-> [v \in Universes |->
          IF depth = 0 THEN [u |-> v, is |-> "endless"]
          ELSE ForEach(Dependants(w, Local(m)), [u |-> v, is |-> "yes"],
                       [d \in Uids |-> [s \in Verdicts |-> TestNext(w, Nested[depth - 1], s, d)]])]]
  IN Nested[Size][n][u]

\* jobs_solve_autoremove, which goes on when the dependants cannot be added
Autoremove(w, s, n) ==
  LET t == TestAutomatic(w, s.u, n)
  IN IF s.is # "ok" THEN s
     ELSE IF t.is = "yes" THEN [u |-> Add(t.u, Local(n)), is |-> "ok", request |-> s.request \cup {n}]
     ELSE [u |-> t.u, is |-> IF t.is = "no" THEN "ok" ELSE "endless", request |-> s.request]
RequestAutoremove(w) ==
  LET first == ForEach((w.automatic \ w.vital) \ w.locked, [u |-> EmptyUniverse, is |-> "ok", request |-> {}],
                       [n \in Uids |-> [s \in Requests |-> Autoremove(w, s, n)]])
      all == WithDependants(w, first)
  IN IF first.is = "ok" THEN [u |-> all.u, is |-> "ok", request |-> all.request] ELSE first

\* The switch of pkg_jobs_solve
Request(w) ==
  IF w.type = "autoremove" THEN RequestAutoremove(w)
  ELSE IF w.type = "deinstall" THEN RequestDeinstall(w) ELSE RequestInstall(w)
=============================================================================
