------------------------------ MODULE PkgSolve ------------------------------
(***************************************************************************)
(* libpkg/pkg_solve.c: a plan is a model of Boolean rules, found by the    *)
(* SAT solver picosat.  A variable is a package of the universe, true when *)
(* the package is to be installed in the end.                              *)
(*                                                                         *)
(* A package is a name and the side it comes from: "local" for what is     *)
(* installed and "remote" for what the catalogue offers, one package of    *)
(* each.  A problem w is a record of                                       *)
(*   type       the job: "install", "upgrade", "deinstall", "autoremove"   *)
(*   asked      the names on the command line; none is all of them         *)
(*   forced     -f                                                         *)
(*   missing    -M                                                         *)
(*   local      the names that are installed                               *)
(*   offer      what the catalogue has of each name: "none", or a package  *)
(*              that is "newer" than, the "same" as or "older" than the    *)
(*              installed one                                              *)
(*   dep        the names each package depends on                          *)
(*   clash      pairs of packages with a file in common                    *)
(*   locked, automatic, vital    sets of installed names                   *)
(* A universe u is a record of the packages in it, those that have been    *)
(* processed and the names in the order they were added.                   *)
(***************************************************************************)
EXTENDS Integers, Sequences, FiniteSets

CONSTANT Size     \* how many names there are

ASSUME SolveAssumption == Size \in Nat \ {0}

Uids == 1..Size
Sides == {"local", "remote"}
Items == Uids \X Sides
Local(n) == <<n, "local">>
Remote(n) == <<n, "remote">>
IsLocal(i) == i[2] = "local"

JobTypes == {"install", "upgrade", "deinstall", "autoremove"}
Offers == {"none", "newer", "same", "older"}
\* Marks are of installed packages, of which the files table lets no two share a
\* file; a package that is not there depends on nothing.
Problems ==
  {w \in [type : JobTypes, asked : SUBSET Uids, forced : BOOLEAN, missing : BOOLEAN, local : SUBSET Uids,
          offer : [Uids -> Offers], dep : [Items -> SUBSET Uids], clash : SUBSET (Items \X Items),
          locked : SUBSET Uids, automatic : SUBSET Uids, vital : SUBSET Uids] :
     /\ w.locked \cup w.automatic \cup w.vital \subseteq w.local
     /\ \A i \in Items : (IF IsLocal(i) THEN i[1] \notin w.local ELSE w.offer[i[1]] = "none") => w.dep[i] = {}
     /\ \A c \in w.clash : ~(IsLocal(c[1]) /\ IsLocal(c[2]))}

IsDelete(w) == w.type \in {"deinstall", "autoremove"}
Installed(w) == {i \in Items : IsLocal(i) /\ i[1] \in w.local}

\* The packages of a universe that have a name: a chain.
Chain(u, n) == {i \in u.items : i[1] = n}

-----------------------------------------------------------------------------
(* pkg_solve_jobs_to_sat.  M is a set of packages: the true variables.     *)

\* Mutant: installed packages make no rules for their dependencies.
DependRule_Remote(w, u, i, d, M) == (i \in M /\ ~IsLocal(i) /\ Chain(u, d) # {}) => Chain(u, d) \cap M # {}

\* A dependency on a name that is not in the universe makes no rule.
DependRule(w, u, i, d, M) == (i \in M /\ Chain(u, d) # {}) => Chain(u, d) \cap M # {}
ConflictRule(known, i, j, M) == {<<i, j>>, <<j, i>>} \cap known # {} => ~(i \in M /\ j \in M)
ChainRule(i, j, M) == (i # j /\ i[1] = j[1]) => ~(i \in M /\ j \in M)

Rules(w, u, known, M) ==
  /\ \A i \in u.items : \A d \in w.dep[i] : DependRule(w, u, i, d, M)
  /\ \A i, j \in u.items : ConflictRule(known, i, j, M) /\ ChainRule(i, j, M)

\* pkg_solve_add_request_rule: the package a request for n is about
Wanted(w, n) == IF IsDelete(w) THEN Local(n) ELSE Remote(n)
Assumed(w, request) == [i \in {Wanted(w, n) : n \in request} |-> ~IsDelete(w)]

Meets(assume, M) == \A i \in DOMAIN assume : (i \in M) = assume[i]
Models(w, u, known, assume) ==
  {M \in SUBSET u.items : Rules(w, u, known, M) /\ Meets(assume, M)}

\* pkg_solve_set_initial_assumption: what is preferred of a name an examined
\* package depends on.  An install keeps what is installed.
Selected(w, u, n) ==
  IF Local(n) \in u.items /\ ~(w.type = "upgrade" /\ w.offer[n] = "newer" /\ Remote(n) \in u.items)
  THEN Local(n) ELSE Remote(n)

\* The names whose preference is set: dependencies of what was requested, and
\* of what was preferred before its own rule was come to, in an order unknown.
Examined(w, u, assume) ==
  LET wanted == {n \in Uids : Chain(u, n) # {} /\ \E i \in DOMAIN assume : n \in w.dep[i]}
  IN {P \in SUBSET {n \in Uids : Chain(u, n) # {}} :
        /\ wanted \subseteq P
        /\ \A n \in P \ wanted : \E m \in P : n \in w.dep[Selected(w, u, m)]}

\* Mutant: what is installed need not stay.
PhaseTrue_Remote(w, u, P, failed) ==
  {i \in u.items : IF i[1] \in failed THEN ~IsLocal(i) ELSE i[1] \in P /\ i = Selected(w, u, i[1])}

\* pkg_solve_picosat_iter: what is installed stays and what is not does not
\* come, but the other way round for the names that failed.  What the catalogue
\* has of an installed name has no phase.
PhaseTrue(w, u, P, failed) ==
  {i \in u.items : IF i[1] \in failed THEN ~IsLocal(i)
                   ELSE IF i[1] \in P THEN i = Selected(w, u, i[1]) ELSE IsLocal(i)}
NoPhase(u, P, failed) == {i \in u.items : ~IsLocal(i) /\ Local(i[1]) \in u.items /\ i[1] \notin P \cup failed}

\* What picosat may answer.  What the assumptions imply holds; when everything
\* else can be as its phase asks, but for the packages that this forces, it is.
\* When it cannot, any model may come out.
Answers(w, u, known, assume, failed) ==
  LET all == Models(w, u, known, assume)
      implied == {i \in u.items : \A M \in all : i \in M}
      possible == UNION all
      AsAsked(P) ==
        LET keep == implied \cup (possible \cap PhaseTrue(w, u, P, failed))
            free == NoPhase(u, P, failed)
            some == {M \in all : keep \subseteq M}
        IN {M \in some : \A N \in some : N \cap free = M \cap free => M \subseteq N}
      Of(P) == LET best == AsAsked(P) IN IF best = {} THEN all ELSE best
  IN UNION {Of(P) : P \in Examined(w, u, assume)}

\* The names that would go
Gone(u, M) == {n \in Uids : Local(n) \in u.items /\ Chain(u, n) \cap M = {}}

-----------------------------------------------------------------------------
(* pkg_solve_sat_to_jobs.                                                  *)

Added(u, M, n) == Remote(n) \in u.items /\ Remote(n) \in M
Dropped(u, M, n) == Local(n) \in u.items /\ Local(n) \notin M

\* pkg_solve_insert_res_job: the job for a name, or none
JobOf(u, M, n) ==
  IF Added(u, M, n) /\ Dropped(u, M, n) THEN <<[type |-> "upgrade", item |-> Remote(n), old |-> {Local(n)}]>>
  ELSE IF Added(u, M, n) THEN <<[type |-> "install", item |-> Remote(n), old |-> {}]>>
  ELSE IF Dropped(u, M, n) THEN <<[type |-> "delete", item |-> Local(n), old |-> {}]>>
  ELSE <<>>

\* What is installed when every job has been done
Target(w, u, M) == (Installed(w) \ u.items) \cup M
=============================================================================
