----------------------------- MODULE MCPkgJobs -----------------------------
(* PkgJobs on small instances.                                             *)
EXTENDS PkgJobs

CONSTANTS a, b, c, v1, v2, f, g, h, d

\* All versions of a and c fight over f, and the second version of a and b over g; b is
\* installed at first, or a and b, or nothing.
MCFilesOf ==
  [n \in {a, b, c} |-> [v \in {v1, v2} |->
     CASE n = a /\ v = v1 -> {f}
       [] n = a /\ v = v2 -> {f, g}
       [] n = b           -> {g}
       [] n = c           -> {f, h}]]
MCDirsOf == [n \in {a, b, c} |-> [v \in {v1, v2} |-> {}]]
MCDirOf == [x \in {f, g, h} |-> d]
MCAvailable == {<<a, v1>>, <<a, v2>>, <<b, v2>>, <<c, v1>>, <<c, v2>>}
MCChainOrder == <<v1, v2>>
MCDatabases0 ==
  {EmptyDb, Registered(EmptyDb, b, v1), Registered(Registered(EmptyDb, a, v1), b, v1)}
MCCaches0 ==
  {s \in SUBSET MCAvailable : Cardinality(s) % 2 = 0 /\ (<<c, v1>> \in s <=> <<c, v2>> \in s)}

\* libpkg/pkg_jobs.c:2044, where a plan that was not the first is executed:
\* "Not the first run, conflicts are resolved already".
ConflictsResolved ==
  pc = "execute" /\ solved > 1 =>
    \A p \in ToInstall(plan), q \in Selected(plan) : p # q => ~Clash(p, q)
=============================================================================
