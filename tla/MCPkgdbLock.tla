---------------------------- MODULE MCPkgdbLock ----------------------------
(* PkgdbLock on small instances. *)
EXTENDS PkgdbLock

\* The invariants say nothing of the states after a breach: they are not explored.
NoBreach == breach \subseteq LeftBehind

\* A pid that is left in pkg_lock_pid and used again by one query after another
\* leaks a reader each time (the INSERT fails after the UPDATE): the count is cut
\* off above one stale reader beside a reader per process.
MaxReaders == Cardinality(Procs) + 1
ReadersBounded == \A i \in DOMAIN pkg_lock : pkg_lock[i].read <= MaxReaders

\* Histories in which one release is undone and another process's pid stays are cut off.
OneLeftBehind == Cardinality(breach) <= 1
Bounds == NoBreach /\ ReadersBounded /\ OneLeftBehind

\* "No live processes found, so we can safely reset lock" (libpkg/pkgdb.c:2870):
\* a reset of the lock never takes it from a living process.
ResetIsSafe == "reset" \notin breach

\* "PKGDB_LOCK_EXCLUSIVE: does not allow other locks" (libpkg/pkg.h.in:551): a command
\* that was not given the exclusive lock does not free it while another one holds it.
ReleasesOwnLock == "release" \notin breach
=============================================================================
