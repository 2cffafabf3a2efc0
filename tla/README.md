# A TLA+ model of ravensw

ravensw is a package manager, a fork of FreeBSD's pkg: a library, `libpkg`, and a
program, `src/`, with one C file per command.  This directory holds TLA+ modules
that model the parts of it where order, failure and concurrency decide what
happens to an installation, TLC configurations that check them on small
instances, and TLAPS proofs of what matters most for every instance.

Paths in this text are relative to the repository (`libpkg/pkgdb.c`).

## 1. The system

### 1.1 Components

| Component | Code | State it keeps | Operations | What makes it correct |
|---|---|---|---|---|
| database lock | `libpkg/pkgdb.c` 2727-3035, every command | tables `pkg_lock`, `pkg_lock_pid` in local.sqlite | obtain, upgrade, downgrade, release, reset | exclusive excludes all, one advisory, readers counted; commands give back what they took; a lock left by a killed process is got past |
| installation and removal | `libpkg/pkg_add.c`, `libpkg/pkg_delete.c` | the files under the root, hidden temporary files, the open SQLite transaction | `pkg_add`, `pkg_add_upgrade`, `pkg_delete`, rollback | files and rows tell the same story at every point where somebody may look, whatever failed |
| local package database | `libpkg/pkgdb*.c` | local.sqlite: packages, files, directories, options, scripts, annotations | register, unregister, set, annotate, query | changes by whole packages, one owner per file |
| jobs | `libpkg/pkg_jobs.c` | a job list with priorities, requests, the universe | add, solve, fetch, apply, execute | dependencies before dependants, conflicting packages removed first, nothing left half done without an error |
| universe and conflicts | `libpkg/pkg_jobs_universe.c`, `libpkg/pkg_jobs_conflicts.c` | candidate packages by uid, a tree of path hashes | process deps, shlibs, provides; register conflicts; select candidates | closed under what the solver needs; symmetric conflicts |
| solver | `libpkg/pkg_solve.c`, `libpkg/pkg_cudf.c` | variables and rules, picosat | rules from the universe, assumptions, reiteration, jobs from an assignment | the jobs lead to a consistent installation that satisfies the requests |
| catalogue update | `libpkg/repo/binary/*.c`, `libpkg/pkg_repo*.c` | one SQLite file per repository, meta and digests | fetch, verify, rebuild, roll back | the catalogue is the old one or the new one, not a mixture |
| fetching and cache | `libpkg/fetch.c`, `libpkg/ssh.c`, `libpkg/repo/binary/fetch.c`, `libpkg/clean_cache.c` | partial files, mirrors, the cache directory | fetch with retries and resumption, clean | the cache holds whole files with the catalogue's checksum |
| algorithms | `libpkg/pkg_version.c`, `libpkg/merge3.c`, `libpkg/pkg_deps.c` | none | compare versions, merge config files, parse formulas | an order; a merge that loses nothing; the formula's meaning |
| objects, manifests, printing | `libpkg/pkg.c`, `libpkg/pkg_manifest.c`, `libpkg/pkg_printf.c`, ... | one package in memory | parse, print | not modelled |
| registering, packing, ELF | `libpkg/pkg_ports.c`, `libpkg/pkg_create.c`, `libpkg/packing.c`, `libpkg/pkg_elf.c` | archives | create, register from a stage directory | not modelled |
| repository creation, signing | `libpkg/pkg_repo_create.c`, `libpkg/rsa.c`, `libpkg/pkg_checksum.c` | one manifests file that worker processes append to, their sockets, the parent's digests | create, fork, append, collect, sort, pack | every archive is in the catalogue once, where its digest says; a creation ends |
| audit | `libpkg/pkg_audit.c` | the vulnerability file in memory | match | not modelled: reads only |
| configuration, events, plugins, scripts | `libpkg/pkg_config.c`, `libpkg/pkg_event.c`, `src/event.c`, ... | options, callbacks | the SIGINT clean-up list matters to installation | as far as installation needs |
| Ada ports | `ada_source`, `ravensw2` | | unfinished rewrites beside the C program | not modelled |

### 1.2 How the parts interact

A command opens local.sqlite, takes a lock on it (`pkgdb_obtain_lock`), does its
work and releases the lock.  Locks are rows of the database, so they bind every
process on the machine and survive the process that took them.

`install`, `upgrade`, `delete` and `autoremove` take an advisory lock, build a
universe of packages from the local database and the catalogues, have the solver
choose jobs, fetch the packages, check them for file conflicts (and solve again),
and then upgrade to the exclusive lock and execute the jobs in the order of their
priorities.  `add` and `register` go straight to the exclusive lock and to
`pkg_add`.  Each job is one installation, upgrade or deletion: an SQLite
transaction around changes of the file system that SQLite knows nothing about.

What makes it hard:

* two processes interleave between any two SQL statements, and a lock operation
  is several statements;
* processes are killed at any point, SIGINT runs a rollback of its own, and pids
  are used again;
* the file system has no transaction, so installation has a window in which rows
  and files differ, and many exits from it;
* a job list is executed one by one and stops at the first failure;
* fetching retries, resumes and changes mirrors.

PROJECT.json lists each hazard at its line with the properties that watch it.

## 2. Modules

| Module | What it is |
|---|---|
| `PkgdbLock` | the lock of libpkg/pkgdb.c and the lock calls of the commands |
| `MCPkgdbLock` | instances of it, and two statements of comments about it |
| `PkgdbLockProofs` | type correctness, exclusion, the reader count and what is left in the end, proved |
| `Packages` | packages, files, directories and the value of the package database, as constants and operators |
| `PackageDb` | abstract specification: the database changes by whole packages |
| `PkgTransaction` | pkg_add, pkg_add_upgrade and pkg_delete with disk, database and faults |
| `MCPkgTransaction` | instances of it |
| `PkgTransactionProofs` | types, consistent rows, the refinement of PackageDb, file ownership, and that the disk follows the database, proved |
| `PkgJobs` | the loop of install and upgrade: solve, check for conflicts, ask, fetch, check, execute |
| `MCPkgJobs` | instances of it, and a statement of a comment about it |
| `PkgJobsProofs` | only what was shown is done, and only what is fetched, and clashes are found, proved |
| `RepoServer` | a repository and its mirrors, as the environment of the next three |
| `RepoUpdate` | the update of a catalogue, with SIGINT, SIGKILL and failing steps |
| `PkgFetch` | fetching packages into the cache: mirrors, retries, resumption, checksums |
| `RepoClient` | a machine that updates and installs, composed of the three |
| `MCRepoClient` | instances of it, one for a statement of a manual page |
| `RepoUpdateProofs` | what a failed update leaves, what "up to date" means, and that the catalogue never goes back, proved about RepoClient |
| `PkgFetchProofs` | cache, mirrors and what is installed, proved about RepoClient |
| `PkgSolve` | the rules of the solver and what it may answer |
| `PkgUniverse` | from the command line to requests and to the universe |
| `PkgPriority` | priorities, split upgrades and the sort of the jobs |
| `PkgPlan` | request, universe, solver, conflict check, order and execution, composed |
| `MCPkgPlan` | an instance of it |
| `PkgPlanProofs` | plans keep dependencies whole and files apart and are carried out as they are, proved |
| `TextMerge` | the edits between two texts and the three-way merge, with what a merge should do |
| `TextMergeProofs` | that the edits lead where they should and the merge is what it should be, proved for all texts |
| `PkgVersion` | the comparison of versions, with the order its comment documents |
| `PkgRepoCreate` | `pkg repo`: a parent, its workers, the files, locks and sockets between them |
| `PkgConfigFile` | a configuration file through installs, upgrades, deletions and edits |
| `PkgRelease` | a release from its creation to the upgrade of a client, composed of the four |
| `MCPkgRelease` | an instance of it |
| `PkgReleaseProofs` | the catalogue a creation publishes is true, the administrator's lines stay and versions are in the documented order, proved |

### 2.1 PkgdbLock

State: the rows of `pkg_lock` (a sequence, since the reset code can leave none or
two), the pids of `pkg_lock_pid`, and for every process the command it runs, the
stage of the command and the next statement of the lock call it is in; and `txn`, the
transaction some process has open, with the two tables as they are committed.  The grain
is one SQL statement: `TrySucceeds`/`TryFails` are the UPDATE of `pkgdb_try_lock`,
`WritePid` the INSERT of the pid, `CheckPid` the loop over the pids with kill(pid, 0),
`ResetLock`, `RemovePid`, `DeleteRow`, `InsertRow` the reset path, `Unlock` and
`DropPid` `pkgdb_release_lock`.  The UPDATE statements are data: `Matches` is their
WHERE clause and `Updated` their SET.

A command is the sequence of lock calls it makes:

* `query` (info, query, which, ...): read lock; `userQuery`: the same by a user who
  cannot write the database, whose statements fail with SQLITE_READONLY;
* `modify` (add, set, lock, register, annotate -A): exclusive lock;
* `annotateShow`: annotate -S, which asks for a read lock and releases an exclusive one;
* `jobs` (install, upgrade, delete, autoremove): advisory lock, upgraded by
  `pkg_jobs_execute`, which releases the exclusive half;
* `check`: advisory lock, upgraded and downgraded around each change, with the
  nested upgrade of `fix_deps`.

A statement commits by itself unless its process is inside a transaction.  `Begin` opens one where
packages are registered or values set, and `End` is its COMMIT or ROLLBACK, except that pkg_add
jumps over it when a script fails (libpkg/pkg_add.c:1251) and leaves it open (`ends` FALSE).  What the
command then writes, `pkgdb_release_lock` included, is in the transaction, and `pkgdb_close`
undoes it (`Close`).  As long as there is a transaction, the writes of every other process fail with
SQLITE_BUSY and its reads see the committed tables: `TryBusy` ends the call, an INSERT that
fails loses a lock just taken, and the reset path, which looks at no result, goes on without having
changed anything.

`Crash` kills a process between two statements, which undoes its transaction; `Start` may give a
pid to a new one.

The history variables `granted` (what each process was told it has) and `breach`
(how a process changed a lock that was not its own, or left its own behind) are for the properties only.
A breach is one of: `reset` (a reset hit a holder), `release` (a release freed another
process's lock), `convert` (an upgrade or downgrade used another's advisory lock);
the others leave something behind and harm no exclusion (`LeftBehind`): `kept` (a command ends with a
lock it never released), `undone` (its release was rolled back) and `late` (its pid stayed because the
database was busy).

Assumptions about SQLite: a transaction is small enough for its cache, so that readers are never
kept out, and COMMIT is atomic.  The transaction in which `pkgdb_open_all` may upgrade the schema
(libpkg/pkgdb.c 329-344) is left out, and so are the statements of commands other than BEGIN and its end.

`pkg_jobs_execute` drops the pid while the advisory lock stays, check ignores a failed
downgrade, `fix_deps` upgrades twice: these are in the model as they are in the code.

### 2.2 Packages, PackageDb, PkgTransaction

`Packages` has the database as a value: the version installed under each name and the
owner of each path.  `Registered` is the effect of `pkgdb_register_pkg`'s statements:
INSERT OR REPLACE takes the rows of the replaced version with it, a file that another
package owns keeps its owner.

`PkgTransaction` is one process at a time, which is what the exclusive lock is for.
`saved` is the committed database and `db` the connection's view.  An `add` session
is `exec_add`: a list of packages, going on after failures; a `jobs` session is
`pkg_jobs_execute`: installations, upgrades and deletions, stopping at the first
failure.  In both the next package is any package: the order that jobs puts them in
is not assumed.  `pc` follows `pkg_add_common`:

    register -> preInstall -> extract -> [oldScript -> oldFiles -> oldDirs] -> finalize -> commit
                                 |                                                |
                                 +-> rollback ----------> abort <-----------------+

and `pkg_delete`: `preDeinstall -> delFiles -> delDirs -> unregister`.  Every entry that
is extracted, every unlink, rename and rmdir is a step, in any order.  Exits that jump
to `cleanup` without `pkgdb_register_finale` leave `inTx` TRUE, as the code does.

Faults: a script that fails, an entry that cannot be extracted, a rename or an
attribute that fails, COMMIT or a DELETE that fails, SIGINT, SIGKILL.  `MaxFaults`
bounds the number of different kinds in one behaviour, not how often one occurs.

History variables: `touched` (paths the operation under way has changed), `adrift` (paths
changed by operations that were broken off, or claimed by force) and `said` (packages the
session was told are installed).

Abstractions: directories are one level deep; contents are the name and version a file
comes from; the merge of config files and .pkgnew, hard links, flags and owners, metalog,
rc scripts and post scripts are left out; PERMISSIVE is `force` as far as conflicts go;
a dependency that pkg_add installs is an add of its own; whether a package is locked is
left open at the two places that ask.

### 2.3 PkgJobs

One command from its first solution to its exit, `src/install.c` 233-262 around
`pkg_jobs_solve` and `pkg_jobs_apply`:

    solve -> startCheck -> check -> confirm -> fetch -> startCheck -> check -> execute -> exit
      ^                      |         ^                                |
      +----------------------+         +------- solve <-----------------+

Files of a package that is not installed are known only when its archive is in the
cache.  So `pkg_jobs_solve` checks its plan itself when nothing is to be fetched
(`loop = "solve"`), and otherwise `pkg_jobs_apply` does after fetching (`loop = "apply"`);
a conflict is registered with the items, the list of jobs is emptied and the solver
is asked again.  `solved`, `needFetch` and `hasConflicts` are the code's variables that
decide who does what, and most of what can go wrong is in how they go together.

A plan is the version each name is to have; `Jobs` are the names it changes, `ToInstall` the
items that must be in the cache.  `CheckPath` is one round of the loop over the files of
one item: `FoundOn`/`AfterTree` are `pkg_conflicts_check_all_paths` with the tree of paths,
`AfterLocal` is `pkg_conflicts_check_local_path`, `RegisterChain` registers a conflict between
all of one chain and all of the other.  A conflict names a uid and one digest, and an item has
at most one per uid: `conflicts` holds items, `HasUid` looks at the names, as the code does.

`db` uses `Registered` and `Unregistered` of `Packages`: a job here is what PkgTransaction
proves a job to be when it succeeds, a change by one whole package.

Abstractions: the solver answers with any plan free of registered conflicts, which is more
than it would (dependencies and the request are left out); every package is in the universe;
an item of the catalogue equal to the installed one is the installed one; conflicts that
catalogues declare, replacements, file sizes, -F, deinstall, autoremove and the order of the
jobs are left out: `execute` takes them in any order, and splits any upgrade whose installed
version has a conflict.  The tree of paths is without collisions of the hash.  `inspected`
(what the last check could read) is a history variable; `shown` records the plan of the last
summary that was agreed to.

### 2.4 RepoServer, RepoUpdate, PkgFetch, RepoClient

Publications are numbered.  A host serves one of them, a mirror follows the site when it
likes, and a catalogue is known by the publication its packages come from (0 while it has
none), whether its tables are there, and its modification time.

`RepoUpdate` follows `pkg_repo_binary_update`: ask for a meta file that is newer than the
time found (`StartTime`), write it, ask for packagesite, move the old catalogue aside
(`Move`), register the rollback (`Arm`), build the new one (`Create`, `Schema`, `Open`,
`Commit`), and then either remove the old one or put it back (`Restore`, `Rename`,
`UnlinkTemp`), and set the times (`Stamp`, `StampMeta`).  Each is a system call or a
statement, so a signal strikes between any two.  `Interrupt` is the callback that the
handler of SIGINT runs; `Kill` is SIGKILL, or SIGINT while no handler is installed.

`PkgFetch` has the cache as one file for each package and build, and a file as the sequence
of the builds its blocks come from: a resumed file may mix two.  `Measure` is the sum over
all packages in `pkg_jobs_fetch`, and with a sum of zero nothing is looked at; `Stat`, `Connect`,
`Transfer`, `CheckSize`, `CheckSum`, `Again` and `Failed` are `pkg_repo_binary_try_fetch` around
`pkg_fetch_file_to_fd`; `NextHost` is its choice of the next mirror.

`RepoClient` composes them: an installation wants the builds that the catalogue of its
beginning lists, while the site goes on publishing.  A storm is a span of time in which
commands may fail; a behaviour has storms that strike the catalogue or storms that strike the
cache, since the product of both would be too large and their states are not shared.

Abstractions: two updates at the same time, SQLite's journals, ssh and file URLs, and the
disk being full are left out; a repository without a meta file is what a host that never answers
for it looks like; the signature is right or wrong.

History variables: `wrote` (this update has written .meta), `found`, `newest`, `blemish` (what the times
on disk suffer from since an update last went well: `killed` at work, `failed` after .meta was written,
`lagging`, a packagesite older than the .meta beside it, and, for `NeverBack` and `Restored`, `stale`,
`untimed` and `late`), `asked`, `why`, `skipped`, `suspect`.

### 2.5 PkgSolve, PkgUniverse, PkgPriority, PkgPlan

A problem is what a command starts from: the installed names, what the catalogue offers for each,
dependencies, pairs of packages with a file in common, the marks (locked, automatic, vital), and the
command line.  A package is a name and a side, local or remote, as the solver's variables are.

`PkgUniverse` is the recursion of `pkg_jobs_universe_process` and its callers with the order in
which packages join, because it stops at the first dependency that cannot be found and what is
left out depends on that.  The recursions are functions of their depth, nested as deep as the code's can
nest (each call that calls again marks one package more, or asks for a higher priority up to the limit), so
that they can be proved about.  `PkgSolve` has the rules as predicates of a set of true variables;
`Answers` is every set picosat may return: a model that satisfies the assumptions and,
as far as that is possible, the preferred phases of the variables.  `PkgPriority` is the recursion over priorities with
its limit, and the order of the sort.  `PkgPlan` composes them: `Requested`, `Solved`, `SolvedAgain`
(the second opinion when something would be deleted), `Unsolved` and `Answer` (a request is
dropped after a failure, then by asking), `Checked`, `SetsPriority` (one job after the other, all
anew after a split), `Order`, `Do`, `Stops`, `Finish`.  `solved` is a history variable: the universe the
answer was made for, which owners of files join afterwards.

Abstractions: one package of a name on each side; shared libraries and provides, which make rules like
dependencies; conflicts that catalogues declare and replacements; fetching.  On automatic packages
that depend on each other `pkg_jobs_test_automatic` does not return; the outcome `endless` then ends the
command.

### 2.6 TextMerge, PkgVersion, PkgRepoCreate, PkgConfigFile, PkgRelease

`PkgRepoCreate` is `pkg_create_repo` and `pkg_finish_repo`, with a process for each worker:

    parent: Create -> Fork ... -> Mark -> (ReadDigest | ReadEnd -> Wait) ... -> Sort -> WriteMeta
              -> PackMeta -> PackManifests -> PackDigests
    worker: Lock -> Seek -> Write -> Unlock -> Send ... -> Finish

The workers of one creation inherit one open file description.  Two things follow which
the module has as variables: they share its `offset`, and flock(), which belongs to the
description, excludes the workers of other creations but never each other.  `file` is what an
inode holds, `path` the inode that has the name, and `Written` is a write at an offset, which
leaves zeros (`Hole`) when it is beyond the end.  Each worker holds both ends of its socket, so
that it sees no end of file when its parent is gone, and blocks for ever when the socket is
full.  Faults: an archive that does not open (`Skips`), a digest or manifest that cannot be made or
written (`GivesUp`), a worker or the parent killed, fork and signing that fail.

`PkgConfigFile` cuts an upgrade where the program may die: the temporary file is there
(`extracted`), the new vanilla text is in the open transaction (`updated`), the old file is
unlinked (`unlinked`), the new one renamed (`renamed`), the transaction committed.
`Untouched`, `Merge` and `Beside` are the three outcomes of `attempt_to_merge`.  Ghosts say what
the program does not know: whose text the file was last brought to (`level`), which lines
are the administrator's (`own`), which he took out (`removed`), that the next merge starts from
a text the file never had (`behind`), and that he wrote while an operation ran (`raced`).

`TextMerge` and `PkgVersion` are pure: `TextDiff` and `Merge3` are diff.c and merge3.c step by
step, `VersionCmp` is the loop of `pkg_version_cmp` over `get_component`.  Each comes with what it should
do, defined another way: `BothEdits` says of every line of the origin whether it is kept and of
every gap what is inserted there; `Documented` finds the first component that differs by
counting separators, as the comment above `get_component` (libpkg/pkg_version.c 116-145) explains it.

`PkgRelease` composes them.  The archives of a release are deposited and a catalogue is made of
them; what a catalogue offered is appended to `published`; when the makers are done, `Hand`
forgets all of them but that list, and a client updates to any later catalogue, upgrades when `VersionCmp` says
that the version there is higher, and merges its file.  The client reads nothing of the makers
but catalogues, so that taking its steps afterwards loses no behaviour of either.  An
initial state may also be a probe: one version, or three texts, for which the pure operators
are checked.

Abstractions: a manifest has length 1; no file lists (-l), no names from a meta file (-m);
`Exits` stands for everything from the end marker to the exit of a worker; a version is a sequence of
tokens (`IsVersion`) whose numbers fit the code's integers, a run of letters being one of the stages or the
place of its first letter in the alphabet; a text is a sequence of lines that all
end with a newline, short enough for the limits of diff.c (a dozen entries of a hash chain, a
product of lengths below 400) not to matter; one configuration file, listed by every release.

## 3. Runs

| Run | Question | Result |
|---|---|---|
| `lock` | do locks exclude each other, count, get released and recovered? | passes |
| `lock_reset` | is a reset safe, as the comment says? | violated |
| `lock_annotate` | does an exclusive lock allow no other lock, as pkg.h says? | violated |
| `transaction` | do rows and files agree, does the database change by whole packages? | passes |
| `transaction_root` | is a failed add cleaned up under another root? | violated |
| `transaction_add` | is a package that add reports as installed installed? | violated |
| `jobs` | is what is executed what was shown, fetched and checked, and does it end? | passes |
| `jobs_late` | are conflicts resolved when a second plan is executed? | violated |
| `repo` | is the catalogue the old or the new one, the cache what the catalogue lists, and does a machine catch up? | passes |
| `repo_mirrors` | are the mirrors of an HTTP list tried in order? | violated |
| `plan` | does a plan, and every step of it, leave a consistent installation? | passes |
| `release` | is a catalogue made by several processes complete, is the higher version found, does a merge keep what the administrator wrote? | passes |

### 3.1 lock

Two processes, all commands but annotateShow, READ_LOCK on, one retry, one kill.
`ExclusionUnlessBreach` lists the only ways to lose exclusion: while no process has
changed a lock not its own, an exclusive lock excludes the others.  States after a
breach are cut off by the constraint `Bounds`, since no invariant speaks of them; the
violation runs show that breaches exist.  `ReadersCounted`: the count is at least the
number of readers (a killed reader leaves it above).  `AllReleased`: with no kill and no
breach the tables are as before when all commands have ended.  Its exceptions are what the code does:
an add whose pre-install script fails releases its lock inside the open transaction, which is
rolled back, so that the exclusive row and the pid stay until the next command finds the process dead
(`undone`); a process that removes its pid after taking no part in the lock any more may find the database busy
(`late`); annotate -S (`kept`).  `Recovers`: a command that
is alone gets its first lock whatever killed processes have left, unless its own pid is
in the table.  Two processes are enough for each pairwise statement, and the proofs cover
any number for all but `Recovers`; one retry makes both the retry and the giving up happen;
the reader count is cut off above three, which a reused pid can otherwise raise for ever; and
`OneLeftBehind` cuts off behaviours in which one release was undone and another process's pid stayed,
which double the states and hold nothing new for two processes.
Commands may stop for ever anywhere, so deadlock is not checked.

Fairness: weak fairness of the statements of a lock call.  A process inside a call does
not wait for anybody: SQLite returns after its busy timeout and nanosleep ends.  Nothing
is assumed of when commands start or end.

### 3.2 lock_reset, lock_annotate

`lock_reset`: two commands that want the exclusive lock.  One takes the row; before its
INSERT into pkg_lock_pid the other finds the row taken and no pid, and resets it.
libpkg/pkgdb.c:2870 says "No live processes found, so we can safely reset lock".

`lock_annotate`: annotate -S, with READ_LOCK off, takes no lock and frees the exclusive
one (src/annotate.c:254 and 368).

What else the model shows of the code: a transaction lasts as long as its package is extracted, and a
command that asks for its lock meanwhile gets SQLITE_BUSY after SQLite's 5 seconds and gives up, at the
first of the attempts that pkg.conf(5):156 speaks of (`TryBusy`).

### 3.3 transaction

Two packages, one with two versions of which the second drops a file and a directory and
adds a file that the other package has too; three files, two directories; both kinds of
session, with and without force; every kind of fault, one kind per behaviour.  This has
an upgrade over shared files and directories, a file conflict forced and not, deletion
beside another package's directory, and each fault at each step.  Deadlock is checked.

`DiskMatchesDb`: a path that is neither touched by the operation under way nor adrift holds
what the committed database says.  `DirsKept`: the directories of an installed package are
there.  `DbConsistent`: rows belong together.  `OwnersKept`: nobody takes over a file.
`AtomicDb`: PackageDb is implemented, with `pkgs <- saved`.

### 3.4 transaction_root, transaction_add

`transaction_root`: `FailedAddIsClean`, that no temporary file remains of an extraction that failed or was
interrupted, is violated: with another root directory `pkg_rollback_pkg` passes absolute names to
unlinkat (libpkg/pkg_add.c:1146; `pkg_extract_finalize` uses RELATIVE_PATH), so it removes
nothing of the package.  `transaction_add`: a pre-install script fails, the transaction with
the registration stays open, a second add of the package in the same command finds it
installed and reports success, and closing the database rolls it back.

### 3.5 jobs

Three packages: every version of a and of c has one file, the second version of a fights with b over
another; b has a new version.  Starts from nothing, b, or a and b installed, and any even number
of the five archives in the cache, with both of c's or none: conflicts are then found in the first loop, in
the second, in both, between the catalogue's items and with installed packages, between
two names with several versions each, and for some packages only after they were fetched.  Every failure may
happen at every step.  The command really stops at `exit`, so deadlock is not checked.

`OnlyAgreedChanges`: a plan that replaces the one shown is shown in turn.  `FetchedBeforeUse`:
all that is executed is in the cache.  `ReadableClashesFound`: no two packages that are executed have a
conflict with each other, and two that clash are both executed only if the last check could not read one of
them, or if one has its conflict with the other's name for another version: a package has one conflict per
uid, with one digest.  This relates the tree of paths, the
chains and the order in which items are met.  The second exception is needed as soon as two names that clash
have several versions each: with two versions of a and of b all with one file, the conflicts a1-b1, a2-b1 and
b2-a1 are registered, each item has one for the other's name, and a2-b2 is passed over.  `Ends`: the loops end.

Fairness: weak fairness of `Next`, a single process that goes on, with a user who answers; fetching
and scripts return.  Since conflicts are only added, and each round of a loop adds one, no
assumption about the solver is needed.

### 3.6 jobs_late

`jobs_late`: nothing fails.  The first plan is checked in `pkg_jobs_solve` and given up for a
conflict; the second one has c, which a clashes with and which is not in the cache, so the
check passes over it.  c is fetched, `solved` is 2, and
`pkg_jobs_apply` executes what it fetched, under the comment "Not the first run, conflicts are
resolved already" (libpkg/pkg_jobs.c:2044).  The registration of the second package notices the
file, so the command fails half way, or with -f leaves the file to its first owner.

### 3.7 repo, repo_mirrors

A site and one mirror, two publications, one storm, two packages of which one is rebuilt and
becomes smaller, an SRV list, an HTTP list and no list.  With two publications a mirror is behind,
a file is begun on one build and resumed on the other, and an update finds something newer, something older
or nothing; three tries on a list of three hosts go through the whole list.

* `Restored`: an update that fails once it has moved the catalogue aside leaves the one it found.
  Exceptions: SIGKILL, and SIGINT after the old one was removed and before the callback is
  unregistered, which deletes the new catalogue.
* `UpToDateIsTrue`: "up to date" is said only of a catalogue that is, also after a first update, which leaves
  .meta with the time at which it was written (libpkg/repo/binary/update.c:666 sets the time of a .meta that was
  there before only).  Exceptions (`Misled`), each of them something the time of .meta hides: an update that was killed
  at work; one that wrote the new .meta and then failed; and, without any fault, one that wrote .meta and
  took packagesite from a host that was behind the site.  In the last case the host follows, all mirrors have
  identical content as pkg-repository(5):206 wants it, and the next update still says "up to date" of the old
  catalogue, where pkg-update(8):35 says that a newer one is downloaded.  A .meta that was just rejected and
  left unreadable is reported as up to date once.
* `NeverBack`: an update that asks with a time never replaces a catalogue by an older one, whichever
  mirror answers.  Exceptions: a catalogue that could not be opened is asked for without a time, and
  so is the next; and an update that finds no newer .meta but a newer packagesite leaves a .meta that is
  older than its catalogue (libpkg/repo/binary/update.c:668 sets the time of one it fetched only), and the
  next update asks with that time (`stale`).  The second
  takes three publications: the proof found it, and TLC does with `MaxPub` 3, where the property
  was then checked with the storms that strike the catalogue alone; the run has two.
* `CacheSound`, `UsedAsListed`: what is installed is the build the catalogue lists.  The exception
  is `dlsize` 0: when what is still to be fetched adds up to zero, by files of the right size or by one that is too
  long and one that is too short, the files that a stopped process left are not looked at and are
  installed, although pkg-install(8):89 says that a cached package's checksum is compared.
* `MirrorsTried`: with as many tries as mirrors all of an SRV list are tried, and of an HTTP list with one or two
  mirrors.  Longer HTTP lists are the run `repo_mirrors`.
* `Converges`: a machine on which commands are run again and again gets the last publication and
  installs from it.  Exceptions: it is `Misled`, as above, and then may keep its catalogue until something is
  published after the time of .meta; or `suspect` files of a stopped process are left.

Fairness: the mirrors follow and a process that is not killed goes on (weak); storms pass, and
commands are run again and again, as periodic(8) does (strong, because either may be disabled by
the other's command each time).  Installations are stopped in storms only.

What else the model shows of the code: a rejected .meta that does not load stays and makes the catalogue
unreadable until the next publication; an update that cannot fetch packagesite removes the catalogue, which it has
not moved yet, under the comment "restore the previous db in case of failures" (libpkg/repo/binary/update.c:573), so
that `Restored` begins where the catalogue is moved; and FETCH_RETRY counts tries, not retries as pkg.conf(5):131
says, so that two of them leave the third mirror of an SRV list alone.

`repo_mirrors`: three mirrors in an HTTP list and three tries; libpkg/fetch.c:694 always goes on with the second.
pkg-repository(5):187 says that they are tried in the order listed until a download succeeds.

### 3.8 plan

Three names on both sides; all ways to have at most two dependencies and one pair with a file in common, or one
dependency and two pairs; install, upgrade, deinstall and autoremove with -f, -M, locks, automatic and
vital packages over fewer of these; a limit of six for the recursion, which no acyclic world
with three names reaches, and two failures before the solver asks.  Any job may fail.  Three names are
enough for a dependant, a dependency and a third package that clashes with one of them, and
for a chain of dependencies that is longer than one.

`PlanDeps`, `PlanClash`, `NothingLost` are about the plan; `StepClash`, `KeepsDeps`, `AsPlanned` about every
database on the way to it, also when a job fails, and `AsPlanned` about the one at the end, too; `RemovedFirst` about the halves of a split upgrade;
`Progresses` about the loop of solving and checking, for which a measure grows with every round.

Every exception in these properties is something the code does:

* a dependency nobody has is ignored: the result of `pkg_jobs_universe_process` is not looked at
  (libpkg/pkg_jobs.c 1513, 1556), and the package is installed without it, where
  pkg-install(8):147 keeps that for -M (`Missing`); a database in which something is missing already,
  as `deinstall -f` leaves it, is no better (`Whole`): an owner of a file that cannot be processed is
  passed over by the check (libpkg/pkg_jobs_conflicts.c 498);
* a name that is in the universe is not looked into again (libpkg/pkg_jobs_universe.c 253), and what was
  asked for joins it with its installed version, which is not processed: who depends on that is not
  looked for (`Overlooked`).  A world of four names shows it: 1 is installed, up to date and
  depends on 3; 4 depends on 1; `install 1 2` finds 1 in no need of an upgrade, and 2, which is new, has
  a file in common with 3.  The plan deletes 3, and 1 for it, and leaves 4 without 1;
* names that depend on each other reach the limit of the recursion and are ordered arbitrarily (`Orderly`);
* while a plan is executed a package may lack a dependency when its own upgrade comes later, which the
  comment at libpkg/pkg_jobs.c:1933 takes for granted, when the dependency is between the halves of a
  split upgrade, or when the package itself is deleted later on for a conflict (`KeepsDeps`);
* a split upgrade is installed before it is removed when a package of the universe depends on the name or the
  new owner is not in the plan, against the comment at libpkg/pkg_jobs.c:481 (`RemovedFirst`);
* a locked package has no variable: pkg-lock(8) 83-86 refuses what would change it, while
  here its dependencies are no concern of the solver;
* the comment at libpkg/pkg_solve.c:1105 allows "maximum of 10 iterations", but the user may
  be asked for ever (`Progresses` excepts `ask`).

The command ends at `done`, `failed` or `refused`, so deadlock is not checked.

### 3.9 release

Three archives, at most two workers and two creations, two faults, a socket that holds one
message; three releases of one package (1.0.rc1, 1.0, 1.0_1), which add, change and move lines; one
line of the administrator's own, two edits, two deaths, one deletion.  Two workers that share
three archives have unequal shares, meet in the file and fill their sockets; two creations are what
it takes for the worker of a killed one to meet the next.  The probes are all bodies of at
most three tokens, compared in pairs, and all origins of three lines with all pairs of other texts of two
lines, with repeated lines and lines of one side only.

* `CatalogueTrue`: each digest the parent has is of a manifest that is in the file, at or after the place
  it names; before packing there is one digest and one manifest of each archive.  Not at exactly the
  place: two siblings can look for the end of the file at the same time, because the lock that
  is taken at libpkg/pkg_repo_create.c:288 does not exclude them.  The manifest itself is safe,
  since they share the offset too and the write is one call.  Exceptions: something went wrong in
  this creation (`hurt`), or workers that share a lock met those of another creation (`crowded`).
* `PublishEnds`: a creation ends whatever fails, and so do its workers.  The exception is `Stuck`.
* `ConfigKept`: the file has the administrator's lines and no others besides vanilla ones (`OwnLinesKept`), and these are
  the ones of the release it was brought to, without those he took out.  Exceptions: he wrote
  while an upgrade ran, it died with the file unlinked, or (for the vanilla lines) `behind`.
  The second half is a statement about the vanilla texts of the run, which repeat no line.  There are others for which
  the formula is false of a faithful merge: where a line stands twice, he may take out
  one copy and the next release the other, and none is left; with the texts a b and b a, a line that he took out
  and the next release moves comes back, as an insertion of that release; and with a b, a b d and again
  a b, an upgrade to the second that dies between rename and commit and is followed by one to the third leaves d,
  since the merge takes d for a line he wrote.  (TLC finds the last two when these texts are put in.)
* `MergeFaithful`: the edits found lead from one text to the other; a merge without a conflict has both sides'
  edits; no conflict where one side changed nothing or both the same.
* `VersionOrder`: `VersionCmp` is the documented order, hence total and transitive.

Fairness: weak fairness of the parent and of each worker while a catalogue is made: processes
that are not killed go on.  A worker that waits for the lock or for room in its socket
is not enabled, and nothing is assumed of it.  Nothing is assumed of the client.  A client
may stop anywhere, so deadlock is not checked.

What else the model shows of the code:

* a worker that is killed or gives up, and an archive that does not open, leave packages
  out of a catalogue whose creation returns EPKG_OK: the status that waitpid gives is not looked at;
* when fork fails, the workers that were made wait for the start marker for ever;
* a parent killed, one worker killed with the lock, a sibling blocked on a full socket: the lock
  belongs to the description the sibling still has, and the next creation waits for ever (`Stuck`);
* a signature that fails leaves what there is of an archive in the directory, under its final name;
* an upgrade that dies between unlink and rename loses the edited file, and the next one installs
  the vanilla text as if there had never been one;
* an upgrade that dies between rename and commit leaves the new text with the old origin: run again, the
  merge may bring back lines taken out meanwhile, or insert the same change twice;
* after a .pkgnew that nobody merged, the next merge starts from a text the file never had;
* deleting a package, and the first half of a split upgrade, remove an edited file.

## 4. Proofs

Assumptions: those named in the modules (`ProcsAssumption`, `OptionsAssumption`,
`PackagesAssumption`, `SessionsAssumption`, `JobsAssumption`, `ServerAssumption`, `UpdateAssumption`,
`FetchAssumption`, `ClientAssumption`, `CreateAssumption`, `ConfigAssumption`, `ReleaseAssumption`,
`SolveAssumption`, `PriorityAssumption`, `PlanAssumption`), which TLC
evaluates in every run.  They say what the constants
are: finite requests, at least one name, limits that are numbers, at least one host in a list, sizes that are positive, a chain that has
every version, a directory that lists each archive once (fts does), a release for each creation, texts that are sequences
of lines, of which those that are in no vanilla text are the administrator's, probed versions that are versions.  One theorem has a hypothesis of its own: `ClashesFound` assumes `Whole` of the
databases the command may find: each installed package owns
all its files.  Without it the statement is false: after a forced installation a file belongs
to another package, and `pkg_conflicts_check_local_path` asks the database for the owner of a path
only.  The run's databases have it, and so has every database that was never forced.

Each proof is an invariant that is inductive, checked by TLC before it was proved:

| Module | Invariant | Theorems |
|---|---|---|
| `PkgdbLockProofs` | `IInv`, `Settled` | `TypeCorrect`, `ExclusionHolds`, `ReadersAreCounted`, `EverythingIsReleased` |
| `PkgTransactionProofs` | `DbInv`, `DiskInv`, `DirsInv` | `TypeCorrect`, `RowsBelongTogether`, `ImplementsPackageDb`, `FilesKeepOwners`, `DiskFollowsDb`, `DirectoriesStay` |
| `PkgJobsProofs` | `JobsInv`, `ClashInv` | `NothingUnseen`, `AllFetched`, `TypeCorrect`, `ClashesFound` |
| `PkgPlanProofs` | `UniverseInv`, `RequestInv`, `CalmInv`, `AnswerInv` | `DependenciesPlanned`, `NameKept` |
| | `JobsInv`, `ExecuteInv` | `LockedStay`, `CarriedOut`, `FilesApart` |
| | `TypeInv` | `TypeCorrect`, `SolvingProgresses` |
| `RepoUpdateProofs` | `UpdateInv` | `UpToDate`, `FailedUpdateRestores`, `NeverBackToOlder` |
| `PkgFetchProofs` | `FetchInv` | `ClientTypes`, `TheCacheIsSound`, `AllMirrorsTried`, `InstalledAsListed` |
| `PkgReleaseProofs` | `MakersInv`, `ClientInv` | `CatalogueIsTrue`, `ReleaseIsTyped` |
| | `OwnInv` | `OwnLinesStay`, `ReleaseMerges` |
| `TextMergeProofs` | (no state) | `DiffLeads`, `MergeOfAnyTexts`, `OwnLinesMerged` |

**The lock**, for any finite set of pids and any options.  Exclusion is not
inductive: a process that was granted a lock must be known to have its mark in the row.
`IInv` strengthens it with what the row says of every granted lock as long
as no process has changed another's (`Safe`): an exclusive lock is there only with the exclusive flag, an
advisory lock only with the advisory flag, and the number of read locks is at most the
count.  A transaction needs more, since a rollback brings back the row that is committed: `Grants` says
which lock each place in a command has been given, so that who begins a transaction holds the exclusive
one; and `OneWriter`, that there is one transaction at most, that what it hides is at most one row, and that nobody
but its process holds a lock while it is open.  The reader count needs facts about cardinality when a process joins or leaves
the set of readers.  That everything is released needs the other direction, which holds as
long as nobody was killed: `Exact`, the row has no mark and no count without a process that was
granted it; and `Account`, what each place in a command says of what its process holds and of its pid.

**The transaction**, for any packages, files, directories, faults, and for `RootIsSlash` either way.
`DbInv` is types, `Control` (what each `pc` implies for `op`, `inTx`
and `db`) and `DbConsistent`.  The point of `Control` is that inside an installation the
connection sees exactly the committed database with that package registered: then COMMIT
is one `Register` of `PackageDb`, and an autocommitted DELETE one `Unregister`, which is the
refinement `Spec => AtomicDb`.  `OwnersKept` follows from the same two kinds of step.

**The disk.**  `DiskMatchesDb` is not inductive either: at COMMIT the database starts to speak
of the new version, so all its files must be in place by then and all other files of the
old one gone.  `DiskInv` says, for each `pc`, which temporary files there are, that the
remembered files of the old version are those the database had, and which files the loops
have visited.  `DirsInv` adds that the directories of the new version are there once its entries are
extracted (`NewDirsMade`), and that an operation removes no directory of which the database it is
about to commit has a row (`UsedDirsKept`): the registration comes first and so protects them.

**The jobs**, for any catalogue, chains, databases, caches and answers of the solver.
`JobsInv` says: in `fetch` and `execute`, and during a
check of `pkg_jobs_apply` that has met no conflict, the plan is the one that was shown;
`pkg_jobs_apply` never solves again without noting a conflict (`LoopNoted`); and unless
`needFetch` is set, or when the plan has been fetched, all of it is in the cache.  Executing keeps
the last part because a job changes the version of its own name only (`JobShrinks`).  What the check
finds does not matter for either, so its data are not in it.

`ClashInv` is about nothing else.  While a check goes on, a path that was visited is in the tree, and the item
was told of all that stand before it in the path's list (`Compared`) and told to all installed packages
that have it (`ComparedLocal`), unless a conflict was found, in which case the plan is
given up (`Checked`).  The lists only grow and keep their order (`TreeStable`), so that of two items of
one path the later was told of the earlier, whichever came first (`OneIsTold`).  A check that ends without
a conflict has visited everything, so any two items that clash were told of each other's names (`Passes`); and
no plan has a pair with a registered conflict, since the solver saw them (`Apart`).  The walk round
a chain is stated without recursion: the first foe is the one at the least distance (`FirstFoe`), and that
there is a least one is the only induction in the proof.

**The plan**, for any number of names, any problem (`Problems`: dependencies with cycles, any clashes
between packages that are not both installed, any marks), any limits, any answer of the solver.  The run has
its initial states from small sets; the theorems are about `Spec`, whose initial states are all problems.
A universe is `Fit` when it holds packages that exist and are not locked, and with what the catalogue offers
of an installed name the installed package; it is `Complete` when what was processed has its dependencies and
dependants in it, provided nothing is missing anywhere, and every package of the catalogue in it was processed.
That `Process` makes fit and complete universes of such (`ProcessFacts`) is an induction over the depth
of its recursion with a measure, the packages not yet marked (`Left`): a call that has
enough depth for these never reaches the bottom, so the bound of the model is not a bound on what is
proved.  The loops over lists of names (`ForEachInduction`), over rounds of dependants (`WithDependantsFacts`)
and the test for automatic packages (`TestFacts`: who passes is in a set that is closed under
dependants and free of locked ones) are inductions of the same kind.

`CalmInv` is why an install that meets no conflict loses nothing: all that is installed or asked for, and
nothing else of these names, is a model (`CalmInstall`), so nothing fails, and the phases
lead to a model with every name in it; for a deletion, the universe without the requests is the only one
(`CalmDelete`).  `AnswerInv` keeps the rules true of the answer while conflicts are registered, because
a check that registers something new gives the answer up.  `DependenciesPlanned` then has one case for each
way to be installed in the end: a package with a variable obeys its rule or has a dependency that has no
variable, which is installed and stays; one without a variable has only dependencies that nobody may remove,
since a dependency that was processed has all its dependants in the universe, and one that was not is `Overlooked`.
For `FilesApart`, a package that comes has a job, by `JobsInv`, so the check compares it (`ComparedFacts`) with
what comes and with what is installed; what that finds is registered already, between packages that have
variables, and the rules exclude it (`NothingNew`).

`JobsInv` says of any order and any number of splits that the jobs together install what the answer
adds (`Come`) and remove what it takes away (`Go`); `ExecuteInv`, that the database is what it was, changed
by the jobs done so far.  Both only need that what is installed by jobs is remote and what is removed is local,
so the order does not matter for the end.  For the way there it does, and that part is only
model-checked (`StepClash`, `KeepsDeps`, `RemovedFirst`).

**The catalogue**, for any hosts, publications, storms and faults.  `UpdateInv` has, beside types and
control: which name the catalogue that was found is under (`Kept`, unless a process was killed);
that with nothing gone wrong the times of catalogue and .meta are those of their publications
(`Timed`); and that no host is ahead of the site and no time in the files is behind the publication of the last
update that went well (`Ages`).  `NeverBack` follows from the last part, and failed to, until the stale
.meta of section 3.7 was named.

**The cache**, for any packages, builds, sizes, hosts, requests and number of tries.  `FetchInv` has what each
place of `pkg_repo_binary_try_fetch` says of the file at hand, that what is no longer to be fetched
is whole (`Fetched`), and which hosts were asked with so many tries left (`Asked`, `Places`).  That a sum of sizes
is zero only if there is nothing to fetch is an induction over the sum of `FiniteSetsExt`, done with a set in place
of the operator that the library's theorems take (`SetInduction`).

**The repository**, for any directories, numbers of workers and creations, capacity of the sockets, and faults.
`MakersInv` has two halves.  The first is about the file: as long as the lock is not shared (`crowded`
unset), a worker that an earlier creation left has no sibling and meets one worker only (`Alone`), so the lock is
held by whoever is at the file (`Excludes`); then what is written goes behind what there is (`Ahead`), and what a
worker is about to say, has said, or the parent has heard stays true (`Promised`, `Truthful`).  Workers of one
creation do not exclude each other and need not: they share the offset, so each write advances it past all
others, and only the position in the digest may be too small.  The second half counts: the shares of the workers are
intervals that follow each other and cover the list (`Before`); each archive of a share is to be done, in
a message, or was received, in this order, and the end marker is last (`InOrder`).  So what was received is
known from the lengths alone (`Received`), the digests are one of each (`Listed`), and when all
sockets are given up it is the whole list.  In the first creation the file has as many manifests as were
written (`First`).  `ReleaseIsTyped` follows from `MakersInv` and `ClientInv`, whose part `Operated` says that
an operation is of a release and leaves in .pkgnew the text of one.

**The merge**, for any number of lines, in texts whose lines all end with a newline, and without the limits at
which diff.c stops looking (libpkg/diff.c 262, 305).  `TextDiff` and `Merge3` are recursive functions, and nothing can
be said of one before it is known that a function with its equation exists.  The library's theorems
about that take operators, so they are done here with sets in their place: `Recursion` and `Iteration` for
functions on numbers, and inductions over numbers and over a measure (`SetInduction`, `MeasureInduction`).

`DiffLeads`: a list of edits is a path from the beginning of both texts to some place in each, along which what
is copied is the same in both (`Frame`).  Joining an edit to the last one (`AppendTriple`) keeps the path, and
so does putting the paths on both sides of a common segment together; the search divides segments
that get shorter, and whichever of the two searches finds the common segment, it is one.

`MergeOfAnyTexts`: after each step, what was written is what both edits make of the lines of the origin
consumed so far, but for insertions at that place which are still to come; and what is left of each list is a rest of the
edits it began with, of whose first some lines may be copied already (`RestOf`, `Stands`).  The lines
left to copy, delete and insert on both sides get fewer with each step (`Remaining`), so that the number of
steps the model allows is enough (`MergeCloses`): the bound of `Merge3` is not a bound on what is proved.  That a merge with one side
unchanged, or with both the same, has no conflict needs the same invariant for lists that are one copy of
everything or equal to each other.

`OwnLinesMerged` follows line by line from what `BothEdits` is, and `OwnLinesStay` from that: `OwnInv` says of the
file that, unless the administrator wrote while an operation ran, its lines that are his are `own`, or that it is
missing because it is just being replaced (`Replacing`); and of the text which an upgrade has ready, that it
has these lines too, which is what makes the rename harmless, and a death before the unlink or after the rename.

**Versions**, of any length.  `VersionCmp` goes through both bodies at once, and `Documented` says where components
begin without going through anything.  They meet in `StandsAt`: the loop is, in a body, behind the first m components
of block q.  `NextBegins` says that where `get_component` ends one component the documented next one begins, or the
block is over, with a case for each kind of component; from it `KeyHere` and `NoKeyHere`, that what the loop
compares is the documented component or a zero for a missing one, and `StandNext` and `SkipOn`, that it goes on
standing so.  By induction over what is left of both bodies (`LoopDecides`, with `LoopIs` for the existence of
the recursive function) the loop decides at the first component that differs (`Verdict`), which is
`VersionsAsDocumented`.  That there is only one such place makes the comparison antisymmetric and transitive
(`VersionsOrdered`): for three versions, the earlier of two such places is the one of the outer two.

Only model-checked:

* `Recovers`, `Ends`, `Converges` and `PublishEnds`, which are liveness;
* of the run `plan`, `StepClash`, `KeepsDeps` and `RemovedFirst`, which are about the order of the jobs: that the
  recursion over priorities, cut off at its limit and begun anew after each split, puts
  dependencies first would need what its result is on every graph without cycles, including which of the
  two conflicts of a package it meets first.  `TypeCorrect` proves only that it returns priorities;
* of the run `release`, the second half of `ConfigKept`, which is false for arbitrary vanilla texts
  (section 3.9 has examples); `OwnLinesStay` is the half that needs nothing of them.

## 5. Plan

Done: the lock; the transaction; the loop of jobs, the
update of a catalogue and the cache; the creation of a repository; and the proofs about these six; requests, universe,
solver, order and execution, with proofs about all but the order; the merge of configuration files, with
proofs of what it computes and of the administrator's lines; versions, with proofs of their order.

Left, in this order:

1. `PkgDeps`: dependency formulas and their conversion to solver variables.
2. Packages that change their name: `pkg_jobs_apply_replacements` renames rows while the jobs are
   still being solved.
3. Several versions of a name in one repository, several repositories, provides and shared libraries.
4. Theorems: the order of the jobs on graphs without cycles; for which vanilla texts `ConfigKept` holds; the catalogue
   as old or new, as a refinement of an abstract specification.
5. File lists of a repository, whose parts are written by several calls.

There is one run for a group of modules that work together.  Six sentences of comments and manual pages that the
code contradicts have a violation run each: the most serious ones, and those no property of another run bears on.
The other such sentences have none.  The code contradicts them where a passing property states an
exception, and section 3 describes the trace behind each: the comments at libpkg/pkg_jobs.c:481,
libpkg/pkg_jobs_conflicts.c:241, libpkg/pkg_solve.c:1105 and libpkg/repo/binary/update.c:573; pkg.conf(5):131 and 156;
pkg-update(8):35; and pkg-install(8):89 and 147.  pkg-lock(8) 83-86 refuses more than
the solver's problem can say, so that the model has a locked package without a variable.

## 6. Not modelled

Formatting, parsing, archives, ELF and printing; schema upgrades; plugins; the Ada
rewrites; vendored libraries.  SQLite is modelled by what the code relies on: a
statement is atomic, a transaction is rolled back when its connection ends.

Of the parts that are modelled: texts that do not end with a newline, whose last line the merge
joins to the next one (tests/lib/merge.c expects that); numbers in versions beyond 64 bits, where strtoll
saturates; the names of a meta file given with -m, which `pkg_finish_repo` 922-931 does not use; file
lists (-l), where the lines of two workers may alternate; ssh; the commands that only
print.  Sections 2.1 to 2.6 name the abstractions of each module.

The larger part of the source is of the first kind: option parsing, reading and writing
manifests, formatting, plist keywords and the schema of the database make up most lines of libpkg, and they keep
no state between calls that an interleaving or a failure could damage.
