--------------------------- MODULE PkgTransaction ---------------------------
(***************************************************************************)
(* Installing, upgrading and deleting packages: pkg_add_common             *)
(* (libpkg/pkg_add.c), pkg_delete (libpkg/pkg_delete.c) and the SQLite     *)
(* transaction around them (libpkg/pkgdb.c), one process at a time (the    *)
(* exclusive lock of PkgdbLock).                                           *)
(*                                                                         *)
(* A package is registered first, inside a transaction; then its files are *)
(* extracted beside their targets under hidden temporary names, the files  *)
(* only the old version has are unlinked, the temporary files are renamed  *)
(* over the targets one by one, and the transaction is committed.  The     *)
(* file system has no transaction, so what is on disk and what the         *)
(* database says can part at every step that fails or is interrupted.      *)
(*                                                                         *)
(* A session is one command with its database connection: "add" goes on    *)
(* with the next package after a failure, "jobs" (pkg_jobs_execute) stops. *)
(***************************************************************************)
EXTENDS Packages, FiniteSets, Naturals

CONSTANTS
  Available,      \* the packages, name and version, there are to install
  RootIsSlash,    \* FALSE with ravensw -r or a relocated package
  Sessions,       \* the sessions that are run
  Faults,         \* what may go wrong
  MaxFaults       \* bound on the number of different faults in a behaviour

AllSessions == {"add", "jobs"}
AllFaults == {"script", "devscript", "extract", "rename", "commit", "unregister", "interrupt", "kill"}

ASSUME SessionsAssumption ==
  /\ Available \subseteq Names \X Versions
  /\ RootIsSlash \in BOOLEAN
  /\ Sessions \subseteq AllSessions
  /\ Faults \subseteq AllFaults
  /\ MaxFaults \in Nat

VARIABLES
  saved,          \* the committed database
  db,             \* the database as the session's connection sees it
  inTx,           \* a transaction is open on the connection
  disk,           \* what is at each path: the name and version it came from, or None
  dirs,           \* the directories that exist
  temps,          \* files with a temporary file of the package being added
  litter,         \* temporary files nobody will rename or remove, with what left them
  session,        \* the session's command and its force flag
  op,             \* the package operation: kind, name, ver, and what the old version had
  pc,             \* its next step
  todo,           \* paths the current loop has still to visit
  rmdirs,         \* the list dir_to_del
  target,         \* the file pkg_extract_finalize has unlinked and not yet renamed
  said,           \* history: packages the session was told are installed and did not delete
  touched,        \* history: paths the operation has changed
  adrift,         \* history: paths changed by operations the database knows nothing of
  faulted         \* history: the faults so far

vars == <<saved, db, inTx, disk, dirs, temps, litter, session, op, pc, todo, rmdirs, target,
          said, touched, adrift, faulted>>
database == <<saved, db, inTx>>
filesystem == <<disk, dirs, temps, litter>>
loop == <<todo, rmdirs, target>>
history == <<said, touched, adrift, faulted>>

Paths == Files \cup Dirs
NoOp == [kind |-> "none", name |-> None, ver |-> None, oldFiles |-> {}, oldDirs |-> {}]
NewFiles == FilesOf[op.name][op.ver]
NewDirs == DirsOf[op.name][op.ver]

TypeOK ==
  /\ saved \in Databases /\ db \in Databases /\ inTx \in BOOLEAN
  /\ disk \in [Files -> (Names \X Versions) \cup {None}]
  /\ dirs \in SUBSET Dirs
  /\ temps \in SUBSET Files
  /\ litter \in SUBSET (Files \X {"extract", "interrupt", "rename", "devscript", "kill"})
  /\ session \in [cmd : AllSessions, force : BOOLEAN]
  /\ op \in [kind : {"none", "add", "upgrade", "delete"}, name : Names \cup {None},
             ver : Versions \cup {None}, oldFiles : SUBSET Files, oldDirs : SUBSET Dirs]
  /\ pc \in {"closed", "idle", "closing", "register", "preInstall", "extract", "rollback", "abort",
             "oldScript", "oldFiles", "oldDirs", "finalize", "commit",
             "preDeinstall", "delFiles", "delDirs", "unregister"}
  /\ todo \in SUBSET Paths
  /\ rmdirs \in SUBSET Dirs
  /\ target \in Files \cup {None}
  /\ said \in SUBSET Names
  /\ touched \in SUBSET Paths /\ adrift \in SUBSET Paths
  /\ faulted \in SUBSET AllFaults

Init ==
  /\ saved = EmptyDb /\ db = EmptyDb /\ inTx = FALSE
  /\ disk = [f \in Files |-> None]
  /\ dirs = {} /\ temps = {} /\ litter = {}
  /\ session \in [cmd : Sessions, force : {FALSE}]
  /\ op = NoOp /\ pc = "closed"
  /\ todo = {} /\ rmdirs = {} /\ target = None
  /\ said = {} /\ touched = {} /\ adrift = {} /\ faulted = {}

-----------------------------------------------------------------------------
(* Faults, and how an operation ends.                                      *)

Fault(kind) ==
  /\ kind \in Faults
  /\ faulted' = faulted \cup {kind}
  /\ Cardinality(faulted') <= MaxFaults

NoFault == UNCHANGED faulted

\* The operation is over; d is what is adrift after it.
Over(next, d) ==
  /\ pc' = next
  /\ op' = NoOp
  /\ todo' = {} /\ rmdirs' = {} /\ target' = None
  /\ touched' = {}
  /\ adrift' = d

AfterFailure == IF session.cmd = "add" THEN "idle" ELSE "closing"
Fails == Over(AfterFailure, adrift \cup touched)

\* Temporary files lose the pkg that knows their names.
Abandon(why) ==
  /\ temps' = {}
  /\ litter' = litter \cup (temps \X {why})

-----------------------------------------------------------------------------
(* A session.                                                              *)

Open(c, force) ==
  /\ pc = "closed"
  /\ pc' = "idle"
  /\ session' = [cmd |-> c, force |-> force]
  /\ said' = {}
  /\ UNCHANGED <<database, filesystem, op, loop, touched, adrift, faulted>>

\* pkgdb_close: SQLite rolls an open transaction back.
Close ==
  /\ pc \in {"idle", "closing"}
  /\ pc' = "closed"
  /\ db' = saved /\ inTx' = FALSE
  /\ UNCHANGED <<saved, filesystem, session, op, loop, history>>

\* The process is killed: so much for its transaction and its list of temporary files.
Kill ==
  /\ pc # "closed"
  /\ Fault("kill")
  /\ Over("closed", adrift \cup touched)
  /\ db' = saved /\ inTx' = FALSE
  /\ Abandon("kill")
  /\ UNCHANGED <<saved, disk, dirs, session, said>>

\* SIGINT while pkg_rollback_cb is registered: it removes the temporary files
\* and the process exits.  At any other time SIGINT kills or is ignored.
Interrupt ==
  /\ pc = "extract"
  /\ Fault("interrupt")
  /\ Over("closed", adrift \cup touched)
  /\ db' = saved /\ inTx' = FALSE
  /\ temps' = {}
  /\ litter' = IF RootIsSlash THEN litter ELSE litter \cup (temps \X {"interrupt"})
  /\ UNCHANGED <<saved, disk, dirs, session, said>>

-----------------------------------------------------------------------------
(* The operations a session asks for.                                      *)

Begin(kind, n, v, next) ==
  /\ op' = [kind |-> kind, name |-> n, ver |-> v,
            oldFiles |-> IF kind = "add" THEN {} ELSE FilesOwned(db, n),
            oldDirs |-> IF kind = "add" THEN {} ELSE DirsListed(db, n)]
  /\ pc' = next
  /\ UNCHANGED <<database, filesystem, session, loop, history>>

\* pkg_add_check_pkg_archive finds the package installed: without -f there is
\* nothing to do and no error; with -f it is an error when the package is locked.
\* Whether a package is locked is left open.
RefuseAdd(n) ==
  /\ pc = "idle" /\ session.cmd = "add"
  /\ Installed(db, n)
  /\ said' = IF session.force THEN said ELSE said \cup {n}
  /\ UNCHANGED <<database, filesystem, session, op, pc, loop, touched, adrift, faulted>>

\* pkg_add; with -f over an installed package of that name
BeginAdd(n, v) ==
  /\ pc = "idle" /\ session.cmd = "add"
  /\ Installed(db, n) => session.force
  /\ Begin("add", n, v, "register")

\* pkg_jobs_handle_install: pkg_add_upgrade when a version is installed,
\* pkg_add_from_remote otherwise
BeginInstall(n, v) ==
  /\ pc = "idle" /\ session.cmd = "jobs"
  /\ Begin(IF Installed(db, n) THEN "upgrade" ELSE "add", n, v, "register")

\* pkg_delete
BeginDelete(n) ==
  /\ pc = "idle" /\ session.cmd = "jobs"
  /\ Installed(db, n)
  /\ Begin("delete", n, None, "preDeinstall")

\* pkg_delete of a locked package: EPKG_LOCKED
RefuseDelete(n) ==
  /\ pc = "idle" /\ session.cmd = "jobs"
  /\ Installed(db, n)
  /\ pc' = "closing"
  /\ UNCHANGED <<database, filesystem, session, op, loop, history>>

-----------------------------------------------------------------------------
(* pkg_add_common.                                                         *)

\* Mutant: BEGIN inside an open transaction is not an error.
Register_InOpenTransaction ==
  /\ pc = "register"
  /\ db' = Registered(db, op.name, op.ver) /\ inTx' = TRUE
  /\ IF Conflicts(db, op.name, op.ver) # {} /\ ~session.force
     THEN Fails
     ELSE /\ pc' = "preInstall"
          /\ UNCHANGED <<op, loop, touched, adrift>>
  /\ UNCHANGED <<saved, filesystem, session, said, faulted>>

\* pkgdb_register_pkg.  BEGIN fails inside a transaction; a file of another
\* package is an error unless forced, and the transaction stays open.
Register ==
  /\ pc = "register"
  /\ IF inTx
     THEN Fails /\ UNCHANGED <<db, inTx>>
     ELSE /\ db' = Registered(db, op.name, op.ver) /\ inTx' = TRUE
          /\ IF Conflicts(db, op.name, op.ver) # {} /\ ~session.force
             THEN Fails
             ELSE /\ pc' = "preInstall"
                  /\ UNCHANGED <<op, loop, touched, adrift>>
  /\ UNCHANGED <<saved, filesystem, session, said, faulted>>

\* The pre-install script; when it fails the transaction stays open.
PreInstall ==
  /\ pc = "preInstall"
  /\ \/ /\ NoFault
        /\ pc' = "extract" /\ todo' = NewFiles \cup NewDirs
        /\ UNCHANGED <<op, rmdirs, target, touched, adrift>>
     \/ Fault("script") /\ Fails
  /\ UNCHANGED <<database, filesystem, session, said>>

\* Mutant: a directory gets a temporary file as well.
Extract_DirsAsFiles(x) ==
  /\ pc = "extract" /\ x \in todo
  /\ todo' = todo \ {x}
  /\ temps' = temps \cup {x}
  /\ dirs' = dirs \cup (IF x \in Files THEN {DirOf[x]} ELSE {x})
  /\ UNCHANGED <<database, disk, litter, session, op, pc, rmdirs, target, history>>

\* do_extract, one entry: a file goes to its temporary name
Extract(x) ==
  /\ pc = "extract" /\ x \in todo
  /\ todo' = todo \ {x}
  /\ temps' = temps \cup ({x} \cap Files)
  /\ dirs' = dirs \cup (IF x \in Files THEN {DirOf[x]} ELSE {x})
  /\ UNCHANGED <<database, disk, litter, session, op, pc, rmdirs, target, history>>

\* An entry cannot be extracted: pkg_rollback_pkg, which passes absolute names
\* to unlinkat, and pkg_delete_dirs.
ExtractFails ==
  /\ pc = "extract"
  /\ Fault("extract")
  /\ temps' = {}
  /\ litter' = IF RootIsSlash THEN litter ELSE litter \cup (temps \X {"extract"})
  /\ pc' = "rollback" /\ todo' = {} /\ rmdirs' = NewDirs
  /\ UNCHANGED <<database, disk, dirs, session, op, target, said, touched, adrift>>

\* Mutant: an upgrade leaves the files only the old version has.
Extracted_NoCleanup ==
  /\ pc = "extract" /\ todo = {}
  /\ pc' = "finalize"
  /\ UNCHANGED <<database, filesystem, session, op, loop, history>>

Extracted ==
  /\ pc = "extract" /\ todo = {}
  /\ pc' = IF op.kind = "upgrade" THEN "oldScript" ELSE "finalize"
  /\ UNCHANGED <<database, filesystem, session, op, loop, history>>

\* pkg_add_cleanup_old: the old version's pre-deinstall script, which counts in
\* DEVELOPER_MODE; then neither the transaction nor the temporary files are undone.
OldScript ==
  /\ pc = "oldScript"
  /\ \/ /\ NoFault
        /\ pc' = "oldFiles" /\ todo' = op.oldFiles \ NewFiles
        /\ UNCHANGED <<temps, litter, op, rmdirs, target, touched, adrift>>
     \/ Fault("devscript") /\ Fails /\ Abandon("devscript")
  /\ UNCHANGED <<database, disk, dirs, session, said>>

\* pkg_extract_finalize unlinks a file that is there before the rename.
Unlink(f) ==
  /\ pc = "finalize" /\ target = None
  /\ f \in temps /\ disk[f] # None
  /\ disk' = [disk EXCEPT ![f] = None]
  /\ target' = f
  /\ touched' = touched \cup {f}
  /\ UNCHANGED <<database, dirs, temps, litter, session, op, pc, todo, rmdirs, said, adrift, faulted>>

Rename(f) ==
  /\ pc = "finalize"
  /\ f \in temps /\ disk[f] = None /\ target \in {None, f}
  /\ disk' = [disk EXCEPT ![f] = <<op.name, op.ver>>]
  /\ temps' = temps \ {f}
  /\ target' = None
  /\ touched' = touched \cup {f}
  /\ UNCHANGED <<database, dirs, litter, session, op, pc, todo, rmdirs, said, adrift, faulted>>

\* A rename, or setting the attributes of a file or directory, fails.
RenameFails ==
  /\ pc = "finalize"
  /\ Fault("rename")
  /\ pc' = "abort"
  /\ UNCHANGED <<database, filesystem, session, op, loop, said, touched, adrift>>

Finalized ==
  /\ pc = "finalize" /\ temps = {}
  /\ pc' = "commit"
  /\ UNCHANGED <<database, filesystem, session, op, loop, history>>

\* pkgdb_register_finale with an error: ROLLBACK
Abort ==
  /\ pc = "abort"
  /\ db' = saved /\ inTx' = FALSE
  /\ Abandon("rename")
  /\ Fails
  /\ UNCHANGED <<saved, disk, dirs, session, said, faulted>>

\* Files of a version that the package was forced over: pkg_add_cleanup_old is for
\* upgrades only.
LeftBehind == IF op.kind = "add" THEN FilesOwned(saved, op.name) \ NewFiles ELSE {}

\* pkgdb_register_finale: COMMIT
Commit ==
  /\ pc = "commit"
  /\ saved' = db /\ inTx' = FALSE
  /\ Over("idle", (adrift \ (touched \cup NewFiles \cup NewDirs))
                    \cup LeftBehind \cup Conflicts(db, op.name, op.ver))
  /\ said' = said \cup {op.name}
  /\ UNCHANGED <<db, filesystem, session, faulted>>

\* COMMIT fails, nobody looks at it; SQLite may have rolled back or not.
CommitFails ==
  /\ pc = "commit"
  /\ Fault("commit")
  /\ \/ UNCHANGED <<db, inTx>>
     \/ db' = saved /\ inTx' = FALSE
  /\ Over("idle", adrift \cup touched)
  /\ said' = said \cup {op.name}
  /\ UNCHANGED <<saved, filesystem, session>>

-----------------------------------------------------------------------------
(* pkg_delete, and the loops it shares with pkg_add_cleanup_old.           *)

PreDeinstall ==
  /\ pc = "preDeinstall"
  /\ \/ /\ NoFault
        /\ pc' = "delFiles" /\ todo' = op.oldFiles
        /\ UNCHANGED <<op, rmdirs, target, touched, adrift>>
     \/ Fault("devscript") /\ Fails
  /\ UNCHANGED <<database, filesystem, session, said>>

\* pkg_delete_file: the directory of a file that was there goes on the list.
DeleteFile(f) ==
  /\ pc \in {"oldFiles", "delFiles"} /\ f \in todo
  /\ todo' = todo \ {f}
  /\ disk' = [disk EXCEPT ![f] = None]
  /\ rmdirs' = rmdirs \cup {d \in {DirOf[f]} : disk[f] # None}
  /\ touched' = touched \cup {f}
  /\ UNCHANGED <<database, dirs, temps, litter, session, op, pc, target, said, adrift, faulted>>

\* pkg_delete_dirs lists the package's directories: all of them, or in an upgrade
\* those the new version has as well.
FilesDeleted ==
  /\ pc \in {"oldFiles", "delFiles"} /\ todo = {}
  /\ IF pc = "oldFiles"
     THEN pc' = "oldDirs" /\ rmdirs' = rmdirs \cup (op.oldDirs \cap NewDirs)
     ELSE pc' = "delDirs" /\ rmdirs' = rmdirs \cup op.oldDirs
  /\ UNCHANGED <<database, filesystem, session, op, todo, target, history>>

\* Mutant: in an upgrade the new version's row is taken for the old one's.
IsDirUsed_NotByNewVersion(d) == \E n \in Names \ {op.name} : d \in DirsListed(db, n)

\* pkgdb_is_dir_used: rows of other packages, where the package is known by its id:
\* one being deleted is itself, a new version or one being added is another.
IsDirUsed(d) ==
  \E n \in Names : d \in DirsListed(db, n) /\ ~(pc = "delDirs" /\ n = op.name)

IsEmpty(d) ==
  \A f \in Files :
    DirOf[f] = d => disk[f] = None /\ f \notin temps /\ \A l \in litter : l[1] # f

\* rmdir_p
RmDir(d) ==
  /\ pc \in {"rollback", "oldDirs", "delDirs"} /\ d \in rmdirs
  /\ rmdirs' = rmdirs \ {d}
  /\ IF d \in dirs /\ ~IsDirUsed(d) /\ IsEmpty(d)
     THEN dirs' = dirs \ {d} /\ touched' = touched \cup {d}
     ELSE UNCHANGED <<dirs, touched>>
  /\ UNCHANGED <<database, disk, temps, litter, session, op, pc, todo, target, said, adrift, faulted>>

DirsDeleted ==
  /\ pc \in {"rollback", "oldDirs", "delDirs"} /\ rmdirs = {}
  /\ pc' = CASE pc = "rollback" -> "abort" [] pc = "oldDirs" -> "finalize" [] pc = "delDirs" -> "unregister"
  /\ UNCHANGED <<database, filesystem, session, op, loop, history>>

\* pkgdb_unregister_pkg, a statement that commits by itself unless a transaction
\* was left open.
Unregister ==
  /\ pc = "unregister"
  /\ db' = Unregistered(db, op.name)
  /\ saved' = IF inTx THEN saved ELSE db'
  /\ Over("idle", IF inTx THEN adrift \cup touched ELSE adrift \ touched)
  /\ said' = said \ {op.name}
  /\ UNCHANGED <<inTx, filesystem, session, faulted>>

\* The DELETE of the package fails, or one of the DELETEs after it.
UnregisterFails ==
  /\ pc = "unregister"
  /\ Fault("unregister")
  /\ \/ UNCHANGED <<db, saved, said>> /\ Fails
     \/ /\ db' = Unregistered(db, op.name)
        /\ saved' = IF inTx THEN saved ELSE db'
        /\ Over("closing", IF inTx THEN adrift \cup touched ELSE adrift \ touched)
        /\ said' = said \ {op.name}
  /\ UNCHANGED <<inTx, filesystem, session>>

-----------------------------------------------------------------------------
Next ==
  \/ \E c \in Sessions, force \in BOOLEAN : Open(c, force)
  \/ Close \/ Kill \/ Interrupt
  \/ \E n \in Names : RefuseAdd(n) \/ BeginDelete(n) \/ RefuseDelete(n)
  \/ \E p \in Available : BeginAdd(p[1], p[2]) \/ BeginInstall(p[1], p[2])
  \/ Register \/ PreInstall
  \/ \E x \in Paths : Extract(x)
  \/ ExtractFails \/ Extracted \/ OldScript
  \/ \E f \in Files : Unlink(f) \/ Rename(f) \/ DeleteFile(f)
  \/ RenameFails \/ Finalized \/ Abort \/ Commit \/ CommitFails
  \/ PreDeinstall \/ FilesDeleted \/ DirsDeleted
  \/ \E d \in Dirs : RmDir(d)
  \/ Unregister \/ UnregisterFails

Spec == Init /\ [][Next]_vars

-----------------------------------------------------------------------------
(* Properties.                                                             *)

\* What is on disk at a path is what the committed database says, the owner's file
\* at its installed version or nothing, except at the paths of an operation under
\* way or broken off.  An operation that fails before it changes the file system
\* leaves no trace there, and a package that is installed again is whole again.
Expected(f) ==
  IF saved.owner[f] = None THEN None ELSE <<saved.owner[f], saved.ver[saved.owner[f]]>>
DiskMatchesDb == \A f \in Files \ (adrift \cup touched) : disk[f] = Expected(f)

\* The directories of an installed package exist: pkg_delete_dirs takes no directory
\* another package, or the new version, has a row for.
DirsKept ==
  \A n \in Names : DirsListed(saved, n) \ (adrift \cup touched) \subseteq dirs

\* The rows of the committed database belong together, and the connection sees
\* something else only inside a transaction.
DbConsistent == Consistent(saved) /\ (~inTx => db = saved)

\* "If the add failed, clean up (silently)": an extraction that fails or is
\* interrupted leaves no temporary file.
FailedAddIsClean == \A l \in litter : l[2] \notin {"extract", "interrupt"}

\* "Do not return error on installed package": a package that pkg_add reports as
\* installed, then or already, is installed when the session has closed the
\* database, as long as no COMMIT failed.
ReportedInstalled ==
  (pc = "closed" /\ "commit" \notin faulted) => \A n \in said : Installed(saved, n)

\* A file leaves its owner only when the owner is deleted or registered anew: no
\* other package takes it over, not even a forced one.
OwnersKept ==
  [][\A f \in Files :
       saved.owner[f] # None /\ saved'.owner[f] # saved.owner[f] =>
         /\ saved'.owner[f] = None
         /\ \A n \in Names \ {saved.owner[f]} : saved'.ver[n] = saved.ver[n]]_saved

\* The committed database changes by whole packages (PackageDb).
Db == INSTANCE PackageDb WITH pkgs <- saved
AtomicDb == Db!Spec
=============================================================================
