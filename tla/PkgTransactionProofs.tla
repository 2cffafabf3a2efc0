------------------------ MODULE PkgTransactionProofs ------------------------
(***************************************************************************)
(* Proofs about PkgTransaction, for any packages, files and faults: the    *)
(* committed database changes by whole packages only (PackageDb), its rows *)
(* belong together, and files keep their owners; the files on disk are     *)
(* those the committed database speaks of, apart from the paths of the     *)
(* operation under way and of operations that were broken off.             *)
(***************************************************************************)
EXTENDS PkgTransaction, TLAPS

-----------------------------------------------------------------------------
(* The database operations.                                                *)

LEMMA RegisteredType ==
  ASSUME NEW d \in Databases, NEW n \in Names, NEW v \in Versions
  PROVE  Registered(d, n, v) \in Databases
  BY DEF Registered, Databases, Conflicts

LEMMA UnregisteredType ==
  ASSUME NEW d \in Databases, NEW n \in Names
  PROVE  Unregistered(d, n) \in Databases
  BY DEF Unregistered, Databases

\* Registering a package keeps the rows of the files table with packages that list
\* the files, although the old version's rows go away and conflicts are left out.
LEMMA RegisteredConsistent ==
  ASSUME NEW d \in Databases, NEW n \in Names, NEW v \in Versions, Consistent(d)
  PROVE  Consistent(Registered(d, n, v))
<1> DEFINE r == Registered(d, n, v)
<1>1. r.ver = [d.ver EXCEPT ![n] = v] /\ r.ver[n] = v /\ v # None
  BY PackagesAssumption DEF Registered, Databases
<1>2. ASSUME NEW m \in Names, NEW f \in Files, r.owner[f] = m
      PROVE  Installed(r, m) /\ f \in FilesOf[m][r.ver[m]]
  <2>1. CASE m = n
    <3>1. f \in FilesOf[n][v]
      BY <1>2, <2>1, PackagesAssumption DEF Registered, Databases
    <3> QED BY <1>1, <2>1, <3>1 DEF Installed
  <2>2. CASE m # n
    <3>1. d.owner[f] = m
      BY <1>2, <2>2, PackagesAssumption DEF Registered
    <3>2. Installed(d, m) /\ f \in FilesOf[m][d.ver[m]]
      BY <3>1 DEF Consistent, FilesOwned, Installed
    <3>3. r.ver[m] = d.ver[m]
      BY <1>1, <2>2 DEF Databases
    <3> QED BY <3>2, <3>3 DEF Installed
  <2> QED BY <2>1, <2>2
<1> QED BY <1>2 DEF Consistent, FilesOwned

LEMMA UnregisteredConsistent ==
  ASSUME NEW d \in Databases, NEW n \in Names, Consistent(d)
  PROVE  Consistent(Unregistered(d, n))
<1> DEFINE r == Unregistered(d, n)
<1>1. ASSUME NEW m \in Names, NEW f \in Files, r.owner[f] = m
      PROVE  Installed(r, m) /\ f \in FilesOf[m][r.ver[m]]
  <2>1. d.owner[f] = m /\ m # n
    BY <1>1, PackagesAssumption DEF Unregistered
  <2>2. Installed(d, m) /\ f \in FilesOf[m][d.ver[m]]
    BY <2>1 DEF Consistent, FilesOwned, Installed
  <2>3. r.ver[m] = d.ver[m]
    BY <2>1 DEF Unregistered, Databases
  <2> QED BY <2>2, <2>3 DEF Installed
<1> QED BY <1>1 DEF Consistent, FilesOwned

-----------------------------------------------------------------------------
(* Type correctness.                                                       *)

LEMMA NewType ==
  ASSUME NEW n \in Names, NEW v \in Versions
  PROVE  FilesOf[n][v] \in SUBSET Files /\ DirsOf[n][v] \in SUBSET Dirs
  BY PackagesAssumption

LEMMA DirsListedType ==
  ASSUME NEW d \in Databases, NEW n \in Names
  PROVE  DirsListed(d, n) \in SUBSET Dirs
  BY PackagesAssumption DEF DirsListed, Databases, Installed

\* What the steps of an operation know of it.
Adding == pc \in {"register", "preInstall", "extract", "rollback", "abort", "oldScript", "oldFiles",
                  "oldDirs", "finalize", "commit"}
Deleting == pc \in {"preDeinstall", "delFiles", "delDirs", "unregister"}

\* In an installation the transaction is open and holds exactly the registration of
\* the package; a package that is deleted is installed.
Control ==
  /\ Adding => /\ op.kind \in {"add", "upgrade"}
               /\ op.name \in Names /\ op.ver \in Versions
  /\ Adding /\ pc # "register" => inTx /\ db = Registered(saved, op.name, op.ver)
  /\ Deleting => op.name \in Names /\ Installed(db, op.name)

DbInv == TypeOK /\ Control /\ DbConsistent

LEMMA InitInv == Init => DbInv
<1> SUFFICES ASSUME Init PROVE DbInv
  OBVIOUS
<1>1. EmptyDb \in Databases /\ Consistent(EmptyDb)
  BY PackagesAssumption DEF EmptyDb, Databases, Consistent, FilesOwned
<1>2. session \in [cmd : AllSessions, force : BOOLEAN]
  BY SessionsAssumption DEF Init, AllSessions
<1>3. TypeOK
  BY <1>1, <1>2 DEF Init, TypeOK, NoOp, Paths, AllFaults
<1>4. Control
  BY DEF Init, Control, Adding, Deleting
<1> QED BY <1>1, <1>3, <1>4 DEF DbInv, DbConsistent, Init

(* Steps whose effect on the database follows from their definitions.      *)

LEMMA OpenInv ==
  ASSUME DbInv, NEW c \in Sessions, NEW force \in BOOLEAN, Open(c, force)
  PROVE  DbInv'
  BY PackagesAssumption, SessionsAssumption
  DEF DbInv, TypeOK, Control, Adding, Deleting, DbConsistent, Open, database, filesystem, loop,
      history, vars, Paths, AllFaults, AllSessions

LEMMA CloseInv ==
  ASSUME DbInv, Close
  PROVE  DbInv'
  BY PackagesAssumption, SessionsAssumption
  DEF DbInv, TypeOK, Control, Adding, Deleting, DbConsistent, Close, database, filesystem,
      loop, history, vars, Paths, AllFaults, AllSessions

LEMMA KillInv ==
  ASSUME DbInv, Kill
  PROVE  DbInv'
  BY PackagesAssumption, SessionsAssumption
  DEF DbInv, TypeOK, Control, Adding, Deleting, DbConsistent, Kill, database, filesystem, loop,
      history, vars, Over, Fault, Abandon, NoOp, Paths, AllFaults, AllSessions

LEMMA InterruptInv ==
  ASSUME DbInv, Interrupt
  PROVE  DbInv'
  BY PackagesAssumption, SessionsAssumption
  DEF DbInv, TypeOK, Control, Adding, Deleting, DbConsistent, Interrupt, database, filesystem,
      loop, history, vars, Over, Fault, NoOp, Paths, AllFaults, AllSessions

LEMMA RefuseAddInv ==
  ASSUME DbInv, NEW n \in Names, RefuseAdd(n)
  PROVE  DbInv'
  BY PackagesAssumption, SessionsAssumption
  DEF DbInv, TypeOK, Control, Adding, Deleting, DbConsistent, RefuseAdd, database, filesystem,
      loop, history, vars, Paths, AllFaults, AllSessions

LEMMA RefuseDeleteInv ==
  ASSUME DbInv, NEW n \in Names, RefuseDelete(n)
  PROVE  DbInv'
  BY PackagesAssumption, SessionsAssumption
  DEF DbInv, TypeOK, Control, Adding, Deleting, DbConsistent, RefuseDelete, database,
      filesystem, loop, history, vars, Paths, AllFaults, AllSessions

LEMMA ExtractInv ==
  ASSUME DbInv, NEW x \in Paths, Extract(x)
  PROVE  DbInv'
  BY PackagesAssumption, SessionsAssumption
  DEF DbInv, TypeOK, Control, Adding, Deleting, DbConsistent, Extract, database, filesystem,
      loop, history, vars, Paths, AllFaults, AllSessions

LEMMA ExtractedInv ==
  ASSUME DbInv, Extracted
  PROVE  DbInv'
  BY PackagesAssumption, SessionsAssumption
  DEF DbInv, TypeOK, Control, Adding, Deleting, DbConsistent, Extracted, database, filesystem,
      loop, history, vars, Paths, AllFaults, AllSessions

LEMMA OldScriptInv ==
  ASSUME DbInv, OldScript
  PROVE  DbInv'
  BY PackagesAssumption, SessionsAssumption
  DEF DbInv, TypeOK, Control, Adding, Deleting, DbConsistent, OldScript, database, filesystem,
      loop, history, vars, Fails, Over, AfterFailure, NoOp, Fault, NoFault, Abandon, NewFiles,
      Paths, AllFaults, AllSessions

LEMMA UnlinkInv ==
  ASSUME DbInv, NEW f \in Files, Unlink(f)
  PROVE  DbInv'
  BY PackagesAssumption, SessionsAssumption
  DEF DbInv, TypeOK, Control, Adding, Deleting, DbConsistent, Unlink, database, filesystem,
      loop, history, vars, Paths, AllFaults, AllSessions

LEMMA RenameFailsInv ==
  ASSUME DbInv, RenameFails
  PROVE  DbInv'
  BY PackagesAssumption, SessionsAssumption
  DEF DbInv, TypeOK, Control, Adding, Deleting, DbConsistent, RenameFails, database,
      filesystem, loop, history, vars, Fault, Paths, AllFaults, AllSessions

LEMMA FinalizedInv ==
  ASSUME DbInv, Finalized
  PROVE  DbInv'
  BY PackagesAssumption, SessionsAssumption
  DEF DbInv, TypeOK, Control, Adding, Deleting, DbConsistent, Finalized, database, filesystem,
      loop, history, vars, Paths, AllFaults, AllSessions

LEMMA AbortInv ==
  ASSUME DbInv, Abort
  PROVE  DbInv'
  BY PackagesAssumption, SessionsAssumption
  DEF DbInv, TypeOK, Control, Adding, Deleting, DbConsistent, Abort, database, filesystem,
      loop, history, vars, Fails, Over, AfterFailure, NoOp, Abandon, Paths, AllFaults,
      AllSessions

LEMMA PreDeinstallInv ==
  ASSUME DbInv, PreDeinstall
  PROVE  DbInv'
  BY PackagesAssumption, SessionsAssumption
  DEF DbInv, TypeOK, Control, Adding, Deleting, DbConsistent, PreDeinstall, database,
      filesystem, loop, history, vars, Fails, Over, AfterFailure, NoOp, Fault, NoFault, Paths,
      AllFaults, AllSessions

LEMMA FilesDeletedInv ==
  ASSUME DbInv, FilesDeleted
  PROVE  DbInv'
  BY PackagesAssumption, SessionsAssumption
  DEF DbInv, TypeOK, Control, Adding, Deleting, DbConsistent, FilesDeleted, database,
      filesystem, loop, history, vars, NewDirs, Paths, AllFaults, AllSessions

LEMMA DirsDeletedInv ==
  ASSUME DbInv, DirsDeleted
  PROVE  DbInv'
  BY PackagesAssumption, SessionsAssumption
  DEF DbInv, TypeOK, Control, Adding, Deleting, DbConsistent, DirsDeleted, database,
      filesystem, loop, history, vars, Paths, AllFaults, AllSessions

LEMMA RmDirInv ==
  ASSUME DbInv, NEW d \in Dirs, RmDir(d)
  PROVE  DbInv'
  BY PackagesAssumption, SessionsAssumption
  DEF DbInv, TypeOK, Control, Adding, Deleting, DbConsistent, RmDir, database, filesystem,
      loop, history, vars, Paths, AllFaults, AllSessions

(* The others.                                                             *)

LEMMA FilesOwnedType == ASSUME NEW d, NEW n PROVE FilesOwned(d, n) \in SUBSET Files
  BY DEF FilesOwned

LEMMA DeleteFileInv ==
  ASSUME DbInv, NEW f \in Files, DeleteFile(f)
  PROVE  DbInv'
<1>1. DirOf[f] \in Dirs /\ f \in Paths
  BY PackagesAssumption DEF Paths
<1>2. TypeOK'
  BY <1>1 DEF DbInv, TypeOK, DeleteFile, database, Paths
<1> QED BY <1>2 DEF DbInv, Control, Adding, Deleting, DbConsistent, DeleteFile, database

LEMMA RenameInv ==
  ASSUME DbInv, NEW f \in Files, Rename(f)
  PROVE  DbInv'
<1>1. <<op.name, op.ver>> \in Names \X Versions
  BY DEF DbInv, Control, Adding, Rename
<1>2. disk' \in [Files -> (Names \X Versions) \cup {None}]
  BY <1>1 DEF DbInv, TypeOK, Rename
<1>3. f \in Paths
  BY DEF Paths
<1>4. TypeOK'
  BY <1>2, <1>3 DEF DbInv, TypeOK, Rename, database
<1> QED BY <1>4 DEF DbInv, Control, Adding, Deleting, DbConsistent, Rename, database

LEMMA BeginType ==
  ASSUME TypeOK, NEW kind \in {"add", "upgrade", "delete"}, NEW n \in Names,
         NEW v \in Versions \cup {None}, NEW next \in {"register", "preDeinstall"},
         Begin(kind, n, v, next)
  PROVE  TypeOK'
<1>1. FilesOwned(db, n) \in SUBSET Files /\ DirsListed(db, n) \in SUBSET Dirs
  BY FilesOwnedType, DirsListedType DEF TypeOK
<1>2. op' \in [kind : {"none", "add", "upgrade", "delete"}, name : Names \cup {None},
               ver : Versions \cup {None}, oldFiles : SUBSET Files, oldDirs : SUBSET Dirs]
  BY <1>1 DEF Begin
<1> QED BY <1>2 DEF TypeOK, Begin, database, filesystem, loop, history, Paths

LEMMA BeginAddInv ==
  ASSUME DbInv, NEW n \in Names, NEW v \in Versions, BeginAdd(n, v)
  PROVE  DbInv'
<1>1. TypeOK'
  BY BeginType DEF DbInv, BeginAdd
<1> QED BY <1>1 DEF DbInv, BeginAdd, Begin, database, Control, Adding, Deleting, DbConsistent

LEMMA BeginInstallInv ==
  ASSUME DbInv, NEW n \in Names, NEW v \in Versions, BeginInstall(n, v)
  PROVE  DbInv'
<1>1. PICK kind \in {"add", "upgrade"} : Begin(kind, n, v, "register")
  BY DEF BeginInstall
<1>2. TypeOK'
  BY <1>1, BeginType DEF DbInv
<1> QED BY <1>1, <1>2 DEF DbInv, Begin, database, Control, Adding, Deleting, DbConsistent

LEMMA BeginDeleteInv ==
  ASSUME DbInv, NEW n \in Names, BeginDelete(n)
  PROVE  DbInv'
<1>1. Begin("delete", n, None, "preDeinstall")
  BY DEF BeginDelete
<1>2. TypeOK'
  BY <1>1, BeginType DEF DbInv
<1> QED BY <1>1, <1>2 DEF DbInv, BeginDelete, Begin, database, Control, Adding, Deleting, DbConsistent

\* How an operation ends.
LEMMA OverType ==
  ASSUME TypeOK, NEW next \in {"closed", "idle", "closing"}, NEW d \in SUBSET Paths, Over(next, d),
         saved' \in Databases, db' \in Databases, inTx' \in BOOLEAN,
         UNCHANGED <<disk, dirs, session>>, temps' \in SUBSET Files,
         litter' \in SUBSET (Files \X {"extract", "interrupt", "rename", "devscript", "kill"}),
         said' \in SUBSET Names, faulted' \in SUBSET AllFaults
  PROVE  TypeOK' /\ ~Adding' /\ ~Deleting' /\ Control'
<1>1. TypeOK'
  BY DEF TypeOK, Over, NoOp, Paths
<1> QED BY <1>1 DEF Over, Adding, Deleting, Control

LEMMA FailsOver ==
  ASSUME TypeOK, Fails
  PROVE  /\ AfterFailure \in {"idle", "closing"}
         /\ adrift \cup touched \in SUBSET Paths
         /\ Over(AfterFailure, adrift \cup touched)
  BY DEF TypeOK, Fails, AfterFailure

LEMMA FaultType ==
  ASSUME TypeOK, NEW kind, Fault(kind)
  PROVE  faulted' \in SUBSET AllFaults
  BY SessionsAssumption DEF TypeOK, Fault

LEMMA RegisterInv == ASSUME DbInv, Register PROVE DbInv'
<1>1. op.name \in Names /\ op.ver \in Versions /\ op.kind \in {"add", "upgrade"}
  BY DEF DbInv, Control, Adding, Register
<1>2. TypeOK
  BY DEF DbInv
<1>3. Registered(db, op.name, op.ver) \in Databases
  BY <1>1, <1>2, RegisteredType DEF TypeOK
<1>4. db' \in Databases /\ inTx' \in BOOLEAN /\ saved' \in Databases
  BY <1>2, <1>3 DEF Register, TypeOK
<1>5. DbConsistent'
  BY DEF DbInv, DbConsistent, Register
<1>6. CASE Fails
  BY <1>2, <1>4, <1>5, <1>6, FailsOver, OverType DEF DbInv, Register, filesystem, TypeOK
<1>7. CASE ~inTx /\ pc' = "preInstall" /\ UNCHANGED <<op, loop, touched, adrift>>
  <2>1. TypeOK'
    BY <1>2, <1>4, <1>7 DEF TypeOK, Register, filesystem, loop
  <2>2. saved = db /\ saved' = saved /\ inTx' /\ db' = Registered(db, op.name, op.ver)
    BY <1>7 DEF DbInv, DbConsistent, Register
  <2>3. Control'
    BY <1>1, <1>7, <2>2 DEF Control, Adding, Deleting
  <2> QED BY <1>5, <2>1, <2>3 DEF DbInv
<1> QED BY <1>6, <1>7 DEF Register

LEMMA PreInstallInv == ASSUME DbInv, PreInstall PROVE DbInv'
<1>1. op.name \in Names /\ op.ver \in Versions
  BY DEF DbInv, Control, Adding, PreInstall
<1>2. TypeOK
  BY DEF DbInv
<1>3. DbConsistent'
  BY DEF DbInv, DbConsistent, PreInstall, database
<1>4. CASE Fault("script") /\ Fails
  BY <1>2, <1>3, <1>4, FailsOver, FaultType, OverType
  DEF DbInv, PreInstall, database, filesystem, TypeOK
<1>5. CASE /\ NoFault
           /\ pc' = "extract" /\ todo' = NewFiles \cup NewDirs
           /\ UNCHANGED <<op, rmdirs, target, touched, adrift>>
  <2>1. todo' \in SUBSET Paths
    BY <1>1, <1>5, NewType DEF NewFiles, NewDirs, Paths
  <2>2. TypeOK'
    BY <1>2, <1>5, <2>1 DEF TypeOK, PreInstall, database, filesystem, NoFault
  <2> QED BY <1>3, <1>5, <2>2 DEF DbInv, Control, Adding, Deleting, PreInstall, database
<1> QED BY <1>4, <1>5 DEF PreInstall

LEMMA ExtractFailsInv == ASSUME DbInv, ExtractFails PROVE DbInv'
<1>1. op.name \in Names /\ op.ver \in Versions /\ TypeOK
  BY DEF DbInv, Control, Adding, ExtractFails
<1>2. NewDirs \in SUBSET Dirs
  BY <1>1, NewType DEF NewDirs
<1>3. litter' \in SUBSET (Files \X {"extract", "interrupt", "rename", "devscript", "kill"})
  BY <1>1 DEF TypeOK, ExtractFails
<1>4. TypeOK'
  BY <1>1, <1>2, <1>3, FaultType DEF TypeOK, ExtractFails, database
<1> QED BY <1>4 DEF DbInv, Control, Adding, Deleting, DbConsistent, ExtractFails, database

LEMMA CommitInv == ASSUME DbInv, Commit PROVE DbInv'
<1>1. op.name \in Names /\ op.ver \in Versions /\ TypeOK /\ db = Registered(saved, op.name, op.ver)
  BY DEF DbInv, Control, Adding, Commit
<1>2. Consistent(db)
  BY <1>1, RegisteredConsistent DEF DbInv, DbConsistent, TypeOK
<1>3. DbConsistent'
  BY <1>2 DEF DbConsistent, Commit
<1>4. PICK d : Over("idle", d) /\ d = (adrift \ (touched \cup NewFiles \cup NewDirs))
                                        \cup LeftBehind \cup Conflicts(db, op.name, op.ver)
  BY DEF Commit
<1>5. d \in SUBSET Paths
  BY <1>1, <1>4, NewType DEF TypeOK, LeftBehind, FilesOwned, Conflicts, Paths
<1> QED BY <1>1, <1>3, <1>4, <1>5, OverType DEF DbInv, Commit, TypeOK, filesystem

LEMMA CommitFailsInv == ASSUME DbInv, CommitFails PROVE DbInv'
<1>1. op.name \in Names /\ TypeOK /\ saved \in Databases /\ db \in Databases
  BY DEF DbInv, Control, Adding, CommitFails, TypeOK
<1>2. db' \in Databases /\ inTx' \in BOOLEAN
  BY <1>1 DEF TypeOK, CommitFails
<1>3. DbConsistent'
  BY DEF DbInv, DbConsistent, CommitFails
<1>4. Over("idle", adrift \cup touched) /\ adrift \cup touched \in SUBSET Paths
  BY <1>1 DEF CommitFails, TypeOK
<1> QED BY <1>1, <1>2, <1>3, <1>4, FaultType, OverType DEF DbInv, CommitFails, TypeOK, filesystem

\* The statement that unregisters a package, in or out of a transaction.
LEMMA UnregisterDb ==
  ASSUME DbInv, Deleting, db' = Unregistered(db, op.name),
         saved' = (IF inTx THEN saved ELSE db'), UNCHANGED inTx
  PROVE  saved' \in Databases /\ db' \in Databases /\ DbConsistent'
<1>1. db' \in Databases
  BY UnregisteredType DEF DbInv, Control, TypeOK
<1>2. CASE inTx
  BY <1>1, <1>2 DEF DbInv, TypeOK, DbConsistent
<1>3. CASE ~inTx
  BY <1>1, <1>3, UnregisteredConsistent DEF DbInv, Control, TypeOK, DbConsistent
<1> QED BY <1>2, <1>3

LEMMA UnregisterInv == ASSUME DbInv, Unregister PROVE DbInv'
<1>1. TypeOK /\ Deleting
  BY DEF DbInv, Deleting, Unregister
<1>2. saved' \in Databases /\ db' \in Databases /\ DbConsistent'
  BY <1>1, UnregisterDb DEF Unregister
<1>3. \E d \in SUBSET Paths : Over("idle", d)
  BY <1>1 DEF Unregister, TypeOK
<1> QED BY <1>1, <1>2, <1>3, OverType DEF DbInv, Unregister, TypeOK, filesystem

LEMMA UnregisterFailsInv == ASSUME DbInv, UnregisterFails PROVE DbInv'
<1>1. TypeOK /\ Deleting
  BY DEF DbInv, Deleting, UnregisterFails
<1>2. faulted' \in SUBSET AllFaults
  BY <1>1, FaultType DEF UnregisterFails
<1>3. CASE UNCHANGED <<db, saved, said>> /\ Fails
  BY <1>1, <1>2, <1>3, FailsOver, OverType
  DEF DbInv, DbConsistent, UnregisterFails, TypeOK, filesystem
<1>4. CASE /\ db' = Unregistered(db, op.name)
           /\ saved' = IF inTx THEN saved ELSE db'
           /\ Over("closing", IF inTx THEN adrift \cup touched ELSE adrift \ touched)
           /\ said' = said \ {op.name}
  <2>1. saved' \in Databases /\ db' \in Databases /\ DbConsistent'
    BY <1>1, <1>4, UnregisterDb DEF UnregisterFails
  <2>2. \E d \in SUBSET Paths : Over("closing", d)
    BY <1>1, <1>4 DEF TypeOK
  <2> QED BY <1>1, <1>2, <1>4, <2>1, <2>2, OverType DEF DbInv, UnregisterFails, TypeOK, filesystem
<1> QED BY <1>3, <1>4 DEF UnregisterFails

-----------------------------------------------------------------------------
(* The theorems.                                                           *)

LEMMA StepInv == DbInv /\ [Next]_vars => DbInv'
<1> SUFFICES ASSUME DbInv, [Next]_vars PROVE DbInv'
  OBVIOUS
<1>1. CASE UNCHANGED vars
  BY <1>1 DEF DbInv, TypeOK, Control, Adding, Deleting, DbConsistent, vars
<1>2. ASSUME NEW c \in Sessions, NEW force \in BOOLEAN, Open(c, force) PROVE DbInv'
  BY <1>2, OpenInv
<1>3. CASE Close \/ Kill \/ Interrupt
  BY <1>3, CloseInv, KillInv, InterruptInv
<1>4. ASSUME NEW n \in Names, RefuseAdd(n) \/ BeginDelete(n) \/ RefuseDelete(n) PROVE DbInv'
  BY <1>4, RefuseAddInv, BeginDeleteInv, RefuseDeleteInv
<1>5. ASSUME NEW p \in Available, BeginAdd(p[1], p[2]) \/ BeginInstall(p[1], p[2]) PROVE DbInv'
  <2>1. p[1] \in Names /\ p[2] \in Versions
    BY SessionsAssumption
  <2> QED BY <1>5, <2>1, BeginAddInv, BeginInstallInv
<1>6. CASE Register \/ PreInstall
  BY <1>6, RegisterInv, PreInstallInv
<1>7. ASSUME NEW x \in Paths, Extract(x) PROVE DbInv'
  BY <1>7, ExtractInv
<1>8. CASE ExtractFails \/ Extracted \/ OldScript
  BY <1>8, ExtractFailsInv, ExtractedInv, OldScriptInv
<1>9. ASSUME NEW f \in Files, Unlink(f) \/ Rename(f) \/ DeleteFile(f) PROVE DbInv'
  BY <1>9, UnlinkInv, RenameInv, DeleteFileInv
<1>10. CASE RenameFails \/ Finalized \/ Abort \/ Commit \/ CommitFails
  BY <1>10, RenameFailsInv, FinalizedInv, AbortInv, CommitInv, CommitFailsInv
<1>11. CASE PreDeinstall \/ FilesDeleted \/ DirsDeleted
  BY <1>11, PreDeinstallInv, FilesDeletedInv, DirsDeletedInv
<1>12. ASSUME NEW d \in Dirs, RmDir(d) PROVE DbInv'
  BY <1>12, RmDirInv
<1>13. CASE Unregister \/ UnregisterFails
  BY <1>13, UnregisterInv, UnregisterFailsInv
<1> QED BY <1>1, <1>2, <1>3, <1>4, <1>5, <1>6, <1>7, <1>8, <1>9, <1>10, <1>11, <1>12, <1>13 DEF Next

\* The state of every session is well formed, in an installation the transaction holds
\* the registration of that package and nothing else, and the rows belong together.
THEOREM Invariance == Spec => []DbInv
<1>1. Init => DbInv
  BY InitInv
<1>2. DbInv /\ [Next]_vars => DbInv'
  BY StepInv
<1> QED BY <1>1, <1>2, PTL DEF Spec

\* The variables keep their types.
THEOREM TypeCorrect == Spec => []TypeOK
<1>1. DbInv => TypeOK
  BY DEF DbInv
<1> QED BY <1>1, Invariance, PTL

\* Whatever fails or is killed, a row of the files table in the committed database
\* belongs to an installed package that lists the file.
THEOREM RowsBelongTogether == Spec => []DbConsistent
<1>1. DbInv => DbConsistent
  BY DEF DbInv
<1> QED BY <1>1, Invariance, PTL

\* The steps that change the committed database: a COMMIT and an autocommitted DELETE.
LEMMA SavedStep ==
  ASSUME DbInv, [Next]_vars
  PROVE  \/ UNCHANGED saved
         \/ \E n \in Names, v \in Versions : saved' = Registered(saved, n, v)
         \/ \E n \in Names : Installed(saved, n) /\ saved' = Unregistered(saved, n)
<1>1. CASE UNCHANGED vars
  BY <1>1 DEF vars
<1>2. CASE Commit
  BY <1>2 DEF Commit, DbInv, Control, Adding
<1>3. CASE Unregister \/ UnregisterFails
  <2>1. op.name \in Names /\ Installed(db, op.name)
    BY <1>3 DEF Unregister, UnregisterFails, DbInv, Control, Deleting
  <2>2. UNCHANGED saved \/ (~inTx /\ saved' = Unregistered(db, op.name))
    BY <1>3 DEF Unregister, UnregisterFails
  <2> QED BY <2>1, <2>2 DEF DbInv, DbConsistent
<1>4. CASE Next /\ ~Commit /\ ~Unregister /\ ~UnregisterFails
  BY <1>4 DEF Next, database, Open, Close, Kill, Interrupt, RefuseAdd, BeginDelete, RefuseDelete,
     BeginAdd, BeginInstall, Begin, Register, PreInstall, Extract, ExtractFails, Extracted,
     OldScript, Unlink, Rename, DeleteFile, RenameFails, Finalized, Abort, CommitFails,
     PreDeinstall, FilesDeleted, DirsDeleted, RmDir
<1> QED BY <1>1, <1>2, <1>3, <1>4

\* The committed database changes by whole packages: a step of any session, failing,
\* killed or not, registers one package, unregisters one, or changes nothing.
THEOREM ImplementsPackageDb == Spec => AtomicDb
<1>1. Init => Db!Init
  BY DEF Init, Db!Init, EmptyDb, Db!EmptyDb
<1>2. DbInv /\ [Next]_vars => [Db!Next]_saved
  <2>1. \A n \in Names, v \in Versions : Registered(saved, n, v) = Db!Registered(saved, n, v)
    BY DEF Registered, Db!Registered, Conflicts, Db!Conflicts
  <2>2. \A n \in Names : /\ Unregistered(saved, n) = Db!Unregistered(saved, n)
                         /\ Installed(saved, n) = Db!Installed(saved, n)
    BY DEF Unregistered, Db!Unregistered, Installed, Db!Installed
  <2> QED BY <2>1, <2>2, SavedStep DEF Db!Next, Db!Register, Db!Unregister
<1> QED BY <1>1, <1>2, Invariance, PTL DEF Spec, AtomicDb, Db!Spec

\* No package, forced or not, takes a file over from another one.
THEOREM FilesKeepOwners == Spec => OwnersKept
<1> DEFINE Kept(f) ==
      saved.owner[f] # None /\ saved'.owner[f] # saved.owner[f] =>
        /\ saved'.owner[f] = None
        /\ \A n \in Names \ {saved.owner[f]} : saved'.ver[n] = saved.ver[n]
<1>1. ASSUME DbInv, [Next]_vars, NEW f \in Files PROVE Kept(f)
  <2>1. saved \in Databases
    BY <1>1 DEF DbInv, TypeOK
  <2>2. ASSUME NEW n \in Names, NEW v \in Versions, saved' = Registered(saved, n, v)
        PROVE  Kept(f)
    BY <2>1, <2>2 DEF Registered, Conflicts, Databases
  <2>3. ASSUME NEW n \in Names, saved' = Unregistered(saved, n)
        PROVE  Kept(f)
    BY <2>1, <2>3 DEF Unregistered, Databases
  <2> QED BY <1>1, <2>2, <2>3, SavedStep
<1>2. DbInv /\ [Next]_vars => [\A f \in Files : Kept(f)]_saved
  BY <1>1
<1> QED BY <1>2, Invariance, PTL DEF Spec, OwnersKept

-----------------------------------------------------------------------------
(* The disk.  DiskMatchesDb is not inductive: at COMMIT the database       *)
(* starts to speak of the new version, and by then every file of it must   *)
(* have been renamed and every other file of the old version unlinked.     *)
(* DiskInv says how far an operation is with its files at each of its      *)
(* steps.                                                                  *)
(*                                                                         *)
(* DirsInv does the same for directories (DirsKept): the new version's     *)
(* exist when its row is committed, and what pkg_delete_dirs has removed   *)
(* by then is in no row.  At the end, what a failed extraction leaves.     *)

\* Nothing has been changed on disk, or nothing but directories.
Quiet ==
  /\ pc \in {"closed", "idle", "closing", "register", "preInstall", "extract", "oldScript",
             "preDeinstall"} => touched = {}
  /\ pc = "rollback" => touched \cap Files = {}

\* Temporary files are those of the package being added.
TempsKnown ==
  /\ pc \notin {"extract", "oldScript", "oldFiles", "oldDirs", "finalize", "abort"} => temps = {}
  /\ pc = "extract" => /\ temps \subseteq NewFiles /\ todo \subseteq NewFiles \cup NewDirs
                       /\ NewFiles \subseteq temps \cup todo
  /\ pc \in {"oldScript", "oldFiles", "oldDirs"} => temps = NewFiles
  /\ pc = "finalize" => temps \subseteq NewFiles

\* The files of the old version were read from the database before it was replaced.
OldFilesKnown ==
  /\ pc = "register" \/ Deleting =>
       op.oldFiles = IF op.kind = "add" THEN {} ELSE FilesOwned(db, op.name)
  /\ Adding /\ pc # "register" =>
       op.oldFiles = IF op.kind = "add" THEN {} ELSE FilesOwned(saved, op.name)
  /\ Deleting => op.kind = "delete"

\* Files of the old version that are to go are still to be visited or were.
OldFilesRemoved ==
  /\ pc = "oldFiles" => /\ todo \subseteq op.oldFiles \ NewFiles
                        /\ op.oldFiles \ NewFiles \subseteq todo \cup touched
  /\ pc \in {"oldDirs", "finalize", "commit"} => op.oldFiles \ NewFiles \subseteq touched
  /\ pc = "delFiles" => todo \subseteq op.oldFiles /\ op.oldFiles \subseteq todo \cup touched
  /\ pc \in {"delDirs", "unregister"} => op.oldFiles \subseteq touched
  /\ pc \in {"oldFiles", "oldDirs"} \/ Deleting =>
       \A f \in touched \cap Files : disk[f] = None /\ f \in op.oldFiles
  /\ pc \in {"oldFiles", "oldDirs"} => touched \cap NewFiles = {}
  /\ pc \in {"finalize", "commit"} =>
       \A f \in (touched \cap Files) \ NewFiles : disk[f] = None /\ f \in op.oldFiles

\* Files of the new version have a temporary file or are in place.
NewFilesPlaced ==
  pc \in {"finalize", "commit"} =>
    \A f \in NewFiles \ temps : f \in touched /\ disk[f] = <<op.name, op.ver>>

DiskInv ==
  DiskMatchesDb /\ Quiet /\ TempsKnown /\ OldFilesKnown /\ OldFilesRemoved /\ NewFilesPlaced

\* The initial database is empty, and so is the disk.
LEMMA InitDisk == Init => DiskInv
  BY PackagesAssumption DEF Init, EmptyDb, NoOp, DiskInv, DiskMatchesDb, Expected, Quiet, TempsKnown,
     OldFilesKnown, OldFilesRemoved, NewFilesPlaced, Adding, Deleting

\* The steps that keep each part of DiskInv for reasons of their own.
\* In terms of the files that neither the operation nor an earlier one left in doubt:
\* an operation that ends without changing the committed database keeps DiskInv.
LEMMA OverDisk ==
  ASSUME DbInv, DiskInv, NEW next \in {"closed", "idle", "closing"}, Over(next, adrift \cup touched),
         UNCHANGED <<saved, disk>>, temps' = {}
  PROVE  DiskInv'
<1>1. DiskMatchesDb'
  BY DEF DiskInv, DiskMatchesDb, Expected, Over
<1> QED
  BY <1>1 DEF DiskInv, Quiet, TempsKnown, OldFilesKnown, OldFilesRemoved, NewFilesPlaced, Adding,
     Deleting, Over

\* Registering changes nothing on disk; it saves what the old version owned.
LEMMA RegisterDisk == ASSUME DbInv, DiskInv, Register PROVE DiskInv'
<1>1. temps' = {} /\ UNCHANGED <<saved, disk>>
  BY DEF DiskInv, TempsKnown, Register, filesystem
<1>2. CASE Fails
  BY <1>1, <1>2, FailsOver, OverDisk DEF DbInv
<1>3. CASE ~inTx /\ pc' = "preInstall" /\ UNCHANGED <<op, loop, touched, adrift>>
  <2>1. DiskMatchesDb'
    BY <1>1, <1>3 DEF DiskInv, DiskMatchesDb, Expected
  <2>2. touched = {}
    BY DEF DiskInv, Quiet, Register
  <2>3. op'.oldFiles = IF op'.kind = "add" THEN {} ELSE FilesOwned(saved', op'.name)
    BY <1>1, <1>3 DEF DiskInv, OldFilesKnown, Register, DbInv, DbConsistent
  <2> QED
    BY <1>1, <1>3, <2>1, <2>2, <2>3
    DEF DiskInv, Quiet, TempsKnown, OldFilesKnown, OldFilesRemoved, NewFilesPlaced, Adding, Deleting
<1> QED BY <1>2, <1>3 DEF Register

\* With every entry extracted, every new file has its temporary file.
LEMMA ExtractedDisk == ASSUME DbInv, DiskInv, Extracted PROVE DiskInv'
<1>1. temps = NewFiles /\ touched = {}
  BY DEF DiskInv, TempsKnown, Quiet, Extracted
<1>2. op.kind \in {"add", "upgrade"} /\ (op.kind = "add" => op.oldFiles = {})
  BY DEF DbInv, Control, DiskInv, OldFilesKnown, Adding, Extracted
<1>3. UNCHANGED <<saved, db, disk, temps, todo, op, touched, adrift>>
  BY DEF Extracted, database, filesystem, loop, history
<1>4. pc' \in {"oldScript", "finalize"} /\ (pc' = "finalize" => op.kind = "add") /\ pc = "extract"
  BY <1>2 DEF Extracted
<1>5. DiskMatchesDb' /\ OldFilesKnown'
  BY <1>3, <1>4 DEF DiskInv, DiskMatchesDb, Expected, OldFilesKnown, Adding, Deleting
<1> QED
  BY <1>1, <1>2, <1>3, <1>4, <1>5
  DEF DiskInv, Quiet, TempsKnown, OldFilesRemoved, NewFilesPlaced, NewFiles, Deleting

\* A target that is unlinked is one of the new version's files.
LEMMA UnlinkDisk == ASSUME DbInv, DiskInv, NEW f \in Files, Unlink(f) PROVE DiskInv'
<1>1. f \in NewFiles /\ f \in temps
  BY DEF DiskInv, TempsKnown, Unlink
<1>2. \A y \in Files : y # f => disk'[y] = disk[y]
  BY DEF DbInv, TypeOK, Unlink
<1>3. NewFiles \subseteq Files
  BY NewType DEF DbInv, Control, Adding, Unlink, NewFiles
<1>4. UNCHANGED <<saved, db, temps, todo, op, pc, adrift>> /\ touched' = touched \cup {f}
  BY DEF Unlink, database
<1>5. DiskMatchesDb'
  BY <1>2, <1>4 DEF DiskInv, DiskMatchesDb, Expected
<1>6. NewFilesPlaced'
  BY <1>1, <1>2, <1>3, <1>4 DEF DiskInv, NewFilesPlaced, NewFiles
<1>7. OldFilesRemoved'
  BY <1>1, <1>2, <1>3, <1>4 DEF DiskInv, OldFilesRemoved, NewFiles, Deleting, Unlink
<1> QED
  BY <1>4, <1>5, <1>6, <1>7
  DEF DiskInv, Quiet, TempsKnown, OldFilesKnown, NewFiles, Adding, Deleting, Unlink

\* COMMIT: the new version is in place, the old one gone, and the rest is as it was.
LEMMA CommitDisk == ASSUME DbInv, DiskInv, Commit PROVE DiskInv'
<1> DEFINE n == op.name
           v == op.ver
<1>1. /\ n \in Names /\ v \in Versions /\ saved \in Databases
      /\ op.kind \in {"add", "upgrade"}
      /\ saved' = Registered(saved, n, v) /\ db = Registered(saved, n, v)
  BY DEF DbInv, TypeOK, Control, Adding, Commit
<1>2. NewFiles = FilesOf[n][v] /\ NewFiles \subseteq Files /\ NewDirs \cap Files = {}
  BY <1>1, NewType, PackagesAssumption DEF NewFiles, NewDirs
<1>3. adrift' = (adrift \ (touched \cup NewFiles \cup NewDirs))
                  \cup LeftBehind \cup Conflicts(db, n, v)
  BY DEF Commit, Over
<1>4. disk' = disk /\ touched' = {} /\ temps' = temps /\ temps = {}
  BY DEF Commit, Over, filesystem, DiskInv, TempsKnown
<1>5. saved'.ver[n] = v /\ \A m \in Names : m # n => saved'.ver[m] = saved.ver[m]
  BY <1>1 DEF Registered, Databases
<1>6. \A y \in Files : saved'.owner[y] = IF y \in FilesOf[n][v] \ Conflicts(saved, n, v) THEN n
                                        ELSE IF saved.owner[y] = n THEN None ELSE saved.owner[y]
  BY <1>1 DEF Registered
<1>7. ASSUME NEW y \in Files \ adrift' PROVE disk[y] = Expected(y)'
  <2>1. CASE y \in NewFiles
    <3>1. disk[y] = <<n, v>>
      BY <1>4, <2>1 DEF DiskInv, NewFilesPlaced, Commit
    <3>2. y \notin Conflicts(db, n, v)
      BY <1>3, <1>7
    <3>3. saved'.owner[y] \in {n, None}
      BY <1>1, <1>2, <2>1, <3>2 DEF Conflicts
    <3>4. saved'.owner[y] = n
      BY <1>2, <1>6, <2>1, <3>3 DEF Conflicts
    <3> QED BY <1>1, <1>5, <3>1, <3>4, PackagesAssumption DEF Expected
  <2>2. CASE y \notin NewFiles /\ y \in touched
    <3>1. disk[y] = None /\ y \in op.oldFiles
      BY <2>2 DEF DiskInv, OldFilesRemoved, Commit
    <3>2. saved.owner[y] = n
      BY <3>1 DEF DiskInv, OldFilesKnown, Adding, FilesOwned, Commit
    <3>3. saved'.owner[y] = None
      BY <1>2, <1>6, <2>2, <3>2
    <3> QED BY <3>1, <3>3 DEF Expected
  <2>3. CASE y \notin NewFiles /\ y \notin touched
    <3>1. y \notin adrift /\ y \notin LeftBehind
      BY <1>2, <1>3, <1>7, <2>3
    <3>2. disk[y] = Expected(y)
      BY <2>3, <3>1 DEF DiskInv, DiskMatchesDb
    <3>3. saved.owner[y] # n
      <4>1. CASE op.kind = "add"
        BY <2>3, <3>1, <4>1 DEF LeftBehind, FilesOwned
      <4>2. CASE op.kind = "upgrade"
        BY <2>3, <4>2 DEF DiskInv, OldFilesRemoved, OldFilesKnown, Adding, FilesOwned, Commit
      <4> QED BY <1>1, <4>1, <4>2
    <3>4. saved'.owner[y] = saved.owner[y]
      BY <1>2, <1>6, <2>3, <3>3
    <3>5. saved.owner[y] \in Names \cup {None}
      BY <1>1 DEF Databases
    <3> QED BY <1>5, <3>2, <3>3, <3>4, <3>5 DEF Expected
  <2> QED BY <2>1, <2>2, <2>3
<1>8. DiskMatchesDb'
  BY <1>4, <1>7 DEF DiskMatchesDb
<1>9. pc' = "idle"
  BY DEF Commit, Over
<1> QED
  BY <1>4, <1>8, <1>9
  DEF DiskInv, Quiet, TempsKnown, OldFilesKnown, OldFilesRemoved, NewFilesPlaced, Adding, Deleting

\* The row of a package is removed after all its files.
LEMMA UnregisteredDisk ==
  ASSUME DbInv, DiskInv, pc = "unregister", NEW next \in {"idle", "closing"},
         db' = Unregistered(db, op.name), saved' = (IF inTx THEN saved ELSE db'),
         Over(next, IF inTx THEN adrift \cup touched ELSE adrift \ touched),
         UNCHANGED <<disk, temps>>
  PROVE  DiskInv'
<1>1. temps' = {}
  BY DEF DiskInv, TempsKnown
<1>2. CASE inTx
  BY <1>1, <1>2, OverDisk
<1>3. CASE ~inTx
  <2> DEFINE n == op.name
  <2>1. n \in Names /\ saved \in Databases /\ saved = db /\ saved' = Unregistered(saved, n)
    BY <1>3 DEF DbInv, TypeOK, Control, Deleting, DbConsistent
  <2>2. \A y \in Files : saved'.owner[y] = IF saved.owner[y] = n THEN None ELSE saved.owner[y]
    BY <2>1 DEF Unregistered
  <2>3. \A m \in Names : m # n => saved'.ver[m] = saved.ver[m]
    BY <2>1 DEF Unregistered, Databases
  <2>4. op.oldFiles = FilesOwned(saved, n) /\ op.oldFiles \subseteq touched
    BY <2>1 DEF DiskInv, OldFilesKnown, OldFilesRemoved, Deleting
  <2>5. adrift' = adrift \ touched /\ touched' = {}
    BY <1>3 DEF Over
  <2>6. ASSUME NEW y \in Files \ adrift' PROVE disk[y] = Expected(y)'
    <3>1. CASE y \in touched
      <4>1. disk[y] = None /\ y \in op.oldFiles
        BY <3>1 DEF DiskInv, OldFilesRemoved, Deleting
      <4>2. saved'.owner[y] = None
        BY <2>2, <2>4, <4>1 DEF FilesOwned
      <4> QED BY <4>1, <4>2 DEF Expected
    <3>2. CASE y \notin touched
      <4>1. disk[y] = Expected(y)
        BY <2>5, <2>6, <3>2 DEF DiskInv, DiskMatchesDb
      <4>2. saved.owner[y] # n /\ saved.owner[y] \in Names \cup {None}
        BY <2>1, <2>4, <3>2 DEF FilesOwned, Databases
      <4> QED BY <2>2, <2>3, <4>1, <4>2 DEF Expected
    <3> QED BY <3>1, <3>2
  <2>7. DiskMatchesDb'
    BY <2>5, <2>6 DEF DiskMatchesDb
  <2> QED
    BY <1>1, <2>5, <2>7
    DEF DiskInv, Quiet, TempsKnown, OldFilesKnown, OldFilesRemoved, NewFilesPlaced, Adding,
        Deleting, Over
<1> QED BY <1>2, <1>3

LEMMA UnregisterDisk == ASSUME DbInv, DiskInv, Unregister PROVE DiskInv'
  BY UnregisteredDisk DEF Unregister, filesystem

LEMMA UnregisterFailsDisk == ASSUME DbInv, DiskInv, UnregisterFails PROVE DiskInv'
<1>1. temps' = {} /\ disk' = disk /\ temps' = temps /\ pc = "unregister"
  BY DEF DiskInv, TempsKnown, UnregisterFails, filesystem
<1>2. CASE UNCHANGED <<db, saved, said>> /\ Fails
  BY <1>1, <1>2, FailsOver, OverDisk DEF DbInv
<1>3. CASE /\ db' = Unregistered(db, op.name)
           /\ saved' = IF inTx THEN saved ELSE db'
           /\ Over("closing", IF inTx THEN adrift \cup touched ELSE adrift \ touched)
  BY <1>1, <1>3, UnregisteredDisk
<1> QED BY <1>2, <1>3 DEF UnregisterFails

\* An entry that is extracted moves from todo to temps.
LEMMA ExtractDisk == ASSUME DbInv, DiskInv, NEW x \in Paths, Extract(x) PROVE DiskInv'
<1>1. NewFiles \subseteq Files /\ NewDirs \cap Files = {}
  BY NewType, PackagesAssumption DEF DbInv, Control, Adding, Extract, NewFiles, NewDirs
<1>2. /\ temps \subseteq NewFiles /\ NewFiles \subseteq temps \cup todo /\ touched = {}
      /\ todo \subseteq NewFiles \cup NewDirs
  BY DEF DiskInv, TempsKnown, Quiet, Extract
<1>3. x \in Files => x \in NewFiles
  BY <1>1, <1>2 DEF Extract
<1>4. temps' \subseteq NewFiles /\ NewFiles \subseteq temps' \cup todo'
  BY <1>1, <1>2, <1>3 DEF Extract
<1> QED
  BY <1>2, <1>4 DEF DiskInv, DiskMatchesDb, Expected, Quiet, TempsKnown, OldFilesKnown, OldFilesRemoved,
     NewFilesPlaced, Adding, Deleting, NewFiles, NewDirs, Extract, database, history

\* A temporary file that is renamed is in place.
LEMMA RenameDisk == ASSUME DbInv, DiskInv, NEW f \in Files, Rename(f) PROVE DiskInv'
  BY DEF DiskInv, DiskMatchesDb, Expected, Quiet, TempsKnown, OldFilesKnown, OldFilesRemoved,
     NewFilesPlaced, Adding, Deleting, DbInv, TypeOK, Rename, database, NewFiles, NewDirs

\* A step of the loops, of a failure or of the session: the rest of Next.
LEMMA DiskStep == DbInv /\ DiskInv /\ [Next]_vars => DiskInv'
<1> SUFFICES ASSUME DbInv, DiskInv, [Next]_vars PROVE DiskInv'
  OBVIOUS
<1>1. CASE UNCHANGED vars
  BY <1>1 DEF DiskInv, DiskMatchesDb, Expected, Quiet, TempsKnown, OldFilesKnown, OldFilesRemoved,
     NewFilesPlaced, Adding, Deleting, DbInv, TypeOK, Control, NewFiles, NewDirs, vars
<1>2. ASSUME NEW c \in Sessions, NEW force \in BOOLEAN, Open(c, force) PROVE DiskInv'
  BY <1>2, PackagesAssumption DEF DiskInv, DiskMatchesDb, Expected, Quiet, TempsKnown,
     OldFilesKnown, OldFilesRemoved, NewFilesPlaced, Adding, Deleting, DbInv, TypeOK, Control,
     Open, database, filesystem, loop, history, NewDirs, NewFiles, NoOp
<1>3. CASE Close
  BY <1>3, PackagesAssumption DEF DiskInv, DiskMatchesDb, Expected, Quiet, TempsKnown,
     OldFilesKnown, OldFilesRemoved, NewFilesPlaced, Adding, Deleting, DbInv, TypeOK, Control,
     Close, database, filesystem, loop, history, NewDirs, NewFiles, NoOp
<1>4. CASE Kill
  BY <1>4, PackagesAssumption DEF DiskInv, DiskMatchesDb, Expected, Quiet, TempsKnown,
     OldFilesKnown, OldFilesRemoved, NewFilesPlaced, Adding, Deleting, DbInv, TypeOK, Control,
     Kill, database, filesystem, loop, history, Abandon, Fault, NewDirs, NewFiles, NoOp, Over
<1>5. CASE Interrupt
  BY <1>5, PackagesAssumption DEF DiskInv, DiskMatchesDb, Expected, Quiet, TempsKnown,
     OldFilesKnown, OldFilesRemoved, NewFilesPlaced, Adding, Deleting, DbInv, TypeOK, Control,
     Interrupt, database, filesystem, loop, history, Fault, NewDirs, NewFiles, NoOp, Over
<1>6. ASSUME NEW n \in Names, RefuseAdd(n) PROVE DiskInv'
  BY <1>6, PackagesAssumption DEF DiskInv, DiskMatchesDb, Expected, Quiet, TempsKnown,
     OldFilesKnown, OldFilesRemoved, NewFilesPlaced, Adding, Deleting, DbInv, TypeOK, Control,
     RefuseAdd, database, filesystem, loop, history, NewDirs, NewFiles, NoOp
<1>7. ASSUME NEW n \in Names, BeginDelete(n) PROVE DiskInv'
  BY <1>7, PackagesAssumption DEF DiskInv, DiskMatchesDb, Expected, Quiet, TempsKnown,
     OldFilesKnown, OldFilesRemoved, NewFilesPlaced, Adding, Deleting, DbInv, TypeOK, Control,
     BeginDelete, database, filesystem, loop, history, Begin, NewDirs, NewFiles, NoOp
<1>8. ASSUME NEW n \in Names, RefuseDelete(n) PROVE DiskInv'
  BY <1>8, PackagesAssumption DEF DiskInv, DiskMatchesDb, Expected, Quiet, TempsKnown,
     OldFilesKnown, OldFilesRemoved, NewFilesPlaced, Adding, Deleting, DbInv, TypeOK, Control,
     RefuseDelete, database, filesystem, loop, history, NewDirs, NewFiles, NoOp
<1>9. ASSUME NEW n \in Names, NEW v \in Versions, BeginAdd(n, v) PROVE DiskInv'
  BY <1>9, PackagesAssumption DEF DiskInv, DiskMatchesDb, Expected, Quiet, TempsKnown,
     OldFilesKnown, OldFilesRemoved, NewFilesPlaced, Adding, Deleting, DbInv, TypeOK, Control,
     BeginAdd, database, filesystem, loop, history, Begin, NewDirs, NewFiles, NoOp
<1>10. ASSUME NEW n \in Names, NEW v \in Versions, BeginInstall(n, v) PROVE DiskInv'
  BY <1>10, PackagesAssumption DEF DiskInv, DiskMatchesDb, Expected, Quiet, TempsKnown,
     OldFilesKnown, OldFilesRemoved, NewFilesPlaced, Adding, Deleting, DbInv, TypeOK, Control,
     BeginInstall, database, filesystem, loop, history, Begin, NewDirs, NewFiles, NoOp
<1>11. CASE Register
  BY <1>11, RegisterDisk
<1>12. CASE PreInstall
  BY <1>12, PackagesAssumption DEF DiskInv, DiskMatchesDb, Expected, Quiet, TempsKnown,
     OldFilesKnown, OldFilesRemoved, NewFilesPlaced, Adding, Deleting, DbInv, TypeOK, Control,
     PreInstall, database, filesystem, loop, history, AfterFailure, Fails, Fault, NewDirs,
     NewFiles, NoFault, NoOp, Over
<1>13. ASSUME NEW x \in Paths, Extract(x) PROVE DiskInv'
  BY <1>13, ExtractDisk
<1>14. CASE ExtractFails
  BY <1>14, PackagesAssumption DEF DiskInv, DiskMatchesDb, Expected, Quiet, TempsKnown,
     OldFilesKnown, OldFilesRemoved, NewFilesPlaced, Adding, Deleting, DbInv, TypeOK, Control,
     ExtractFails, database, filesystem, loop, history, Fault, NewDirs, NewFiles, NoOp
<1>15. CASE Extracted
  BY <1>15, ExtractedDisk
<1>16. CASE OldScript
  BY <1>16, PackagesAssumption DEF DiskInv, DiskMatchesDb, Expected, Quiet, TempsKnown,
     OldFilesKnown, OldFilesRemoved, NewFilesPlaced, Adding, Deleting, DbInv, TypeOK, Control,
     OldScript, database, filesystem, loop, history, Abandon, AfterFailure, Fails, Fault,
     NewDirs, NewFiles, NoFault, NoOp, Over
<1>17. ASSUME NEW f \in Files, Unlink(f) PROVE DiskInv'
  BY <1>17, UnlinkDisk
<1>18. ASSUME NEW f \in Files, Rename(f) PROVE DiskInv'
  BY <1>18, RenameDisk
<1>19. ASSUME NEW f \in Files, DeleteFile(f) PROVE DiskInv'
  BY <1>19, PackagesAssumption DEF DiskInv, DiskMatchesDb, Expected, Quiet, TempsKnown,
     OldFilesKnown, OldFilesRemoved, NewFilesPlaced, Adding, Deleting, DbInv, TypeOK, Control,
     DeleteFile, database, filesystem, loop, history, NewDirs, NewFiles, NoOp
<1>20. CASE RenameFails
  BY <1>20, PackagesAssumption DEF DiskInv, DiskMatchesDb, Expected, Quiet, TempsKnown,
     OldFilesKnown, OldFilesRemoved, NewFilesPlaced, Adding, Deleting, DbInv, TypeOK, Control,
     RenameFails, database, filesystem, loop, history, Fault, NewDirs, NewFiles, NoOp
<1>21. CASE Finalized
  BY <1>21, PackagesAssumption DEF DiskInv, DiskMatchesDb, Expected, Quiet, TempsKnown,
     OldFilesKnown, OldFilesRemoved, NewFilesPlaced, Adding, Deleting, DbInv, TypeOK, Control,
     Finalized, database, filesystem, loop, history, NewDirs, NewFiles, NoOp
<1>22. CASE Abort
  BY <1>22, PackagesAssumption DEF DiskInv, DiskMatchesDb, Expected, Quiet, TempsKnown,
     OldFilesKnown, OldFilesRemoved, NewFilesPlaced, Adding, Deleting, DbInv, TypeOK, Control,
     Abort, database, filesystem, loop, history, Abandon, AfterFailure, Fails, NewDirs, NewFiles,
     NoOp, Over
<1>23. CASE Commit
  BY <1>23, CommitDisk
<1>24. CASE CommitFails
  BY <1>24, PackagesAssumption DEF DiskInv, DiskMatchesDb, Expected, Quiet, TempsKnown,
     OldFilesKnown, OldFilesRemoved, NewFilesPlaced, Adding, Deleting, DbInv, TypeOK, Control,
     CommitFails, database, filesystem, loop, history, Fault, NewDirs, NewFiles, NoOp, Over
<1>25. CASE PreDeinstall
  BY <1>25, PackagesAssumption DEF DiskInv, DiskMatchesDb, Expected, Quiet, TempsKnown,
     OldFilesKnown, OldFilesRemoved, NewFilesPlaced, Adding, Deleting, DbInv, TypeOK, Control,
     PreDeinstall, database, filesystem, loop, history, AfterFailure, Fails, Fault, NewDirs,
     NewFiles, NoFault, NoOp, Over
<1>26. CASE FilesDeleted
  BY <1>26, PackagesAssumption DEF DiskInv, DiskMatchesDb, Expected, Quiet, TempsKnown,
     OldFilesKnown, OldFilesRemoved, NewFilesPlaced, Adding, Deleting, DbInv, TypeOK, Control,
     FilesDeleted, database, filesystem, loop, history, NewDirs, NewFiles, NoOp
<1>27. CASE DirsDeleted
  BY <1>27, PackagesAssumption DEF DiskInv, DiskMatchesDb, Expected, Quiet, TempsKnown,
     OldFilesKnown, OldFilesRemoved, NewFilesPlaced, Adding, Deleting, DbInv, TypeOK, Control,
     DirsDeleted, database, filesystem, loop, history, NewDirs, NewFiles, NoOp
<1>28. ASSUME NEW d \in Dirs, RmDir(d) PROVE DiskInv'
  BY <1>28, PackagesAssumption DEF DiskInv, DiskMatchesDb, Expected, Quiet, TempsKnown,
     OldFilesKnown, OldFilesRemoved, NewFilesPlaced, Adding, Deleting, DbInv, TypeOK, Control,
     RmDir, database, filesystem, loop, history, NewDirs, NewFiles, NoOp
<1>29. CASE Unregister
  BY <1>29, UnregisterDisk
<1>30. CASE UnregisterFails
  BY <1>30, UnregisterFailsDisk
<1>31. \A p \in Available : p[1] \in Names /\ p[2] \in Versions
  BY SessionsAssumption
<1> QED BY <1>1, <1>2, <1>3, <1>4, <1>5, <1>6, <1>7, <1>8, <1>9, <1>10, <1>11, <1>12, <1>13,
     <1>14, <1>15, <1>16, <1>17, <1>18, <1>19, <1>20, <1>21, <1>22, <1>23, <1>24, <1>25, <1>26,
     <1>27, <1>28, <1>29, <1>30, <1>31 DEF Next

\* In an installation that fails, is interrupted or killed anywhere, each file on disk
\* is the one the committed database says, but for the paths such operations changed.
THEOREM DiskFollowsDb == Spec => []DiskMatchesDb
<1>1. Init => DiskInv
  BY InitDisk
<1>2. DbInv /\ DiskInv /\ [Next]_vars => DiskInv'
  BY DiskStep
<1>3. DiskInv => DiskMatchesDb
  BY DEF DiskInv
<1> QED BY <1>1, <1>2, <1>3, Invariance, PTL DEF Spec

-----------------------------------------------------------------------------
(* The directories.                                                        *)

\* The new version's directories exist once its entries are extracted, and its row
\* of pkg_directories, registered before, keeps pkg_delete_dirs off them.
NewDirsMade ==
  /\ pc = "extract" => NewDirs \subseteq dirs \cup todo
  /\ pc \in {"oldScript", "oldFiles", "oldDirs", "finalize", "commit"} => NewDirs \subseteq dirs

\* An operation that gets as far as the database has removed no directory that a row
\* speaks of, but the row of the package that goes.
UsedDirsKept ==
  /\ pc \in {"oldFiles", "oldDirs", "finalize", "commit"} =>
       \A n \in Names : touched \cap DirsListed(db, n) = {}
  /\ pc \in {"delFiles", "delDirs", "unregister"} =>
       \A n \in Names \ {op.name} : touched \cap DirsListed(db, n) = {}

DirsInv == DirsKept /\ NewDirsMade /\ UsedDirsKept

LEMMA InitDirs == Init => DirsInv
  BY DEF Init, EmptyDb, DirsInv, DirsKept, NewDirsMade, UsedDirsKept, DirsListed, Installed

\* An operation that ends without changing the committed database.
LEMMA OverDirs ==
  ASSUME DirsInv, NEW next \in {"closed", "idle", "closing"}, Over(next, adrift \cup touched),
         UNCHANGED <<saved, dirs>>
  PROVE  DirsInv'
  BY DEF DirsInv, DirsKept, NewDirsMade, UsedDirsKept, Over

\* A directory that is removed is one no row of db speaks of, or only the row that goes.
LEMMA RmDirDirs == ASSUME DbInv, DirsInv, NEW d \in Dirs, RmDir(d) PROVE DirsInv'
<1>1. UNCHANGED <<saved, db, op, pc, todo, adrift>>
  BY DEF RmDir, database
<1>2. CASE dirs' = dirs \ {d} /\ touched' = touched \cup {d} /\ ~IsDirUsed(d)
  <2>1. DirsKept'
    BY <1>1, <1>2 DEF DirsInv, DirsKept
  <2>2. \A n \in Names : d \in DirsListed(db, n) => pc = "delDirs" /\ n = op.name
    BY <1>2 DEF IsDirUsed
  <2>3. UsedDirsKept'
    BY <1>1, <1>2, <2>2 DEF DirsInv, UsedDirsKept, RmDir
  <2>4. pc = "oldDirs" => d \notin NewDirs
    <3> SUFFICES ASSUME pc = "oldDirs" PROVE d \notin NewDirs
      OBVIOUS
    <3>1. /\ op.name \in Names /\ op.ver \in Versions /\ saved \in Databases
          /\ db = Registered(saved, op.name, op.ver)
      BY DEF DbInv, TypeOK, Control, Adding
    <3>2. db.ver[op.name] = op.ver /\ op.ver # None
      BY <3>1, PackagesAssumption DEF Registered, Databases
    <3>3. DirsListed(db, op.name) = NewDirs
      BY <3>2 DEF DirsListed, Installed, NewDirs
    <3> QED BY <2>2, <3>1, <3>3
  <2>5. NewDirsMade'
    BY <1>1, <1>2, <2>4 DEF DirsInv, NewDirsMade, NewDirs, RmDir
  <2> QED BY <2>1, <2>3, <2>5 DEF DirsInv
<1>3. CASE UNCHANGED <<dirs, touched>>
  BY <1>1, <1>3 DEF DirsInv, DirsKept, NewDirsMade, UsedDirsKept, NewDirs
<1> QED BY <1>2, <1>3 DEF RmDir

\* COMMIT: the new version's directories exist, and the others it speaks of were kept.
LEMMA CommitDirs == ASSUME DbInv, DirsInv, Commit PROVE DirsInv'
<1>1. /\ op.name \in Names /\ op.ver \in Versions /\ saved \in Databases
      /\ saved' = db /\ db = Registered(saved, op.name, op.ver)
  BY DEF DbInv, TypeOK, Control, Adding, Commit
<1>2. /\ db.ver[op.name] = op.ver /\ op.ver # None
      /\ \A n \in Names \ {op.name} : db.ver[n] = saved.ver[n]
  BY <1>1, PackagesAssumption DEF Registered, Databases
<1>3. DirsListed(db, op.name) = NewDirs
  BY <1>2 DEF DirsListed, Installed, NewDirs
<1>4. \A n \in Names \ {op.name} : DirsListed(db, n) = DirsListed(saved, n)
  BY <1>2 DEF DirsListed, Installed
<1>5. NewDirs \subseteq dirs /\ \A n \in Names : touched \cap DirsListed(db, n) = {}
  BY DEF DirsInv, NewDirsMade, UsedDirsKept, Commit
<1>6. /\ \A n \in Names : DirsListed(db, n) \subseteq Dirs
      /\ NewFiles \cap Dirs = {}
  BY <1>1, DirsListedType, NewType, PackagesAssumption DEF DbInv, TypeOK, NewFiles
<1>7. (adrift \ (touched \cup NewFiles \cup NewDirs)) \subseteq adrift' /\ touched' = {} /\ dirs' = dirs
  BY DEF Commit, Over, filesystem
<1>8. ASSUME NEW n \in Names, NEW d \in DirsListed(db, n), d \notin adrift' PROVE d \in dirs
  <2>1. CASE d \in NewDirs
    BY <1>5, <2>1
  <2>2. CASE d \notin NewDirs
    <3>1. d \notin adrift \cup touched
      BY <1>5, <1>6, <1>7, <1>8, <2>2
    <3>2. d \in DirsListed(saved, n)
      BY <1>3, <1>4, <2>2
    <3> QED BY <3>1, <3>2 DEF DirsInv, DirsKept
  <2> QED BY <2>1, <2>2
<1>9. DirsKept'
  <2>1. \A n \in Names : DirsListed(saved, n)' = DirsListed(db, n)
    BY <1>1 DEF DirsListed, Installed
  <2> QED BY <1>7, <1>8, <2>1 DEF DirsKept
<1> QED BY <1>9 DEF DirsInv, NewDirsMade, UsedDirsKept, Commit, Over

\* The row that goes is the only one that spoke of the directories removed with it.
LEMMA UnregisteredDirs ==
  ASSUME DbInv, DirsInv, pc = "unregister", NEW next \in {"idle", "closing"},
         db' = Unregistered(db, op.name), saved' = (IF inTx THEN saved ELSE db'),
         Over(next, IF inTx THEN adrift \cup touched ELSE adrift \ touched),
         UNCHANGED dirs
  PROVE  DirsInv'
<1>1. CASE inTx
  BY <1>1, OverDirs
<1>2. CASE ~inTx
  <2>1. /\ op.name \in Names /\ saved = db /\ saved \in Databases
        /\ saved' = Unregistered(saved, op.name)
    BY <1>2 DEF DbInv, TypeOK, Control, Deleting, DbConsistent
  <2>2. /\ saved'.ver[op.name] = None
        /\ \A n \in Names \ {op.name} : saved'.ver[n] = saved.ver[n]
    BY <2>1 DEF Unregistered, Databases
  <2>3. /\ DirsListed(saved', op.name) = {}
        /\ \A n \in Names \ {op.name} : DirsListed(saved', n) = DirsListed(saved, n)
    BY <2>2 DEF DirsListed, Installed
  <2>4. adrift' = adrift \ touched /\ touched' = {}
    BY <1>2 DEF Over
  <2>5. \A n \in Names \ {op.name} : touched \cap DirsListed(saved, n) = {}
    BY <2>1 DEF DirsInv, UsedDirsKept
  <2>6. DirsKept'
    BY <2>3, <2>4, <2>5 DEF DirsInv, DirsKept, DirsListed, Installed
  <2> QED BY <2>6 DEF DirsInv, NewDirsMade, UsedDirsKept, Over
<1> QED BY <1>1, <1>2

LEMMA UnregisterDirs == ASSUME DbInv, DirsInv, Unregister PROVE DirsInv'
  BY UnregisteredDirs DEF Unregister, filesystem

LEMMA UnregisterFailsDirs == ASSUME DbInv, DirsInv, UnregisterFails PROVE DirsInv'
<1>1. dirs' = dirs /\ pc = "unregister"
  BY DEF UnregisterFails, filesystem
<1>2. CASE UNCHANGED <<db, saved, said>> /\ Fails
  BY <1>1, <1>2, FailsOver, OverDirs DEF DbInv
<1>3. CASE /\ db' = Unregistered(db, op.name)
           /\ saved' = IF inTx THEN saved ELSE db'
           /\ Over("closing", IF inTx THEN adrift \cup touched ELSE adrift \ touched)
  BY <1>1, <1>3, UnregisteredDirs
<1> QED BY <1>2, <1>3 DEF UnregisterFails

\* The steps with a failure among their outcomes.
LEMMA RegisterDirs == ASSUME DbInv, DirsInv, Register PROVE DirsInv'
<1>1. UNCHANGED <<saved, dirs>>
  BY DEF Register, filesystem
<1>2. CASE Fails
  BY <1>1, <1>2, FailsOver, OverDirs DEF DbInv
<1>3. CASE pc' = "preInstall" /\ UNCHANGED <<op, loop, touched, adrift>>
  BY <1>1, <1>3 DEF DirsInv, DirsKept, NewDirsMade, UsedDirsKept
<1> QED BY <1>2, <1>3 DEF Register

LEMMA PreInstallDirs == ASSUME DbInv, DirsInv, PreInstall PROVE DirsInv'
<1>1. UNCHANGED <<saved, dirs>>
  BY DEF PreInstall, database, filesystem
<1>2. CASE Fails
  BY <1>1, <1>2, FailsOver, OverDirs DEF DbInv
<1>3. CASE /\ pc' = "extract" /\ todo' = NewFiles \cup NewDirs
           /\ UNCHANGED <<op, rmdirs, target, touched, adrift>>
  BY <1>1, <1>3 DEF DirsInv, DirsKept, NewDirsMade, UsedDirsKept, NewDirs
<1> QED BY <1>2, <1>3 DEF PreInstall

LEMMA OldScriptDirs == ASSUME DbInv, DiskInv, DirsInv, OldScript PROVE DirsInv'
<1>1. UNCHANGED <<saved, dirs>>
  BY DEF OldScript, database
<1>2. CASE Fails
  BY <1>1, <1>2, FailsOver, OverDirs DEF DbInv
<1>3. CASE pc' = "oldFiles" /\ UNCHANGED <<op, touched, adrift>>
  <2>1. touched = {}
    BY DEF DiskInv, Quiet, OldScript
  <2> QED BY <1>1, <1>3, <2>1 DEF DirsInv, DirsKept, NewDirsMade, UsedDirsKept, NewDirs, OldScript
<1> QED BY <1>2, <1>3 DEF OldScript

LEMMA PreDeinstallDirs == ASSUME DbInv, DiskInv, DirsInv, PreDeinstall PROVE DirsInv'
<1>1. UNCHANGED <<saved, dirs>>
  BY DEF PreDeinstall, database, filesystem
<1>2. CASE Fails
  BY <1>1, <1>2, FailsOver, OverDirs DEF DbInv
<1>3. CASE pc' = "delFiles" /\ UNCHANGED <<op, touched, adrift>>
  <2>1. touched = {}
    BY DEF DiskInv, Quiet, PreDeinstall
  <2> QED BY <1>1, <1>3, <2>1 DEF DirsInv, DirsKept, NewDirsMade, UsedDirsKept
<1> QED BY <1>2, <1>3 DEF PreDeinstall

\* An entry that is a directory exists once it is extracted.
LEMMA ExtractDirs == ASSUME DbInv, DirsInv, NEW x \in Paths, Extract(x) PROVE DirsInv'
<1>1. NewDirs \cap Files = {}
  BY NewType, PackagesAssumption DEF DbInv, Control, Adding, Extract, NewDirs
<1>2. NewDirs \subseteq dirs \cup todo
  BY DEF DirsInv, NewDirsMade, Extract
<1>3. dirs \subseteq dirs' /\ (x \notin Files => x \in dirs') /\ todo' = todo \ {x}
  BY DEF Extract
<1>4. NewDirs \subseteq dirs' \cup todo'
  BY <1>1, <1>2, <1>3
<1> QED
  BY <1>3, <1>4 DEF DirsInv, DirsKept, NewDirsMade, UsedDirsKept, NewDirs, Extract, database, history

\* Files come and go, which are no directories.
LEMMA FileDirs ==
  ASSUME DbInv, DirsInv, NEW f \in Files, Unlink(f) \/ Rename(f) \/ DeleteFile(f)
  PROVE  DirsInv'
<1>1. \A n \in Names : f \notin DirsListed(db, n)
  BY DirsListedType, PackagesAssumption DEF DbInv, TypeOK
<1>2. UNCHANGED <<saved, db, dirs, op, pc, adrift>> /\ touched' = touched \cup {f} /\ pc # "extract"
  BY DEF Unlink, Rename, DeleteFile, database
<1> QED BY <1>1, <1>2 DEF DirsInv, DirsKept, NewDirsMade, UsedDirsKept, NewDirs

\* The rest of Next.
LEMMA DirsStep == DbInv /\ DiskInv /\ DirsInv /\ [Next]_vars => DirsInv'
<1> SUFFICES ASSUME DbInv, DiskInv, DirsInv, [Next]_vars PROVE DirsInv'
  OBVIOUS
<1>1. CASE UNCHANGED vars
  BY <1>1 DEF DirsInv, DirsKept, NewDirsMade, UsedDirsKept, NewDirs, vars
<1>2. CASE Close \/ Kill \/ Interrupt
  <2>1. DirsKept'
    BY <1>2 DEF DirsInv, DirsKept, Close, Kill, Interrupt, Over, filesystem, loop, history
  <2> QED BY <1>2, <2>1 DEF DirsInv, NewDirsMade, UsedDirsKept, Close, Kill, Interrupt, Over
<1>3. ASSUME NEW c \in Sessions, NEW force \in BOOLEAN, Open(c, force) PROVE DirsInv'
  BY <1>3 DEF DirsInv, DirsKept, NewDirsMade, UsedDirsKept, Open, database, filesystem
<1>4. ASSUME NEW n \in Names, RefuseAdd(n) \/ BeginDelete(n) \/ RefuseDelete(n) PROVE DirsInv'
  BY <1>4 DEF DirsInv, DirsKept, NewDirsMade, UsedDirsKept, RefuseAdd, BeginDelete, RefuseDelete,
     Begin, database, filesystem, loop, history
<1>5. ASSUME NEW p \in Available, BeginAdd(p[1], p[2]) \/ BeginInstall(p[1], p[2])
      PROVE  DirsInv'
  BY <1>5 DEF DirsInv, DirsKept, NewDirsMade, UsedDirsKept, BeginAdd, BeginInstall, Begin,
     database, filesystem, loop, history
<1>6. CASE Register \/ PreInstall \/ OldScript \/ PreDeinstall
  BY <1>6, RegisterDirs, PreInstallDirs, OldScriptDirs, PreDeinstallDirs
<1>7. ASSUME NEW x \in Paths, Extract(x) PROVE DirsInv'
  BY <1>7, ExtractDirs
<1>8. CASE ExtractFails \/ RenameFails
  BY <1>8 DEF DirsInv, DirsKept, NewDirsMade, UsedDirsKept, ExtractFails, RenameFails, database,
     filesystem, loop, history
<1>9. CASE Extracted
  <2>1. touched = {} /\ todo = {}
    BY <1>9 DEF DiskInv, Quiet, Extracted
  <2> QED BY <1>9, <2>1 DEF DirsInv, DirsKept, NewDirsMade, UsedDirsKept, NewDirs, Extracted,
     database, filesystem, loop, history
<1>10. ASSUME NEW f \in Files, Unlink(f) \/ Rename(f) \/ DeleteFile(f) PROVE DirsInv'
  BY <1>10, FileDirs
<1>11. CASE Finalized \/ FilesDeleted \/ DirsDeleted
  <2>1. UNCHANGED <<saved, db, dirs, op, touched, adrift>>
    BY <1>11 DEF Finalized, FilesDeleted, DirsDeleted, database, filesystem, history
  <2>2. DirsKept'
    BY <2>1 DEF DirsInv, DirsKept
  <2> QED BY <1>11, <2>1, <2>2 DEF DirsInv, NewDirsMade, UsedDirsKept, NewDirs, Finalized,
     FilesDeleted, DirsDeleted
<1>12. CASE Abort
  <2>1. Fails /\ UNCHANGED <<saved, dirs>>
    BY <1>12 DEF Abort
  <2> QED BY <2>1, FailsOver, OverDirs DEF DbInv
<1>13. CASE Commit \/ Unregister \/ UnregisterFails
  BY <1>13, CommitDirs, UnregisterDirs, UnregisterFailsDirs
<1>14. CASE CommitFails
  BY <1>14, OverDirs DEF CommitFails, filesystem
<1>15. ASSUME NEW d \in Dirs, RmDir(d) PROVE DirsInv'
  BY <1>15, RmDirDirs
<1> QED BY <1>1, <1>2, <1>3, <1>4, <1>5, <1>6, <1>7, <1>8, <1>9, <1>10, <1>11, <1>12, <1>13,
     <1>14, <1>15 DEF Next

\* Whatever fails on the way, the directories of an installed package exist, but for
\* those of the operation under way and of operations that were broken off: neither an
\* upgrade nor the removal of another package takes them away.
THEOREM DirectoriesStay == Spec => []DirsKept
<1>1. Init => DiskInv /\ DirsInv
  BY InitDisk, InitDirs
<1>2. DbInv /\ DiskInv /\ DirsInv /\ [Next]_vars => DiskInv' /\ DirsInv'
  BY DiskStep, DirsStep
<1>3. DirsInv => DirsKept
  BY DEF DirsInv
<1> QED BY <1>1, <1>2, <1>3, Invariance, PTL DEF Spec

=============================================================================
