-------------------------- MODULE PkgdbLockProofs --------------------------
(***************************************************************************)
(* Proofs about PkgdbLock for every finite set of processes, whatever the  *)
(* commands, the options and the number of crashes.                        *)
(*                                                                         *)
(* ExclusionUnlessBreach is not inductive: that no two processes hold      *)
(* conflicting locks follows from what the row of pkg_lock says, so the    *)
(* invariant relates every lock a process was granted to the row (Matched) *)
(* as long as no breach happened.  ControlOK says which statements a call  *)
(* can be at in each stage of a command.  A transaction that is rolled     *)
(* back brings old rows back: Grants and OneWriter say that only the       *)
(* holder of the exclusive lock has one open, so that nobody holds a lock  *)
(* when that happens.                                                      *)
(*                                                                         *)
(* AllReleased needs more: that the row says no more than what was granted *)
(* (Exact), and that a pid in the table is that of a running command that  *)
(* holds a lock or is about to remove it (Account), both as long as there  *)
(* was neither a breach nor a crash.                                       *)
(***************************************************************************)
EXTENDS PkgdbLock, FiniteSetTheorems, TLAPS

Sqls == TrySqls \cup {"put_read", "put_advisory", "put_exclusive"}
TryPcs == {"try", "writePid", "checkPid", "reset", "removePid", "deleteRow", "insertRow"}
TryStages == {"acquire", "upgrade", "nested", "downgrade"}
ReleaseStages == {"releaseExclusive", "nestedRelease", "release"}

\* A process is inside pkgdb_try_lock or pkgdb_release_lock only in the stages that
\* call it, and only a running command has a stage.
ControlOK ==
  \A p \in Procs :
    /\ pc[p] \in TryPcs => stage[p] \in TryStages /\ sql[p] \in TrySqls
    /\ pc[p] \in {"unlock", "dropPid"} => stage[p] \in ReleaseStages
    /\ stage[p] # "none" => cmd[p] # "none"

\* There is one row at most, and it shows every lock a process was granted.
Matched ==
  /\ Len(pkg_lock) <= 1
  /\ \A p \in Procs : granted[p] # {} => Len(pkg_lock) = 1
  /\ \A p \in Procs : "exclusive" \in granted[p] => pkg_lock[1].exclusive = 1
  /\ \A p \in Procs : "advisory" \in granted[p] => pkg_lock[1].advisory = 1
  /\ Len(pkg_lock) = 1 => pkg_lock[1].read >= Cardinality(Readers)

Safe == breach \subseteq LeftBehind => Matched /\ Exclusion

\* The lock a call of pkgdb_try_lock ends with when it succeeds.
Wanted(p) ==
  CASE stage[p] = "acquire" -> FirstLock(cmd[p])
    [] stage[p] = "downgrade" -> "advisory"
    [] OTHER -> "exclusive"

\* A call asks for the lock its stage wants and has it before it writes the pid, so that
\* a command that registers packages was granted the exclusive lock; one that closes the
\* database has given back what it held.
Granted(p) ==
  /\ pc[p] \in TryPcs => TypeOf(sql[p]) = Wanted(p)
  /\ pc[p] = "writePid" => TypeOf(sql[p]) \in granted[p]
  /\ stage[p] \in {"upgrade", "nested", "nestedExclusive", "nestedRelease", "fixed", "downgrade"}
       => cmd[p] # "modify"
  /\ Registers(p) => "exclusive" \in granted[p]
  /\ stage[p] = "release" /\ pc[p] = "dropPid" => granted[p] = {}
  /\ stage[p] = "close" => granted[p] = {}
Grants == \A p \in Procs : Granted(p)

\* One transaction is open at most.  What it hides is at most one row, and as long as
\* it is open no other process holds a lock.
OneWriter ==
  \A t \in txn :
    /\ txn = {t}
    /\ cmd[t.by] \in {"modify", "jobs", "check"} /\ stage[t.by] \notin {"none", "acquire"}
    /\ breach \subseteq LeftBehind => Len(t.lock) <= 1 /\ NothingHeld(Others(t.by))

IInv == TypeOK /\ ControlOK /\ Grants /\ OneWriter /\ Safe

-----------------------------------------------------------------------------
(* The UPDATE statements keep the table well-typed and its length.          *)

\* A statement that matches a row leaves a row.
LEMMA UpdatedType ==
  ASSUME NEW s \in Sqls, NEW r \in Row, Matches(s, r)
  PROVE  Updated(s, r) \in Row
<1>1. r.exclusive \in {0, 1} /\ r.advisory \in {0, 1} /\ r.read \in Nat
  BY DEF Row
<1>2. \A f \in {0, 1} : /\ [r EXCEPT !.exclusive = f] \in Row
                         /\ [r EXCEPT !.advisory = f] \in Row
                         /\ \A g \in {0, 1} : [r EXCEPT !.exclusive = g, !.advisory = f] \in Row
  BY DEF Row
<1>3. \A k \in Nat : [r EXCEPT !.read = k] \in Row
  BY DEF Row
<1>4. CASE s = "get_read"
  BY <1>1, <1>3, <1>4 DEF Updated, Counted
<1>5. CASE s = "put_read"
  <2>1. r.read - 1 \in Nat
    BY <1>1, <1>5 DEF Matches
  <2> QED
    BY <1>3, <1>5, <2>1 DEF Updated, Counted
<1>6. CASE s \notin {"get_read", "put_read"}
  BY <1>2, <1>6 DEF Updated, Counted, Sqls, TrySqls
<1> QED
  BY <1>4, <1>5, <1>6

\* RunUpdate changes the rows that match and nothing else.
LEMMA RunUpdateType ==
  ASSUME pkg_lock \in Seq(Row), NEW s \in Sqls, RunUpdate(s)
  PROVE  /\ pkg_lock' \in Seq(Row)
         /\ Len(pkg_lock') = Len(pkg_lock)
         /\ \A i \in 1..Len(pkg_lock) :
              pkg_lock'[i] = IF Matches(s, pkg_lock[i]) THEN Updated(s, pkg_lock[i]) ELSE pkg_lock[i]
<1> DEFINE n == Len(pkg_lock)
           New(i) == IF Matches(s, pkg_lock[i]) THEN Updated(s, pkg_lock[i]) ELSE pkg_lock[i]
<1>1. n \in Nat /\ DOMAIN pkg_lock = 1..n
  OBVIOUS
<1>2. pkg_lock' = [i \in 1..n |-> New(i)]
  BY <1>1 DEF RunUpdate
<1>3. \A i \in 1..n : pkg_lock[i] \in Row
  OBVIOUS
<1>4. \A i \in 1..n : New(i) \in Row
  BY <1>3, UpdatedType
<1> HIDE DEF New
<1>5. pkg_lock' \in [1..n -> Row]
  BY <1>2, <1>4
<1>6. pkg_lock' \in Seq(Row) /\ Len(pkg_lock') = n
  BY <1>1, <1>5
<1> QED
  BY <1>1, <1>2, <1>6 DEF New

\* A reset keeps the number of rows.
LEMMA ResetType ==
  ASSUME pkg_lock \in Seq(Row), pkg_lock' = [i \in DOMAIN pkg_lock |-> NoLock]
  PROVE  pkg_lock' \in Seq(Row) /\ Len(pkg_lock') = Len(pkg_lock)
<1>1. Len(pkg_lock) \in Nat /\ DOMAIN pkg_lock = 1..Len(pkg_lock) /\ NoLock \in Row
  BY DEF NoLock, Row
<1>2. pkg_lock' \in [1..Len(pkg_lock) -> Row]
  BY <1>1
<1> QED
  BY <1>1, <1>2

-----------------------------------------------------------------------------
(* Type correctness.                                                       *)

Stages == {"none", "acquire", "locked", "upgrade", "exclusive", "nested", "nestedExclusive",
           "nestedRelease", "fixed", "downgrade", "releaseExclusive", "release", "close"}
ReturnStages == {"none", "locked", "exclusive", "release", "nestedExclusive", "fixed", "close"}
Kinds == SUBSET {"reset", "release", "convert", "kept", "late", "undone"}
Transactions == SUBSET [by : Procs, lock : Seq(Row), pids : SUBSET Procs, ends : BOOLEAN]

\* A call that returns moves the command to a stage between calls, to its last
\* release, or to its end.
Returns(p) ==
  \E next \in ReturnStages :
    /\ stage' = [stage EXCEPT ![p] = next]
    /\ pc' = [pc EXCEPT ![p] = IF next = "release" THEN "unlock" ELSE "none"]
    /\ cmd' = [cmd EXCEPT ![p] = IF next = "none" THEN "none" ELSE @]

LEMMA TryReturns ==
  ASSUME ControlOK, NEW p \in Procs, NEW ret, pc[p] \in TryPcs, Return(p, ret)
  PROVE  Returns(p) /\ Idle(p)
<1>1. stage[p] \in TryStages
  BY DEF ControlOK
<1>2. AfterTry(p, ret) \in ReturnStages
  BY <1>1 DEF AfterTry, TryStages, ReturnStages
<1> QED
  BY <1>2 DEF Return, Returns

LEMMA ReleaseReturns ==
  ASSUME NEW p \in Procs, stage[p] \in ReleaseStages, ReturnFromRelease(p)
  PROVE  Returns(p)
BY DEF ReturnFromRelease, Returns, ReleaseStages, ReturnStages

LEMMA ReturnType ==
  ASSUME TypeOK, ControlOK, NEW p \in Procs, cmd[p] # "none", Returns(p),
         \/ Idle(p)
         \/ UNCHANGED <<sql, tries>>
  PROVE  /\ ControlOK'
         /\ cmd' \in [Procs -> AllCommands \cup {"none"}]
         /\ stage' \in [Procs -> Stages]
         /\ pc' \in [Procs -> {"none", "try", "writePid", "checkPid", "reset", "removePid",
                               "deleteRow", "insertRow", "unlock", "dropPid"}]
         /\ sql' \in [Procs -> TrySqls \cup {"none"}]
         /\ tries' \in [Procs -> Nat]
<1> PICK next \in ReturnStages :
       /\ stage' = [stage EXCEPT ![p] = next]
       /\ pc' = [pc EXCEPT ![p] = IF next = "release" THEN "unlock" ELSE "none"]
       /\ cmd' = [cmd EXCEPT ![p] = IF next = "none" THEN "none" ELSE @]
  BY DEF Returns
<1>1. /\ cmd' \in [Procs -> AllCommands \cup {"none"}]
      /\ stage' \in [Procs -> Stages]
  BY DEF TypeOK, Stages, ReturnStages
<1>2. pc' \in [Procs -> {"none", "try", "writePid", "checkPid", "reset", "removePid",
                        "deleteRow", "insertRow", "unlock", "dropPid"}]
  BY DEF TypeOK
<1>3. /\ sql' \in [Procs -> TrySqls \cup {"none"}]
      /\ tries' \in [Procs -> Nat]
      /\ \A q \in Procs \ {p} : sql'[q] = sql[q]
  <2>1. CASE Idle(p)
    BY <2>1 DEF TypeOK, Idle
  <2>2. CASE UNCHANGED <<sql, tries>>
    BY <2>2 DEF TypeOK
  <2> QED
    BY <2>1, <2>2
<1>4. ASSUME NEW q \in Procs, q # p
      PROVE  stage'[q] = stage[q] /\ pc'[q] = pc[q] /\ cmd'[q] = cmd[q] /\ sql'[q] = sql[q]
  BY <1>3, <1>4 DEF TypeOK
<1>5. pc'[p] \notin TryPcs /\ stage'[p] = next /\ (pc'[p] = "unlock" => next = "release")
      /\ pc'[p] # "dropPid" /\ (next # "none" => cmd'[p] # "none")
  BY DEF TypeOK, TryPcs
<1>6. ControlOK'
  BY <1>4, <1>5 DEF ControlOK, ReleaseStages
<1> QED
  BY <1>1, <1>2, <1>3, <1>6

\* pkgdb_try_lock's steps keep the types and the control state.
LEMMA TryLockType ==
  ASSUME TypeOK, ControlOK, NEW p \in Procs, TryLock(p)
  PROVE  TypeOK' /\ ControlOK'
<1> USE DEF ControlOK, TryPcs, TryStages, ReleaseStages, Kinds
<1>1. CASE TrySucceeds(p)
  <2>1. pc[p] = "try" /\ sql[p] \in TrySqls
    BY <1>1 DEF TrySucceeds
  <2>2. pkg_lock' \in Seq(Row)
    BY <1>1, <2>1, RunUpdateType DEF TrySucceeds, TypeOK, Sqls
  <2>3. granted' \in [Procs -> SUBSET LockTypes]
    BY <1>1, <2>1 DEF TrySucceeds, TypeOK, TypeOf, TrySqls, LockTypes
  <2>4. breach' \in Kinds
    BY <1>1 DEF TrySucceeds, TypeOK, Record
  <2>5. CASE IsUpgrade(sql[p])
    <3> Return(p, "EPKG_OK")
      BY <1>1, <2>5 DEF TrySucceeds
    <3>1. pc[p] \in TryPcs /\ cmd[p] # "none"
      BY <2>1
    <3>2. Returns(p) /\ Idle(p)
      BY <3>1, TryReturns
    <3> QED
      BY <1>1, <2>2, <2>3, <2>4, <3>1, <3>2, ReturnType DEF TrySucceeds, TypeOK, Stages
  <2>6. CASE ~IsUpgrade(sql[p])
    <3>1. /\ pc' = [pc EXCEPT ![p] = "writePid"]
          /\ UNCHANGED <<pkg_lock_pid, txn, cmd, stage, sql, tries, crashes>>
      BY <1>1, <2>6 DEF TrySucceeds
    <3>2. ControlOK'
      BY <2>1, <3>1 DEF TypeOK
    <3> QED
      BY <2>2, <2>3, <2>4, <3>1, <3>2 DEF TypeOK
  <2> QED
    BY <2>5, <2>6
<1>2. CASE TryFails(p)
  BY <1>2 DEF TryFails, TypeOK, tables
<1>3. CASE TryReadOnly(p)
  <2>1. Returns(p) /\ Idle(p) /\ cmd[p] # "none"
    BY <1>3, TryReturns DEF TryReadOnly
  <2> QED
    BY <1>3, <2>1, ReturnType DEF TryReadOnly, TypeOK, Stages, tables
<1>9. CASE TryBusy(p)
  <2>1. Returns(p) /\ Idle(p) /\ cmd[p] # "none"
    BY <1>9, TryReturns DEF TryBusy
  <2> QED
    BY <1>9, <2>1, ReturnType DEF TryBusy, TypeOK, Stages, tables
<1>4. CASE WritePid(p)
  <2>1. Returns(p) /\ Idle(p) /\ cmd[p] # "none"
    BY <1>4, TryReturns DEF WritePid
  <2> QED
    BY <1>4, <2>1, ReturnType DEF WritePid, TypeOK, Stages
<1>5. CASE CheckPid(p)
  <2>1. pkg_lock_pid' \in SUBSET Procs
    BY <1>5 DEF CheckPid, TypeOK
  <2>2. CASE Return(p, "EPKG_END")
    <3>1. pc[p] \in TryPcs /\ cmd[p] # "none"
      BY <1>5 DEF CheckPid
    <3>2. Returns(p) /\ Idle(p)
      BY <2>2, <3>1, TryReturns
    <3> QED
      BY <1>5, <2>1, <3>1, <3>2, ReturnType DEF CheckPid, TypeOK, Stages
  <2>3. CASE pc' = [pc EXCEPT ![p] = "reset"] /\ UNCHANGED <<cmd, stage, sql, tries>>
    BY <1>5, <2>1, <2>3 DEF CheckPid, TypeOK
  <2>4. CASE /\ tries' = [tries EXCEPT ![p] = @ + 1]
             /\ pc' = [pc EXCEPT ![p] = "try"]
             /\ UNCHANGED <<cmd, stage, sql>>
    BY <1>5, <2>1, <2>4 DEF CheckPid, TypeOK
  <2> QED
    BY <1>5, <2>2, <2>3, <2>4 DEF CheckPid
<1>6. CASE ResetLock(p)
  <2>1. pkg_lock' \in Seq(Row)
    BY <1>6, ResetType DEF ResetLock, TypeOK
  <2>2. granted' \in [Procs -> SUBSET LockTypes]
    BY <1>6 DEF ResetLock, TypeOK
  <2>3. breach' \in Kinds
    BY <1>6 DEF ResetLock, TypeOK, Record
  <2> QED
    BY <1>6, <2>1, <2>2, <2>3 DEF ResetLock, TypeOK
<1>7. CASE RemovePid(p)
  <2>1. sql' = [sql EXCEPT ![p] = ObtainSql[TypeOf(@)]] /\ ObtainSql[TypeOf(sql[p])] \in TrySqls
    BY <1>7 DEF RemovePid, TypeOf, ObtainSql, TrySqls
  <2> QED
    BY <1>7, <2>1 DEF RemovePid, DeletePid, Record, TypeOK
<1>8. CASE DeleteRow(p) \/ InsertRow(p)
  <2>1. pkg_lock' \in Seq(Row)
    <3>0. pkg_lock \in Seq(Row) /\ NoLock \in Row
      BY DEF TypeOK, NoLock, Row
    <3>3. CASE pkg_lock' = pkg_lock
      BY <3>0, <3>3
    <3>1. CASE pkg_lock' = <<>>
      <4> <<>> \in Seq(Row)
        OBVIOUS
      <4> QED  BY <3>1
    <3>2. CASE pkg_lock' = Append(pkg_lock, NoLock)
      BY <3>0, <3>2
    <3> QED
      BY <1>8, <3>1, <3>2, <3>3 DEF DeleteRow, InsertRow
  <2>2. breach' \in Kinds
    BY <1>8 DEF DeleteRow, InsertRow, TypeOK, Record
  <2>3. PICK next \in {"try", "insertRow"} : pc' = [pc EXCEPT ![p] = next]
    BY <1>8 DEF DeleteRow, InsertRow
  <2>4. pc[p] \in TryPcs /\ UNCHANGED <<pkg_lock_pid, txn, cmd, stage, sql, tries, granted, crashes>>
    BY <1>8 DEF DeleteRow, InsertRow
  <2>5. ControlOK'
    BY <2>3, <2>4 DEF TypeOK
  <2> QED
    BY <2>1, <2>2, <2>3, <2>4, <2>5 DEF TypeOK
<1> QED
  BY <1>1, <1>2, <1>3, <1>4, <1>5, <1>6, <1>7, <1>8, <1>9 DEF TryLock

\* pkgdb_release_lock's steps do.
LEMMA ReleaseType ==
  ASSUME TypeOK, ControlOK, NEW p \in Procs, Unlock(p) \/ DropPid(p)
  PROVE  TypeOK' /\ ControlOK'
<1> USE DEF ControlOK, TryPcs, TryStages, ReleaseStages, Kinds
<1>1. CASE Unlock(p)
  <2> DEFINE s == ReleaseSql[ReleasedType(p)]
  <2>1. stage[p] \in ReleaseStages /\ cmd[p] \in AllCommands /\ cmd[p] # "none"
    BY <1>1 DEF Unlock, TypeOK
  <2>2. s \in Sqls
    BY <2>1 DEF ReleasedType, LastLock, FirstLock, ReleaseSql, Sqls, AllCommands
  <2>3. /\ granted' \in [Procs -> SUBSET LockTypes]
        /\ breach' \in Kinds
    BY <1>1 DEF Unlock, TypeOK
  <2>4. CASE RunUpdate(s) /\ pc' = [pc EXCEPT ![p] = "dropPid"] /\ UNCHANGED <<cmd, stage>>
    <3>1. pkg_lock' \in Seq(Row)
      BY <2>2, <2>4, RunUpdateType DEF TypeOK
    <3> QED
      BY <1>1, <2>1, <2>3, <2>4, <3>1 DEF Unlock, TypeOK
  <2>5. CASE ReturnFromRelease(p) /\ UNCHANGED pkg_lock
    <3>1. Returns(p) /\ cmd[p] # "none" /\ UNCHANGED <<sql, tries>>
      BY <1>1, <2>1, <2>5, ReleaseReturns DEF Unlock
    <3> QED
      BY <1>1, <2>3, <2>5, <3>1, ReturnType DEF Unlock, TypeOK, Stages
  <2> QED
    BY <1>1, <2>4, <2>5 DEF Unlock
<1>2. CASE DropPid(p)
  <2>1. Returns(p) /\ cmd[p] # "none" /\ UNCHANGED <<sql, tries>>
    BY <1>2, ReleaseReturns DEF DropPid
  <2> QED
    BY <1>2, <2>1, ReturnType DEF DropPid, DeletePid, Record, TypeOK, Stages
<1> QED
  BY <1>1, <1>2

\* The commands' own steps do.
LEMMA CommandType ==
  ASSUME TypeOK, ControlOK, NEW p \in Procs,
         \/ \E c \in Commands : Start(p, c)
         \/ AskUpgrade(p) \/ AskNestedUpgrade(p) \/ AskDowngrade(p)
         \/ Begin(p) \/ End(p) \/ EndExecute(p) \/ Finish(p) \/ Close(p) \/ Crash(p)
  PROVE  TypeOK' /\ ControlOK'
<1> USE DEF ControlOK, TryPcs, TryStages, ReleaseStages, TypeOK, tables
<1>1. CASE \E c \in Commands : Start(p, c)
  <2> PICK c \in Commands : Start(p, c)
    BY <1>1
  <2>1. c \in AllCommands /\ c # "none" /\ ObtainSql[FirstLock(c)] \in TrySqls
    BY OptionsAssumption DEF AllCommands, FirstLock, ObtainSql, TrySqls
  <2>2. CASE Skipped(FirstLock(c))
    BY <2>1, <2>2 DEF Start
  <2>3. CASE ~Skipped(FirstLock(c))
    <3>1. Call(p, "acquire", ObtainSql[FirstLock(c)])
      BY <2>3 DEF Start
    <3> QED
      BY <2>1, <3>1 DEF Start, Call
  <2> QED
    BY <2>2, <2>3
<1>2. CASE AskUpgrade(p)
  BY <1>2 DEF AskUpgrade, Call, UpgradeSql, TrySqls
<1>3. CASE AskNestedUpgrade(p)
  BY <1>3 DEF AskNestedUpgrade, Call, UpgradeSql, TrySqls
<1>4. CASE AskDowngrade(p)
  BY <1>4 DEF AskDowngrade, Call, DowngradeSql, TrySqls
<1>5. CASE EndExecute(p) \/ Finish(p)
  <2> PICK st \in ReleaseStages, t \in LockTypes : CallRelease(p, st, t)
    BY <1>5 DEF EndExecute, Finish, LastLock, FirstLock, LockTypes, AllCommands
  <2>1. cmd[p] # "none" /\ UNCHANGED <<tables, sql, tries, granted, crashes, breach>>
    BY <1>5 DEF EndExecute, Finish
  <2>2. CASE Skipped(t)
    BY <2>1, <2>2 DEF CallRelease
  <2>3. CASE ~Skipped(t)
    BY <2>1, <2>3 DEF CallRelease
  <2> QED
    BY <2>2, <2>3
<1>6. CASE Begin(p)
  <2> PICK ends \in BOOLEAN :
         txn' = {[by |-> p, lock |-> pkg_lock, pids |-> pkg_lock_pid, ends |-> ends]}
    BY <1>6 DEF Begin
  <2>1. txn' \in Transactions
    BY DEF Transactions
  <2> QED
    BY <1>6, <2>1 DEF Begin, Transactions
<1>7. CASE End(p)
  BY <1>7 DEF End
<1>8. RollBack(p) => pkg_lock' \in Seq(Row) /\ pkg_lock_pid' \in SUBSET Procs /\ txn' = {}
  BY DEF RollBack
<1>9. CASE Close(p)
  BY <1>8, <1>9 DEF Close
<1>10. CASE Crash(p)
  <2>1. pkg_lock' \in Seq(Row) /\ pkg_lock_pid' \in SUBSET Procs /\ txn' \in Transactions
    BY <1>8, <1>10 DEF Crash, Transactions
  <2> QED
    BY <1>10, <2>1 DEF Crash, Idle, Transactions
<1> QED
  BY <1>1, <1>2, <1>3, <1>4, <1>5, <1>6, <1>7, <1>9, <1>10

\* Every step keeps the types and the control state.
LEMMA StepType == TypeOK /\ ControlOK /\ [Next]_vars => TypeOK' /\ ControlOK'
<1> SUFFICES ASSUME TypeOK, ControlOK, [Next]_vars
             PROVE  TypeOK' /\ ControlOK'
  OBVIOUS
<1>1. CASE UNCHANGED vars
  BY <1>1 DEF vars, TypeOK, ControlOK
<1>2. CASE Next
  BY <1>2, TryLockType, ReleaseType, CommandType DEF Next
<1> QED
  BY <1>1, <1>2

LEMMA InitType == Init => TypeOK /\ ControlOK
BY OptionsAssumption DEF Init, TypeOK, ControlOK, TryPcs, NoLock, Row

\* Every reachable state is well-typed: no lock count goes negative, no row, pid or
\* stage is one the code has not.
THEOREM TypeCorrect == Spec => []TypeOK
<1> QED
  BY InitType, StepType, PTL DEF Spec

-----------------------------------------------------------------------------
(* Exclusion.                                                              *)

\* The fields of the row.
LEMMA TheRow ==
  ASSUME NEW t, t \in Seq(Row), Len(t) = 1
  PROVE  /\ t[1] \in Row
         /\ t[1].exclusive \in {0, 1} /\ t[1].advisory \in {0, 1} /\ t[1].read \in Nat
<1>1. t \in [1..Len(t) -> Row]
  OBVIOUS
<1>2. t[1] \in Row
  BY <1>1
<1> QED
  BY <1>2 DEF Row

\* A step that leaves the row alone and grants nothing keeps what the row shows.
LEMMA SafeShrinks ==
  ASSUME TypeOK, TypeOK', Safe, breach \subseteq breach', UNCHANGED pkg_lock,
         \A q \in Procs : granted'[q] \subseteq granted[q]
  PROVE  Safe'
<1> SUFFICES ASSUME breach' \subseteq LeftBehind
             PROVE  Matched' /\ Exclusion'
  BY DEF Safe
<1>1. Matched /\ Exclusion
  BY DEF Safe
<1>2. Cardinality(Readers') \in Nat /\ Cardinality(Readers) \in Nat
      /\ Cardinality(Readers') <= Cardinality(Readers)
  <2>1. Readers' \subseteq Readers /\ IsFiniteSet(Readers)
    BY ProcsAssumption, FS_Subset DEF Readers
  <2> QED
    BY <2>1, FS_Subset, FS_CardinalityType
<1>3. Matched'
  <2>1. Len(pkg_lock) = 1 => pkg_lock[1].read \in Nat
    BY TheRow DEF TypeOK
  <2> QED
    BY <1>1, <1>2, <2>1 DEF Matched
<1>4. Exclusion'
  BY <1>1 DEF Exclusion
<1> QED
  BY <1>3, <1>4

\* The number of readers after a read lock was granted or given back.
LEMMA ReaderJoins ==
  ASSUME NEW p \in Procs, granted \in [Procs -> SUBSET LockTypes],
         granted' = [granted EXCEPT ![p] = @ \cup {"readonly"}]
  PROVE  /\ Cardinality(Readers) \in Nat
         /\ Cardinality(Readers') <= Cardinality(Readers) + 1
<1>1. IsFiniteSet(Readers)
  BY ProcsAssumption, FS_Subset DEF Readers
<1>2. Readers' = Readers \cup {p}
  BY DEF Readers
<1>3. /\ Cardinality(Readers) \in Nat
      /\ Cardinality(Readers \cup {p}) = IF p \in Readers THEN Cardinality(Readers)
                                         ELSE Cardinality(Readers) + 1
  BY <1>1, FS_AddElement, FS_CardinalityType
<1> QED
  BY <1>2, <1>3

LEMMA ReaderLeaves ==
  ASSUME NEW p \in Procs, granted \in [Procs -> SUBSET LockTypes], "readonly" \in granted[p],
         "readonly" \notin granted'[p], \A q \in Procs \ {p} : granted'[q] = granted[q]
  PROVE  /\ Cardinality(Readers) \in Nat
         /\ Cardinality(Readers') = Cardinality(Readers) - 1
<1>1. IsFiniteSet(Readers)
  BY ProcsAssumption, FS_Subset DEF Readers
<1>2. Readers' = Readers \ {p} /\ p \in Readers
  BY DEF Readers
<1> QED
  BY <1>1, <1>2, FS_RemoveElement, FS_CardinalityType

\* No reader is left when the count is 0.
LEMMA NoReaders ==
  ASSUME TypeOK, Matched, Len(pkg_lock) = 1, pkg_lock[1].read = 0
  PROVE  \A q \in Procs : "readonly" \notin granted[q]
<1>1. IsFiniteSet(Readers)
  BY ProcsAssumption, FS_Subset DEF Readers
<1>2. Cardinality(Readers) = 0
  BY <1>1, FS_CardinalityType DEF Matched
<1> QED
  BY <1>1, <1>2, FS_EmptySet DEF Readers

\* When nobody holds a lock, one fresh row or none satisfies the invariant.
LEMMA NothingHeldSafe ==
  ASSUME TypeOK', \A q \in Procs : granted'[q] = {}, Len(pkg_lock') <= 1
  PROVE  Safe'
<1>1. Readers' = {}
  BY DEF Readers
<1>2. Cardinality(Readers') = 0
  BY <1>1, FS_EmptySet
<1>3. Matched'
  <2>1. Len(pkg_lock') = 1 => pkg_lock'[1].read \in Nat
    BY TheRow DEF TypeOK
  <2> QED
    BY <1>2, <2>1 DEF Matched
<1>4. Exclusion'
  BY DEF Exclusion
<1> QED
  BY <1>3, <1>4 DEF Safe

\* The statement of pkgdb_try_lock that takes, upgrades or downgrades a lock.
LEMMA TrySucceedsSafe ==
  ASSUME IInv, TypeOK', NEW p \in Procs, TrySucceeds(p)
  PROVE  Safe'
<1> SUFFICES ASSUME breach' \subseteq LeftBehind
             PROVE  Matched' /\ Exclusion'
  BY DEF Safe
<1> DEFINE s == sql[p]
<1>1. Entitled(p, s) /\ Matched /\ Exclusion
  BY DEF TrySucceeds, Record, IInv, Safe, LeftBehind
<1>2. s \in TrySqls /\ s \in Sqls
  BY DEF TrySucceeds, IInv, ControlOK, TryPcs, Sqls
<1>3. /\ Len(pkg_lock) = 1 /\ Matches(s, pkg_lock[1])
      /\ Len(pkg_lock') = 1 /\ pkg_lock'[1] = Updated(s, pkg_lock[1])
  <2>1. \E i \in 1..Len(pkg_lock) : Matches(s, pkg_lock[i])
    <3>1. DOMAIN pkg_lock = 1..Len(pkg_lock)
      BY DEF IInv, TypeOK
    <3> QED
      BY <3>1 DEF TrySucceeds, Changes
  <2>2. Len(pkg_lock) = 1 /\ Matches(s, pkg_lock[1])
    <3>1. Len(pkg_lock) \in Nat /\ Len(pkg_lock) <= 1
      BY <1>1 DEF Matched, IInv, TypeOK
    <3>2. PICK i \in 1..Len(pkg_lock) : Matches(s, pkg_lock[i])
      BY <2>1
    <3>3. i \in 1..Len(pkg_lock)
      BY <3>2
    <3>4. \A n \in Nat : n <= 1 => \A k \in 1..n : k = 1 /\ n = 1
      OBVIOUS
    <3>5. i = 1 /\ Len(pkg_lock) = 1
      BY <3>1, <3>3, <3>4
    <3> QED
      BY <3>2, <3>5
  <2> QED
    BY <1>2, <2>2, RunUpdateType DEF TrySucceeds, IInv, TypeOK
<1>4. /\ pkg_lock[1].exclusive \in {0, 1} /\ pkg_lock[1].advisory \in {0, 1}
      /\ pkg_lock[1].read \in Nat /\ pkg_lock[1] \in Row
  BY <1>3, TheRow DEF IInv, TypeOK
<1>5. granted' = [granted EXCEPT ![p] =
                    IF s = "downgrade" THEN @ \ {"exclusive"} ELSE @ \cup {TypeOf(s)}]
  BY DEF TrySucceeds
<1>6. granted \in [Procs -> SUBSET LockTypes]
  BY DEF IInv, TypeOK
<1> HIDE DEF s
<1>7. CASE s = "get_read"
  <2>1. pkg_lock[1].exclusive = 0 /\ pkg_lock'[1] = [pkg_lock[1] EXCEPT !.read = @ + 1]
    BY <1>3, <1>7 DEF Matches, Updated, Counted
  <2>2. /\ pkg_lock'[1].exclusive = 0 /\ pkg_lock'[1].advisory = pkg_lock[1].advisory
        /\ pkg_lock'[1].read = pkg_lock[1].read + 1
    BY <1>4, <2>1 DEF Row
  <2>3. granted' = [granted EXCEPT ![p] = @ \cup {"readonly"}]
    BY <1>5, <1>7 DEF TypeOf
  <2>4. \A q \in Procs : "exclusive" \notin granted[q]
    BY <1>1, <2>1 DEF Matched
  <2>5. Cardinality(Readers) \in Nat /\ Cardinality(Readers') <= Cardinality(Readers) + 1
    BY <1>6, <2>3, ReaderJoins
  <2>6. Matched'
    <3>1. \A q \in Procs : "exclusive" \notin granted'[q]
      BY <1>6, <2>3, <2>4
    <3>2. \A q \in Procs : "advisory" \in granted'[q] => pkg_lock'[1].advisory = 1
      BY <1>1, <1>6, <2>2, <2>3 DEF Matched
    <3>3. pkg_lock'[1].read >= Cardinality(Readers')
      <4>1. Cardinality(Readers') \in Nat
        BY ProcsAssumption, FS_Subset, FS_CardinalityType DEF Readers
      <4>2. pkg_lock[1].read >= Cardinality(Readers)
        BY <1>1, <1>3 DEF Matched
      <4> QED
        BY <1>4, <2>2, <2>5, <4>1, <4>2
    <3> QED
      BY <1>3, <3>1, <3>2, <3>3 DEF Matched
  <2>7. Exclusion'
    BY <1>1, <1>6, <2>3, <2>4 DEF Exclusion
  <2> QED
    BY <2>6, <2>7
<1>8. CASE s # "get_read"
  <2>1. Readers' = Readers /\ pkg_lock'[1].read = pkg_lock[1].read
    <3>1. Readers' = Readers
      BY <1>2, <1>5, <1>6, <1>8 DEF Readers, TypeOf, TrySqls
    <3>2. pkg_lock'[1].read = pkg_lock[1].read
      BY <1>2, <1>3, <1>4, <1>8 DEF Updated, Counted, TrySqls, Row
    <3> QED
      BY <3>1, <3>2
  <2>2. CASE s = "get_advisory"
    <3>1. pkg_lock[1].exclusive = 0 /\ pkg_lock[1].advisory = 0 /\ pkg_lock'[1].advisory = 1
      BY <1>3, <1>4, <2>2 DEF Matches, Updated, Counted, Row
    <3>2. \A q \in Procs : "exclusive" \notin granted[q] /\ "advisory" \notin granted[q]
      BY <1>1, <3>1 DEF Matched
    <3>3. granted' = [granted EXCEPT ![p] = @ \cup {"advisory"}]
      BY <1>5, <2>2 DEF TypeOf
    <3>4. Matched'
      BY <1>1, <1>3, <1>6, <2>1, <3>1, <3>2, <3>3 DEF Matched
    <3>5. Exclusion'
      BY <1>6, <3>2, <3>3 DEF Exclusion
    <3> QED
      BY <3>4, <3>5
  <2>3. CASE s \in {"get_exclusive", "upgrade"}
    <3>1. pkg_lock[1].exclusive = 0 /\ pkg_lock[1].read = 0 /\ pkg_lock'[1].exclusive = 1
      BY <1>3, <1>4, <2>3 DEF Matches, Updated, Counted, Row
    <3>2. "advisory" \in granted[p] => pkg_lock'[1].advisory = 1
      BY <1>1, <1>3, <1>4, <2>3 DEF Matched, Updated, Counted, Row
    <3>3. \A q \in Procs : "exclusive" \notin granted[q] /\ "readonly" \notin granted[q]
      BY <1>1, <1>3, <3>1, NoReaders DEF Matched, IInv
    <3>4. \A q \in Procs \ {p} : "advisory" \notin granted[q]
      <4>1. CASE s = "get_exclusive"
        BY <1>1, <1>3, <4>1 DEF Matches, Matched
      <4>2. CASE s = "upgrade"
        BY <1>1, <4>2 DEF Entitled, Exclusion
      <4> QED
        BY <2>3, <4>1, <4>2
    <3>5. granted' = [granted EXCEPT ![p] = @ \cup {"exclusive"}]
      BY <1>5, <2>3 DEF TypeOf
    <3>6. \A q \in Procs \ {p} : granted[q] = {} /\ granted'[q] = {}
      BY <1>6, <3>3, <3>4, <3>5 DEF LockTypes
    <3>7. Matched'
      BY <1>1, <1>3, <1>6, <2>1, <3>1, <3>2, <3>5, <3>6 DEF Matched
    <3>8. Exclusion'
      BY <3>6 DEF Exclusion
    <3> QED
      BY <3>7, <3>8
  <2>4. CASE s = "downgrade"
    <3>1. granted' = [granted EXCEPT ![p] = @ \ {"exclusive"}] /\ "exclusive" \in granted[p]
      BY <1>1, <1>5, <2>4 DEF Entitled
    <3>2. \A q \in Procs \ {p} : granted[q] = {} /\ granted'[q] = {}
      BY <1>1, <1>6, <3>1 DEF Exclusion
    <3>3. pkg_lock'[1].advisory = 1 /\ "exclusive" \notin granted'[p]
      BY <1>3, <1>4, <1>6, <2>4, <3>1 DEF Updated, Counted, Row
    <3>4. Matched'
      BY <1>1, <1>3, <1>6, <2>1, <3>2, <3>3 DEF Matched
    <3>5. Exclusion'
      BY <3>2 DEF Exclusion
    <3> QED
      BY <3>4, <3>5
  <2> QED
    BY <1>2, <1>8, <2>2, <2>3, <2>4 DEF TrySqls
<1> QED
  BY <1>7, <1>8

\* The steps that clear the lock: unless it is a breach, nobody holds one.
LEMMA ResetSafe ==
  ASSUME IInv, TypeOK', NEW p \in Procs, ResetLock(p) \/ DeleteRow(p) \/ InsertRow(p)
  PROVE  Safe'
<1> SUFFICES ASSUME breach' \subseteq LeftBehind
             PROVE  Safe'
  BY DEF Safe
<1>1. granted \in [Procs -> SUBSET LockTypes] /\ pkg_lock \in Seq(Row)
  BY DEF IInv, TypeOK
<1>5. CASE Busy(p)
  <2>1. UNCHANGED <<pkg_lock, granted, breach>>
    BY <1>5 DEF ResetLock, DeleteRow, InsertRow
  <2> QED
    BY <2>1, SafeShrinks DEF IInv
<1> USE DEF LeftBehind
<1>2. CASE ResetLock(p) /\ ~Busy(p)
  <2>1. \A q \in Procs : granted'[q] = {}
    BY <1>1, <1>2 DEF ResetLock, Record, NothingHeld, Others
  <2>2. breach \subseteq LeftBehind
    BY <1>2 DEF ResetLock, Record
  <2>3. Len(pkg_lock') = Len(pkg_lock) /\ Len(pkg_lock) <= 1
    BY <1>1, <1>2, <2>2, ResetType DEF ResetLock, IInv, Safe, Matched
  <2> QED
    BY <2>1, <2>3, NothingHeldSafe
<1>3. CASE DeleteRow(p) /\ ~Busy(p)
  <2>1. \A q \in Procs : granted'[q] = {}
    BY <1>3 DEF DeleteRow, Record, NothingHeld
  <2>2. Len(pkg_lock') <= 1
    BY <1>3 DEF DeleteRow
  <2> QED
    BY <2>1, <2>2, NothingHeldSafe
<1>4. CASE InsertRow(p) /\ ~Busy(p)
  <2>2. pkg_lock = <<>> /\ NothingHeld(Procs) /\ UNCHANGED granted
    <3>1. /\ breach' = IF NothingHeld(Procs) /\ pkg_lock = <<>> THEN breach ELSE breach \cup {"reset"}
          /\ UNCHANGED granted
      BY <1>4 DEF InsertRow, Record
    <3> QED  BY <3>1
  <2>1. \A q \in Procs : granted'[q] = {}
    BY <2>2 DEF NothingHeld
  <2>3. Len(pkg_lock') <= 1
    <3>1. pkg_lock' = Append(pkg_lock, NoLock)
      BY <1>4 DEF InsertRow
    <3>2. Len(Append(<<>>, NoLock)) = 1
      OBVIOUS
    <3> QED  BY <2>2, <3>1, <3>2
  <2> QED
    BY <2>1, <2>3, NothingHeldSafe
<1> QED
  BY <1>2, <1>3, <1>4, <1>5

\* A release by a process that was granted the lock takes it off the row.
LEMMA UnlockSafe ==
  ASSUME IInv, TypeOK', NEW p \in Procs, Unlock(p)
  PROVE  Safe'
<1> DEFINE t == ReleasedType(p)
           s == ReleaseSql[t]
           changes == ~Unprivileged(p) /\ ~Busy(p) /\ Changes(s)
<1>1. granted \in [Procs -> SUBSET LockTypes] /\ pkg_lock \in Seq(Row)
  BY DEF IInv, TypeOK
<1>2. /\ breach \subseteq breach'
      /\ granted' = [granted EXCEPT ![p] = IF stage[p] = "release" THEN {} ELSE @ \ {t}]
  BY DEF Unlock
<1>3. \A q \in Procs : granted'[q] \subseteq granted[q]
  BY <1>1, <1>2
<1>4. CASE ~changes
  <2>1. UNCHANGED pkg_lock
    BY <1>4 DEF Unlock
  <2> QED
    BY <1>2, <1>3, <2>1, SafeShrinks DEF IInv
<1>5. CASE changes
  <2> SUFFICES ASSUME breach' \subseteq LeftBehind
               PROVE  Matched' /\ Exclusion'
    BY DEF Safe
  <2>1. Entitled(p, s) /\ Matched /\ Exclusion /\ RunUpdate(s)
    BY <1>2, <1>5 DEF Unlock, IInv, Safe, LeftBehind
  <2>2. t \in LockTypes
    BY DEF Unlock, ReleasedType, LastLock, FirstLock, LockTypes, IInv, ControlOK, TypeOK,
           AllCommands, ReleaseStages
  <2>3. /\ s = CASE t = "readonly" -> "put_read" [] t = "advisory" -> "put_advisory"
                 [] t = "exclusive" -> "put_exclusive"
        /\ s \in Sqls
    BY <2>2 DEF LockTypes, ReleaseSql, Sqls
  <2> HIDE DEF t, s
  <2>4. t \in granted[p] /\ t \notin granted'[p]
    BY <1>1, <1>2, <2>1, <2>2, <2>3 DEF Entitled, LockTypes
  <2>5. \A q \in Procs \ {p} : granted'[q] = granted[q]
    BY <1>1, <1>2
  <2>6. Len(pkg_lock) = 1 /\ Len(pkg_lock') = 1 /\ pkg_lock'[1] =
          IF Matches(s, pkg_lock[1]) THEN Updated(s, pkg_lock[1]) ELSE pkg_lock[1]
    <3>1. Len(pkg_lock) = 1
      BY <2>1, <2>4 DEF Matched
    <3>2. /\ Len(pkg_lock') = Len(pkg_lock)
          /\ \A i \in 1..Len(pkg_lock) : pkg_lock'[i] =
               IF Matches(s, pkg_lock[i]) THEN Updated(s, pkg_lock[i]) ELSE pkg_lock[i]
      BY <1>1, <2>1, <2>3, RunUpdateType
    <3> QED
      BY <3>1, <3>2
  <2>7. /\ pkg_lock[1].exclusive \in {0, 1} /\ pkg_lock[1].advisory \in {0, 1}
        /\ pkg_lock[1].read \in Nat /\ pkg_lock[1] \in Row
    BY <1>1, <2>6, TheRow
  <2>8. Exclusion'
    BY <1>3, <2>1 DEF Exclusion
  <2>9. CASE t = "readonly"
    <3>1. /\ pkg_lock'[1].exclusive = pkg_lock[1].exclusive
          /\ pkg_lock'[1].advisory = pkg_lock[1].advisory
          /\ pkg_lock'[1].read = IF pkg_lock[1].read > 0 THEN pkg_lock[1].read - 1
                                 ELSE pkg_lock[1].read
      BY <2>3, <2>6, <2>7, <2>9 DEF Matches, Updated, Counted, Row
    <3>2. Cardinality(Readers) \in Nat /\ Cardinality(Readers') = Cardinality(Readers) - 1
      BY <1>1, <2>4, <2>5, <2>9, ReaderLeaves
    <3>3. pkg_lock[1].read >= Cardinality(Readers)
      BY <2>1, <2>6 DEF Matched
    <3>4. pkg_lock'[1].read >= Cardinality(Readers')
      BY <2>7, <3>1, <3>2, <3>3
    <3>5. Matched'
      BY <1>3, <2>1, <2>6, <3>1, <3>4 DEF Matched
    <3> QED
      BY <2>8, <3>5
  <2>10. CASE t # "readonly"
    <3>1. pkg_lock'[1].read = pkg_lock[1].read
      BY <2>2, <2>3, <2>6, <2>7, <2>10 DEF Updated, Counted, Row, LockTypes
    <3>2. pkg_lock'[1].read >= Cardinality(Readers')
      <4>1. IsFiniteSet(Readers) /\ Readers' \subseteq Readers
        BY <1>3, ProcsAssumption, FS_Subset DEF Readers
      <4>2. Cardinality(Readers) \in Nat /\ Cardinality(Readers') \in Nat
            /\ Cardinality(Readers') <= Cardinality(Readers)
        BY <4>1, FS_Subset, FS_CardinalityType
      <4>3. pkg_lock[1].read >= Cardinality(Readers)
        BY <2>1, <2>6 DEF Matched
      <4> QED
        BY <2>7, <3>1, <4>2, <4>3
    <3>3. CASE t = "exclusive"
      <4>1. pkg_lock'[1].advisory = pkg_lock[1].advisory
        BY <2>3, <2>6, <2>7, <3>3 DEF Updated, Counted, Row
      <4>2. \A q \in Procs : "exclusive" \notin granted'[q]
        BY <2>1, <2>4, <2>5, <3>3 DEF Exclusion
      <4> QED
        BY <1>3, <2>1, <2>6, <2>8, <3>2, <4>1, <4>2 DEF Matched
    <3>4. CASE t = "advisory"
      <4>1. pkg_lock'[1].exclusive = pkg_lock[1].exclusive
        BY <2>3, <2>6, <2>7, <3>4 DEF Updated, Counted, Row
      <4>2. \A q \in Procs : "advisory" \notin granted'[q]
        BY <2>1, <2>4, <2>5, <3>4 DEF Exclusion
      <4> QED
        BY <1>3, <2>1, <2>6, <2>8, <3>2, <4>1, <4>2 DEF Matched
    <3> QED
      BY <2>2, <2>10, <3>3, <3>4 DEF LockTypes
  <2> QED
    BY <2>9, <2>10
<1> QED
  BY <1>4, <1>5

-----------------------------------------------------------------------------
(* The invariant.                                                          *)

LEMMA InitSafe == Init => Safe
<1> SUFFICES ASSUME Init
             PROVE  Matched /\ Exclusion
  BY DEF Safe
<1>1. \A q \in Procs : granted[q] = {}
  BY DEF Init
<1>2. Cardinality(Readers) = 0
  BY <1>1, FS_EmptySet DEF Readers
<1>3. Len(pkg_lock) = 1 /\ pkg_lock[1].read = 0
  BY DEF Init, NoLock
<1> QED
  BY <1>1, <1>2, <1>3 DEF Matched, Exclusion

\* The steps of one process.
Step(p) ==
  \/ TryLock(p) \/ Unlock(p) \/ DropPid(p)
  \/ \E c \in Commands : Start(p, c)
  \/ AskUpgrade(p) \/ AskNestedUpgrade(p) \/ AskDowngrade(p)
  \/ Begin(p) \/ End(p) \/ EndExecute(p) \/ Finish(p) \/ Close(p) \/ Crash(p)

\* A step of p leaves the control state and the locks of another process alone.
LEMMA OthersAlone ==
  ASSUME TypeOK, NEW p \in Procs, Step(p), NEW q \in Procs \ {p}
  PROVE  /\ granted'[q] = granted[q] /\ cmd'[q] = cmd[q] /\ pc'[q] = pc[q]
         /\ sql'[q] = sql[q] /\ stage'[q] = stage[q]
<1> USE DEF TypeOK
<1>1. CASE TryLock(p)
  BY <1>1 DEF TryLock, TrySucceeds, TryFails, TryReadOnly, TryBusy, WritePid, CheckPid, ResetLock,
       RemovePid, DeleteRow, InsertRow, Return, Idle, tables
<1>2. CASE Unlock(p) \/ DropPid(p)
  BY <1>2 DEF Unlock, DropPid, ReturnFromRelease
<1>3. CASE \/ \E c \in Commands : Start(p, c)
           \/ AskUpgrade(p) \/ AskNestedUpgrade(p) \/ AskDowngrade(p)
           \/ Begin(p) \/ End(p) \/ EndExecute(p) \/ Finish(p) \/ Close(p) \/ Crash(p)
  BY <1>3 DEF Start, AskUpgrade, AskNestedUpgrade, AskDowngrade, Begin, End, EndExecute, Finish,
       Close, Crash, Call, CallRelease, Idle
<1> QED
  BY <1>1, <1>2, <1>3 DEF Step

\* A breach is not forgotten, and kills are counted.
LEMMA NothingForgotten ==
  ASSUME TypeOK, NEW p \in Procs, Step(p)
  PROVE  breach \subseteq breach' /\ (crashes' = crashes \/ crashes' = crashes + 1)
BY DEF Step, TryLock, TrySucceeds, TryFails, TryReadOnly, TryBusy, WritePid, CheckPid, ResetLock,
     RemovePid, DeletePid, DeleteRow, InsertRow, Unlock, DropPid, Start, AskUpgrade,
     AskNestedUpgrade, AskDowngrade, Begin, End, EndExecute, Finish, Close, Crash, Record

\* While another process has a transaction open p writes nothing and is granted nothing.
LEMMA BusyWritesNothing ==
  ASSUME TypeOK, OneWriter, NEW p \in Procs, Step(p), Busy(p)
  PROVE  UNCHANGED tables /\ granted'[p] \subseteq granted[p]
<1> PICK t \in txn : t.by # p /\ txn = {t}
  BY DEF Busy, OneWriter
<1> ~RollBack(p) /\ txn # {}
  BY DEF RollBack
<1> \A u \in txn : u.by # p
  OBVIOUS
<1> USE DEF TypeOK
<1>1. CASE TryLock(p)
  BY <1>1 DEF TryLock, TrySucceeds, TryFails, TryReadOnly, TryBusy, WritePid, CheckPid, ResetLock,
       RemovePid, DeletePid, DeleteRow, InsertRow, tables
<1>2. CASE Unlock(p) \/ DropPid(p)
  BY <1>2 DEF Unlock, DropPid, DeletePid, tables
<1>3. CASE \/ \E c \in Commands : Start(p, c)
           \/ AskUpgrade(p) \/ AskNestedUpgrade(p) \/ AskDowngrade(p)
           \/ Begin(p) \/ End(p) \/ EndExecute(p) \/ Finish(p) \/ Close(p) \/ Crash(p)
  BY <1>3 DEF Start, AskUpgrade, AskNestedUpgrade, AskDowngrade, Begin, End, EndExecute, Finish,
       Close, Crash, tables
<1> QED
  BY <1>1, <1>2, <1>3 DEF Step

\* A step keeps what a command was granted in step with where it is.
LEMMA StepGrants ==
  ASSUME TypeOK, ControlOK, Grants, NEW p \in Procs, Step(p)
  PROVE  Grants'
<1>1. ASSUME NEW q \in Procs \ {p}
      PROVE  Granted(q)'
  <2>1. /\ granted'[q] = granted[q] /\ cmd'[q] = cmd[q] /\ pc'[q] = pc[q]
        /\ sql'[q] = sql[q] /\ stage'[q] = stage[q]
    BY OthersAlone
  <2>2. Granted(q)
    BY DEF Grants
  <2> QED
    BY <2>1, <2>2 DEF Granted, Wanted, Registers, TypeOf, FirstLock
<1>2. Granted(p)'
  <2> Granted(p)
    BY DEF Grants
  <2> USE DEF Granted, TypeOK, ControlOK, TryPcs, TryStages, ReleaseStages, Registers
  <2>1. CASE TrySucceeds(p)
    <3>1. CASE IsUpgrade(sql[p])
      <4>1. /\ pc'[p] = "none" /\ cmd'[p] = cmd[p] /\ stage'[p] = AfterTry(p, "EPKG_OK")
            /\ stage[p] \in TryStages /\ sql[p] \in TrySqls
        BY <2>1, <3>1 DEF TrySucceeds, Return, AfterTry
      <4>2. Wanted(p) = "exclusive" => "exclusive" \in granted'[p]
        BY <2>1, <3>1, <4>1 DEF TrySucceeds, IsUpgrade, TypeOf
      <4> QED
        BY <4>1, <4>2 DEF AfterTry, Wanted, FirstLock
    <3>2. CASE ~IsUpgrade(sql[p])
      <4>1. /\ pc'[p] = "writePid" /\ UNCHANGED <<cmd, stage, sql>> /\ sql[p] \in TrySqls
            /\ TypeOf(sql[p]) \in granted'[p]
        BY <2>1, <3>2 DEF TrySucceeds, IsUpgrade
      <4> QED
        BY <2>1, <4>1 DEF TrySucceeds, Wanted
    <3> QED  BY <3>1, <3>2
  <2>2. CASE TryFails(p) \/ ResetLock(p) \/ DeleteRow(p) \/ InsertRow(p)
    BY <2>2 DEF TryFails, ResetLock, DeleteRow, InsertRow, Wanted, tables
  <2>3. CASE TryReadOnly(p)
    BY <2>3 DEF TryReadOnly, Unprivileged, Return, AfterTry, Wanted, tables
  <2>4. CASE TryBusy(p)
    BY <2>4 DEF TryBusy, Return, AfterTry, Wanted, tables
  <2>5. CASE WritePid(p)
    BY <2>5 DEF WritePid, Return, AfterTry, Wanted, FirstLock
  <2>6. CASE CheckPid(p)
    BY <2>6 DEF CheckPid, Return, AfterTry, Wanted
  <2>7. CASE RemovePid(p)
    BY <2>7 DEF RemovePid, ObtainSql, TypeOf, TrySqls, Wanted
  <2>8. CASE Unlock(p) \/ DropPid(p)
    <3>1. stage[p] = "release" => granted'[p] = {}
      BY <2>8 DEF Unlock, DropPid
    <3>2. \/ pc'[p] = "dropPid" /\ stage'[p] = stage[p] /\ cmd'[p] = cmd[p]
          \/ pc'[p] = "unlock" /\ stage'[p] = "release"
          \/ pc'[p] = "none" /\ stage'[p] = "fixed" /\ stage[p] = "nestedRelease" /\ cmd'[p] = cmd[p]
          \/ pc'[p] = "none" /\ stage'[p] \in {"none", "close"} /\ stage[p] = "release"
      BY <2>8 DEF Unlock, DropPid, ReturnFromRelease
    <3>3. stage[p] \in ReleaseStages
      BY <2>8 DEF Unlock, DropPid
    <3> QED  BY <3>1, <3>2, <3>3
  <2>9. CASE \E c \in Commands : Start(p, c)
    <3> PICK c \in AllCommands : Start(p, c)
      BY <2>9, OptionsAssumption
    <3>1. cmd'[p] = c /\ stage'[p] \in {"locked", "acquire"}
      BY DEF Start, Call
    <3>2. CASE Skipped(FirstLock(c))
      BY <3>1, <3>2 DEF Start, Skipped, FirstLock, AllCommands
    <3>3. CASE ~Skipped(FirstLock(c))
      <4>1. pc'[p] = "try" /\ stage'[p] = "acquire" /\ sql'[p] = ObtainSql[FirstLock(c)]
        BY <3>3 DEF Start, Call
      <4>2. TypeOf(ObtainSql[FirstLock(c)]) = FirstLock(c)
        BY DEF TypeOf, ObtainSql, FirstLock, AllCommands
      <4> QED  BY <3>1, <4>1, <4>2 DEF Wanted
    <3> QED  BY <3>2, <3>3
  <2>10. CASE AskUpgrade(p) \/ AskNestedUpgrade(p) \/ AskDowngrade(p)
    BY <2>10 DEF AskUpgrade, AskNestedUpgrade, AskDowngrade, Call, Wanted, TypeOf, UpgradeSql, DowngradeSql
  <2>11. CASE Begin(p) \/ End(p)
    BY <2>11 DEF Begin, End, Wanted
  <2>12. CASE EndExecute(p) \/ Finish(p)
    BY <2>12 DEF EndExecute, Finish, CallRelease
  <2>13. CASE Close(p) \/ Crash(p)
    BY <2>13 DEF Close, Crash
  <2> QED
    BY <2>1, <2>2, <2>3, <2>4, <2>5, <2>6, <2>7, <2>8, <2>9, <2>10, <2>11, <2>12, <2>13 DEF Step, TryLock
<1> QED
  BY <1>1, <1>2 DEF Grants

\* A transaction is begun by the holder of the exclusive lock, and until it ends no other
\* process is granted anything.
LEMMA StepWriter ==
  ASSUME IInv, NEW p \in Procs, Step(p)
  PROVE  OneWriter'
<1>0. TypeOK /\ ControlOK /\ OneWriter /\ Granted(p) /\ breach \subseteq breach'
  BY NothingForgotten DEF IInv, Grants
<1>1. CASE Begin(p)
  <2>1. PICK ends \in BOOLEAN :
           txn' = {[by |-> p, lock |-> pkg_lock, pids |-> pkg_lock_pid, ends |-> ends]}
    BY <1>1 DEF Begin
  <2>2. /\ cmd'[p] \in {"modify", "jobs", "check"} /\ stage'[p] \notin {"none", "acquire"}
        /\ "exclusive" \in granted[p] /\ UNCHANGED <<granted, breach>>
    BY <1>0, <1>1 DEF Begin, Registers, Granted
  <2>3. ASSUME breach \subseteq LeftBehind
        PROVE  Len(pkg_lock) <= 1 /\ NothingHeld(Others(p))'
    BY <2>2, <2>3 DEF IInv, Safe, Matched, Exclusion, NothingHeld, Others
  <2> QED
    BY <2>1, <2>2, <2>3 DEF OneWriter
<1>2. CASE txn' = {}
  BY <1>2 DEF OneWriter
<1>3. CASE UNCHANGED txn
  <2> SUFFICES ASSUME NEW t \in txn
               PROVE  /\ cmd'[t.by] \in {"modify", "jobs", "check"}
                      /\ stage'[t.by] \notin {"none", "acquire"}
                      /\ breach' \subseteq LeftBehind => NothingHeld(Others(t.by))'
    BY <1>0, <1>3 DEF OneWriter
  <2>1. /\ txn = {t} /\ t.by \in Procs
        /\ cmd[t.by] \in {"modify", "jobs", "check"} /\ stage[t.by] \notin {"none", "acquire"}
        /\ breach' \subseteq LeftBehind => NothingHeld(Others(t.by))
    BY <1>0 DEF OneWriter, TypeOK
  <2>2. CASE t.by # p
    <3>1. granted'[p] \subseteq granted[p] /\ \A q \in Procs \ {p} : granted'[q] = granted[q]
      BY <1>0, <2>2, BusyWritesNothing, OthersAlone DEF Busy
    <3>2. breach' \subseteq LeftBehind => NothingHeld(Others(t.by))'
      BY <2>1, <3>1 DEF NothingHeld, Others
    <3>3. cmd'[t.by] = cmd[t.by] /\ stage'[t.by] = stage[t.by]
      BY <1>0, <2>1, <2>2, OthersAlone
    <3> QED  BY <2>1, <3>2, <3>3
  <2>3. CASE t.by = p
    <3>1. \A q \in Procs \ {p} : granted'[q] = granted[q]
      BY <1>0, OthersAlone
    <3>2. breach' \subseteq LeftBehind => NothingHeld(Others(p))'
      BY <2>1, <2>3, <3>1 DEF NothingHeld, Others
    <3>3. cmd[p] \in {"modify", "jobs", "check"} /\ stage[p] \notin {"none", "acquire"}
          /\ InTransaction(p)
      BY <2>1, <2>3 DEF InTransaction
    <3>4. cmd'[p] = cmd[p] /\ stage'[p] \notin {"none", "acquire"}
      <4> USE <1>0, <3>3 DEF TypeOK, ControlOK, TryPcs, TryStages, ReleaseStages
      <4>1. CASE TryLock(p)
        BY <4>1 DEF TryLock, TrySucceeds, TryFails, TryReadOnly, TryBusy, WritePid, CheckPid,
             ResetLock, RemovePid, DeleteRow, InsertRow, Return, AfterTry
      <4>2. CASE Unlock(p) \/ DropPid(p)
        BY <4>2 DEF Unlock, DropPid, ReturnFromRelease
      <4>3. CASE \/ AskUpgrade(p) \/ AskNestedUpgrade(p) \/ AskDowngrade(p)
                 \/ End(p) \/ EndExecute(p) \/ Finish(p)
        BY <4>3 DEF AskUpgrade, AskNestedUpgrade, AskDowngrade, End, EndExecute, Finish, Call,
             CallRelease, Skipped, LastLock, FirstLock
      <4>4. CASE \E c \in Commands : Start(p, c)
        BY <4>4 DEF Start
      <4>5. ~Close(p) /\ ~(Crash(p) /\ RollBack(p)) /\ ~Crash(p)
        <5>1. txn' # {}
          BY <1>3, <2>1
        <5> QED  BY <5>1 DEF Close, Crash, RollBack
      <4> QED
        BY <1>1, <4>1, <4>2, <4>3, <4>4, <4>5 DEF Step, Begin
    <3> QED  BY <2>3, <3>2, <3>3, <3>4
  <2> QED  BY <2>2, <2>3
<1>4. Begin(p) \/ txn' = {} \/ UNCHANGED txn
  BY DEF Step, TryLock, TrySucceeds, TryFails, TryReadOnly, TryBusy, WritePid, CheckPid, ResetLock,
       RemovePid, DeleteRow, InsertRow, Unlock, DropPid, Start, AskUpgrade, AskNestedUpgrade,
       AskDowngrade, End, EndExecute, Finish, Close, Crash, RollBack, tables
<1> QED
  BY <1>1, <1>2, <1>3, <1>4

LEMMA StepSafe == IInv /\ TypeOK' /\ [Next]_vars => Safe'
<1> SUFFICES ASSUME IInv, TypeOK', [Next]_vars
             PROVE  Safe'
  OBVIOUS
<1>1. TypeOK /\ Safe /\ granted \in [Procs -> SUBSET LockTypes]
  BY DEF IInv, TypeOK
<1>2. CASE UNCHANGED vars
  BY <1>1, <1>2, SafeShrinks DEF vars
<1>3. CASE Next
  <2> PICK p \in Procs : Step(p)
    BY <1>3 DEF Next, Step
  <2>0. breach \subseteq breach'
    BY <1>1, NothingForgotten
  <2>1. CASE TrySucceeds(p)
    BY <2>1, TrySucceedsSafe
  <2>2. CASE ResetLock(p) \/ DeleteRow(p) \/ InsertRow(p)
    BY <2>2, ResetSafe
  <2>3. CASE Unlock(p)
    BY <2>3, UnlockSafe
  <2>4. CASE TryFails(p) \/ TryReadOnly(p) \/ TryBusy(p) \/ CheckPid(p) \/ RemovePid(p) \/ DropPid(p)
    <3>1. UNCHANGED <<pkg_lock, granted>>
      BY <2>4 DEF TryFails, TryReadOnly, TryBusy, CheckPid, RemovePid, DropPid, tables
    <3> QED
      BY <1>1, <2>0, <3>1, SafeShrinks
  <2>5. CASE \/ AskUpgrade(p) \/ AskNestedUpgrade(p) \/ AskDowngrade(p)
             \/ Begin(p) \/ End(p) \/ EndExecute(p) \/ Finish(p)
    <3>1. UNCHANGED <<pkg_lock, granted>>
      BY <2>5 DEF AskUpgrade, AskNestedUpgrade, AskDowngrade, Begin, End, EndExecute, Finish, tables
    <3> QED
      BY <1>1, <2>0, <3>1, SafeShrinks
  <2>6. CASE WritePid(p) \/ (Crash(p) /\ UNCHANGED tables) \/ \E c \in Commands : Start(p, c)
    <3>1. UNCHANGED pkg_lock
      BY <2>6 DEF WritePid, Crash, Start, tables
    <3>2. \A q \in Procs : granted'[q] \subseteq granted[q]
      BY <1>1, <2>6 DEF WritePid, Crash, Start
    <3> QED
      BY <1>1, <2>0, <3>1, <3>2, SafeShrinks
  <2>7. CASE Close(p) \/ (Crash(p) /\ RollBack(p))
    <3> SUFFICES ASSUME breach' \subseteq LeftBehind
                 PROVE  Safe'
      BY DEF Safe
    <3>1. RollBack(p)
      BY <2>7 DEF Close, Crash
    <3>2. PICK t \in txn : pkg_lock' = t.lock /\ t.by = p
      BY <3>1 DEF RollBack
    <3>3. breach \subseteq LeftBehind
      BY <2>0
    <3>4. Len(t.lock) <= 1 /\ NothingHeld(Others(p))
      BY <3>2, <3>3 DEF IInv, OneWriter
    <3>6. granted'[p] = {} /\ \A q \in Procs \ {p} : granted'[q] = granted[q]
      BY <1>1, <2>7 DEF Close, Crash, IInv, Grants, Granted
    <3>7. \A q \in Procs : granted'[q] = {}
      BY <3>4, <3>6 DEF NothingHeld, Others
    <3> QED
      BY <3>2, <3>4, <3>7, NothingHeldSafe
  <2> QED
    BY <2>1, <2>2, <2>3, <2>4, <2>5, <2>6, <2>7 DEF Step, TryLock, Crash
<1> QED
  BY <1>2, <1>3

\* The invariant holds in every reachable state.
THEOREM Invariance == Spec => []IInv
<1>1. Init => IInv
  <2>1. Init => Grants /\ OneWriter
    BY DEF Init, Grants, Granted, OneWriter, TryPcs, Registers
  <2> QED
    BY <2>1, InitType, InitSafe DEF IInv
<1>2. IInv /\ [Next]_vars => IInv'
  <2> SUFFICES ASSUME IInv, [Next]_vars
               PROVE  IInv'
    OBVIOUS
  <2>1. TypeOK' /\ ControlOK' /\ Safe'
    BY StepType, StepSafe DEF IInv
  <2>2. Grants' /\ OneWriter'
    <3>1. CASE UNCHANGED vars
      BY <3>1 DEF vars, IInv, Grants, Granted, OneWriter, Wanted, FirstLock, TypeOf, Registers,
           NothingHeld, Others
    <3>2. CASE Next
      <4>1. PICK p \in Procs : Step(p)
        BY <3>2 DEF Next, Step
      <4> QED
        BY <4>1, StepGrants, StepWriter DEF IInv
    <3> QED  BY <3>1, <3>2
  <2> QED  BY <2>1, <2>2 DEF IInv
<1> QED
  BY <1>1, <1>2, PTL DEF Spec

\* An exclusive lock excludes every other lock, and there is one advisory lock, until
\* a process clears, releases or converts a lock it was not granted: the WHERE clauses
\* of the UPDATE statements are sound, and the resets and the mistaken releases are
\* the only ways to lose the exclusion.
THEOREM ExclusionHolds == Spec => []ExclusionUnlessBreach
<1>1. IInv => ExclusionUnlessBreach
  BY DEF IInv, Safe, ExclusionUnlessBreach
<1> QED
  BY <1>1, Invariance, PTL

\* The count of readers in pkg_lock is never below the number of readers.
THEOREM ReadersAreCounted == Spec => []ReadersCounted
<1>1. IInv => ReadersCounted
  <2> SUFFICES ASSUME IInv, breach \subseteq LeftBehind, NEW i \in DOMAIN pkg_lock
               PROVE  pkg_lock[i].read >= Cardinality(Readers)
    BY DEF ReadersCounted
  <2>1. Len(pkg_lock) \in Nat /\ Len(pkg_lock) <= 1 /\ i \in 1..Len(pkg_lock)
    BY DEF IInv, Safe, Matched, TypeOK
  <2>2. \A n \in Nat : n <= 1 => \A k \in 1..n : k = 1 /\ n = 1
    OBVIOUS
  <2> QED
    BY <2>1, <2>2 DEF IInv, Safe, Matched
<1> QED
  BY <1>1, Invariance, PTL

-----------------------------------------------------------------------------
(* What is left when all is over.                                          *)

\* With no breach and no process killed the row says exactly what was granted: of each
\* lock type it shows there is a holder, and without a row there is none, and a process
\* that can write is about to insert one.
Exact ==
  /\ pkg_lock = <<>> => NothingHeld(Procs) /\ \E p \in Procs : pc[p] = "insertRow" /\ ~Busy(p)
  /\ \A i \in DOMAIN pkg_lock :
       /\ pkg_lock[i].read = Cardinality(Readers)
       /\ pkg_lock[i].advisory = 1 => \E p \in Procs : "advisory" \in granted[p]
       /\ pkg_lock[i].exclusive = 1 => \E p \in Procs : "exclusive" \in granted[p]

\* A lock or a pid in the table is that of a running command; the pid of one that holds
\* nothing is about to be removed.
Account(p) ==
  /\ granted[p] # {} => cmd[p] \notin {"none", "userQuery"}
  /\ cmd[p] = "userQuery" => pc[p] \in {"none", "try", "unlock"}
  /\ sql[p] = "get_read" => stage[p] = "acquire"
  /\ stage[p] = "acquire" /\ pc[p] # "writePid" => granted[p] = {}
  /\ pc[p] = "writePid" => granted[p] # {} /\ ~IsUpgrade(sql[p])
  /\ pc[p] = "dropPid" /\ stage[p] = "release" => granted[p] = {}
  /\ p \in pkg_lock_pid =>
       /\ cmd[p] \notin {"none", "userQuery"}
       /\ granted[p] # {} \/ pc[p] \in {"removePid", "dropPid"}
  /\ pc[p] \in TryPcs \ {"removePid"} /\ ~IsUpgrade(sql[p]) => p \notin pkg_lock_pid
  /\ cmd[p] # "none" /\ Skipped(FirstLock(cmd[p])) =>
       granted[p] = {} /\ stage[p] \in {"locked", "release"} /\ pc[p] \in {"none", "unlock"}

Clean == breach = {} /\ crashes = 0
Settled == Clean => Exact /\ \A p \in Procs : Account(p)

\* A breach and a crash are not forgotten.
LEMMA CleanBefore ==
  ASSUME TypeOK, NEW p \in Procs, Step(p), Clean'
  PROVE  Clean
<1> QED  BY NothingForgotten DEF Clean, TypeOK

\* A transaction is not rolled back in a clean step.
LEMMA CleanEnds ==
  ASSUME TypeOK, NEW p \in Procs, Step(p), Clean'
  PROVE  ~Close(p) /\ ~Crash(p)
<1>1. ~Close(p)
  BY DEF Clean, Close
<1>2. ~Crash(p)
  BY DEF Clean, Crash, TypeOK
<1> QED  BY <1>1, <1>2

\* A process that finds the database busy holds no lock.
LEMMA BusyHoldsNothing ==
  ASSUME IInv, Clean, NEW p \in Procs, Busy(p)
  PROVE  granted[p] = {}
<1> PICK t \in txn : t.by # p
  BY DEF Busy
<1>1. NothingHeld(Others(t.by))
  BY DEF IInv, OneWriter, Clean
<1> QED  BY <1>1 DEF NothingHeld, Others

\* A step of p is nothing to the account of another process.
LEMMA OthersAccount ==
  ASSUME TypeOK, NEW p \in Procs, Step(p), Clean', NEW q \in Procs \ {p}, Account(q)
  PROVE  Account(q)'
<1>1. q \in pkg_lock_pid' => q \in pkg_lock_pid
  BY CleanEnds DEF TypeOK, Step, TryLock, TrySucceeds, TryFails, TryReadOnly, TryBusy, WritePid, CheckPid,
       ResetLock, RemovePid, DeletePid, DeleteRow, InsertRow, Unlock, DropPid, Start, AskUpgrade,
       AskNestedUpgrade, AskDowngrade, Begin, End, EndExecute, Finish, tables
<1>2. /\ granted'[q] = granted[q] /\ cmd'[q] = cmd[q] /\ pc'[q] = pc[q]
      /\ sql'[q] = sql[q] /\ stage'[q] = stage[q]
  BY OthersAlone
<1> QED  BY <1>1, <1>2 DEF Account, IsUpgrade, Skipped, FirstLock

\* Of one that holds a lock the row shows it, and the statement that releases it matches.
LEMMA HeldMatches ==
  ASSUME IInv, Clean, NEW p \in Procs, NEW t \in granted[p]
  PROVE  Changes(ReleaseSql[t]) /\ t \in LockTypes
<1>1. Matched /\ t \in LockTypes /\ Len(pkg_lock) = 1 /\ 1 \in DOMAIN pkg_lock /\ pkg_lock[1] \in Row
  BY DEF IInv, Safe, Clean, TypeOK, Matched
<1>2. CASE t = "readonly"
  <2>1. p \in Readers /\ IsFiniteSet(Readers)
    BY <1>2, ProcsAssumption, FS_Subset DEF Readers
  <2>2. Cardinality(Readers) \in Nat /\ Cardinality(Readers) # 0
    BY <2>1, FS_EmptySet, FS_CardinalityType
  <2>3. pkg_lock[1].read \in Nat /\ pkg_lock[1].read >= Cardinality(Readers)
    BY <1>1 DEF Matched, Row
  <2>4. Matches("put_read", pkg_lock[1])
    BY <2>2, <2>3 DEF Matches
  <2> QED  BY <1>1, <1>2, <2>4 DEF Changes, ReleaseSql
<1>3. CASE t = "advisory"
  <2>1. Matches("put_advisory", pkg_lock[1])
    BY <1>1, <1>3 DEF Matches, Matched
  <2> QED  BY <1>1, <1>3, <2>1 DEF Changes, ReleaseSql
<1>4. CASE t = "exclusive"
  <2>1. Matches("put_exclusive", pkg_lock[1])
    BY <1>1, <1>4 DEF Matches, Matched
  <2> QED  BY <1>1, <1>4, <2>1 DEF Changes, ReleaseSql
<1> QED  BY <1>1, <1>2, <1>3, <1>4 DEF LockTypes

\* A step of p keeps its own account.
LEMMA OwnAccount ==
  ASSUME IInv, Clean, Clean', NEW p \in Procs, Step(p), Account(p)
  PROVE  Account(p)'
<1> USE DEF Account, IInv, TypeOK, ControlOK, TryPcs, TryStages, ReleaseStages, IsUpgrade
<1>0. /\ ~Close(p) /\ ~Crash(p) /\ Granted(p)
      /\ Busy(p) => granted[p] = {}
      /\ InTransaction(p) => cmd[p] \in {"modify", "jobs", "check"}
  BY CleanEnds, BusyHoldsNothing DEF OneWriter, InTransaction, Grants
<1>15. CASE TryBusy(p)
  BY <1>0, <1>15 DEF TryBusy, Unprivileged, Return, Idle, AfterTry, tables
<1>1. CASE TrySucceeds(p)
  <2>1. sql[p] \in TrySqls /\ cmd[p] # "none" /\ cmd[p] # "userQuery"
    BY <1>1 DEF TrySucceeds, Unprivileged
  <2>2. CASE IsUpgrade(sql[p])
    <3>1. granted'[p] # {}
      <4>1. sql[p] = "downgrade" => "advisory" \in granted[p]
        BY <1>1 DEF TrySucceeds, Record, Entitled, Clean
      <4>2. granted'[p] = IF sql[p] = "downgrade" THEN granted[p] \ {"exclusive"}
                          ELSE granted[p] \cup {TypeOf(sql[p])}
        BY <1>1 DEF TrySucceeds
      <4>3. CASE sql[p] = "downgrade"
        BY <4>1, <4>2, <4>3
      <4>4. CASE sql[p] # "downgrade"
        <5>1. TypeOf(sql[p]) \in granted'[p]
          BY <4>2, <4>4
        <5> QED  BY <5>1
      <4> QED  BY <4>3, <4>4
    <3>2. AfterTry(p, "EPKG_OK") \in {"locked", "exclusive", "nestedExclusive"}
      BY <1>1 DEF TrySucceeds, AfterTry
    <3>3. /\ pc'[p] = "none" /\ sql'[p] = "none" /\ cmd'[p] = cmd[p]
          /\ stage'[p] \in {"locked", "exclusive", "nestedExclusive"}
      BY <1>1, <2>2, <3>2 DEF TrySucceeds, Return, Idle
    <3>4. UNCHANGED pkg_lock_pid /\ pc[p] = "try"
      BY <1>1 DEF TrySucceeds
    <3> QED  BY <2>1, <3>1, <3>3, <3>4
  <2>3. CASE ~IsUpgrade(sql[p])
    <3>1. granted'[p] # {}
      BY <1>1, <2>1, <2>3 DEF TrySucceeds, TypeOf
    <3>2. pc'[p] = "writePid" /\ pc[p] = "try" /\ UNCHANGED <<pkg_lock_pid, cmd, stage, sql>>
      BY <1>1, <2>3 DEF TrySucceeds
    <3> QED  BY <2>1, <2>3, <3>1, <3>2
  <2> QED  BY <2>2, <2>3
<1>2. CASE TryFails(p)
  BY <1>2 DEF TryFails, Unprivileged, tables
<1>3. CASE TryReadOnly(p)
  BY <1>3 DEF TryReadOnly, Unprivileged, Return, Idle, AfterTry, tables
<1>4. CASE WritePid(p)
  <2>0. p \notin pkg_lock_pid /\ granted[p] # {} /\ ~Busy(p)
    BY <1>0, <1>4 DEF WritePid
  <2>1. p \notin pkg_lock_pid /\ granted[p] # {} /\ UNCHANGED granted /\ cmd[p] # "none"
    BY <1>4, <2>0 DEF WritePid
  <2>2. AfterTry(p, "EPKG_OK") \in {"locked", "exclusive", "nestedExclusive"}
    BY <1>4 DEF WritePid, AfterTry
  <2>3. /\ pc'[p] = "none" /\ sql'[p] = "none" /\ cmd'[p] = cmd[p]
        /\ stage'[p] \in {"locked", "exclusive", "nestedExclusive"}
    BY <1>4, <2>0, <2>1, <2>2 DEF WritePid, Return, Idle
  <2> QED  BY <1>4, <2>1, <2>3 DEF WritePid
<1>5. CASE CheckPid(p)
  BY <1>5 DEF CheckPid, Return, Idle, AfterTry
<1>6. CASE ResetLock(p)
  BY <1>6 DEF ResetLock
<1>7. CASE RemovePid(p)
  <2>1. p \notin pkg_lock_pid'
    BY <1>7 DEF RemovePid, DeletePid, Record, Clean
  <2> QED  BY <1>7, <2>1 DEF RemovePid, ObtainSql, TypeOf, TrySqls
<1>8. CASE DeleteRow(p) \/ InsertRow(p)
  BY <1>8 DEF DeleteRow, InsertRow
<1>9. CASE Unlock(p)
  <2> DEFINE t == ReleasedType(p)
  <2>1. t \in granted[p] => ~Unprivileged(p) /\ ~Busy(p) /\ Changes(ReleaseSql[t])
    BY <1>0, HeldMatches DEF Unprivileged
  <2>2. stage[p] = "release" => granted[p] \subseteq {t}
    BY <1>9 DEF Unlock, Clean
  <2>3. CASE ~Unprivileged(p) /\ ~Busy(p) /\ Changes(ReleaseSql[t])
    <3>1. t \in granted[p]
      <4>1. t \in LockTypes /\ cmd[p] # "none"
        BY <1>9 DEF Unlock, ReleasedType, LastLock, FirstLock, LockTypes, AllCommands
      <4>2. Entitled(p, ReleaseSql[t])
        BY <1>9, <2>3 DEF Unlock, Clean
      <4> HIDE DEF t
      <4> QED  BY <4>1, <4>2 DEF Entitled, ReleaseSql, LockTypes
    <3>2. /\ UNCHANGED <<pkg_lock_pid, sql, cmd, stage>> /\ pc[p] = "unlock" /\ pc'[p] = "dropPid"
          /\ granted'[p] \subseteq granted[p] /\ (stage[p] = "release" => granted'[p] = {})
      BY <1>9, <2>3 DEF Unlock
    <3> HIDE DEF t
    <3> QED  BY <3>1, <3>2
  <2>4. CASE ReturnFromRelease(p) /\ UNCHANGED pkg_lock /\ t \notin granted[p]
    <3>1. UNCHANGED <<pkg_lock_pid, sql>> /\ granted'[p] = granted[p] /\ pc[p] = "unlock"
      BY <1>9, <2>2, <2>4 DEF Unlock
    <3>2. stage[p] = "release" => granted[p] = {}
      BY <2>2, <2>4
    <3> HIDE DEF t
    <3>3. \/ stage[p] \in {"releaseExclusive", "nestedRelease"} /\ cmd'[p] = cmd[p]
          \/ stage[p] = "release" /\ cmd'[p] = "none" /\ granted[p] = {}
          \/ stage[p] = "release" /\ cmd'[p] = cmd[p] /\ InTransaction(p)
      BY <1>9, <2>4, <3>2 DEF ReturnFromRelease, Unlock
    <3>4. /\ pc'[p] \in {"none", "unlock"} /\ stage'[p] \in {"release", "fixed", "none", "close"}
          /\ cmd[p] # "none" /\ (stage'[p] = "close" => InTransaction(p) /\ cmd'[p] = cmd[p])
      BY <1>9, <2>4, <3>3 DEF ReturnFromRelease, Unlock
    <3> QED  BY <1>0, <3>1, <3>3, <3>4 DEF Skipped, FirstLock
  <2> QED  BY <1>9, <2>1, <2>3, <2>4 DEF Unlock
<1>10. CASE DropPid(p)
  <2>1. p \notin pkg_lock_pid' /\ UNCHANGED <<sql, granted>> /\ pc[p] = "dropPid"
    BY <1>10 DEF DropPid, DeletePid, Record, Clean
  <2>2. /\ pc'[p] \in {"none", "unlock"} /\ stage'[p] \in {"release", "fixed", "none", "close"}
        /\ stage'[p] = "close" => InTransaction(p) /\ cmd'[p] = cmd[p]
        /\ cmd'[p] = cmd[p] \/ (stage[p] = "release" /\ cmd'[p] = "none")
        /\ stage'[p] = "release" => cmd'[p] = cmd[p]
    BY <1>10 DEF DropPid, ReturnFromRelease
  <2> QED  BY <1>0, <2>1, <2>2 DEF Skipped, FirstLock
<1>11. CASE \E c \in Commands : Start(p, c)
  <2> PICK c \in AllCommands : Start(p, c)
    BY <1>11, OptionsAssumption
  <2>1. /\ cmd[p] = "none" /\ cmd'[p] = c /\ granted'[p] = {}
        /\ p \notin pkg_lock_pid /\ pkg_lock_pid' = pkg_lock_pid
    BY DEF Start, tables
  <2>2. stage[p] = "none" /\ sql[p] # "get_read" /\ pc[p] = "none"
    BY <2>1
  <2>3. CASE Skipped(FirstLock(c))
    BY <2>1, <2>2, <2>3 DEF Start, AllCommands
  <2>4. CASE ~Skipped(FirstLock(c))
    BY <2>1, <2>2, <2>4 DEF Start, Call, AllCommands
  <2> QED  BY <2>3, <2>4
<1>12. CASE AskUpgrade(p) \/ AskNestedUpgrade(p) \/ AskDowngrade(p)
  BY <1>12 DEF AskUpgrade, AskNestedUpgrade, AskDowngrade, Call, tables, UpgradeSql, DowngradeSql,
       Skipped, FirstLock
<1>14. CASE Begin(p) \/ End(p)
  BY <1>14 DEF Begin, End, Skipped, FirstLock
<1>13. CASE EndExecute(p) \/ Finish(p)
  BY <1>13 DEF EndExecute, Finish, CallRelease, Skipped, FirstLock, LastLock, tables
<1> QED  BY <1>0, <1>1, <1>2, <1>3, <1>4, <1>5, <1>6, <1>7, <1>8, <1>9, <1>10, <1>11, <1>12, <1>13, <1>14, <1>15
         DEF Step, TryLock

\* The number of readers, when one is added and when one goes.
LEMMA ReadersChange ==
  ASSUME TypeOK, NEW p \in Procs
  PROVE  /\ Cardinality(Readers) \in Nat
         /\ \A g : granted' = [granted EXCEPT ![p] = g] =>
              Cardinality(Readers)' =
                IF "readonly" \in g <=> p \in Readers THEN Cardinality(Readers)
                ELSE IF p \in Readers THEN Cardinality(Readers) - 1 ELSE Cardinality(Readers) + 1
<1>1. IsFiniteSet(Readers)
  BY ProcsAssumption, FS_Subset DEF Readers
<1>2. ASSUME NEW g, granted' = [granted EXCEPT ![p] = g]
      PROVE  Readers' = IF "readonly" \in g THEN Readers \cup {p} ELSE Readers \ {p}
  BY <1>2 DEF Readers, TypeOK
<1>3. Cardinality(Readers \cup {p}) = IF p \in Readers THEN Cardinality(Readers) ELSE Cardinality(Readers) + 1
  BY <1>1, FS_AddElement
<1>4. Cardinality(Readers \ {p}) = IF p \in Readers THEN Cardinality(Readers) - 1 ELSE Cardinality(Readers)
  BY <1>1, FS_RemoveElement
<1>5. Cardinality(Readers) \in Nat
  BY <1>1, FS_CardinalityType
<1> QED  BY <1>2, <1>3, <1>4, <1>5

\* The row stays as it is, and so do the locks that are held.
LEMMA ExactKept ==
  ASSUME TypeOK, Exact, NEW p \in Procs, UNCHANGED <<pkg_lock, granted>>,
         UNCHANGED txn \/ txn' = {},
         pc[p] # "insertRow" \/ Busy(p) \/ UNCHANGED pc, \A q \in Procs \ {p} : pc'[q] = pc[q]
  PROVE  Exact'
<1>1. pkg_lock = <<>> => NothingHeld(Procs)' /\ \E q \in Procs : pc'[q] = "insertRow" /\ ~Busy(q)'
  BY DEF Exact, NothingHeld, Busy
<1>2. UNCHANGED Readers
  BY DEF Readers
<1> QED  BY <1>1, <1>2 DEF Exact

\* One row is changed by a statement of p, and p's locks with it.
LEMMA ExactUpdated ==
  ASSUME IInv, Clean, Exact, NEW p \in Procs, NEW s \in Sqls, NEW g \in SUBSET LockTypes,
         Changes(s), RunUpdate(s), granted' = [granted EXCEPT ![p] = g],
         s = "get_read" => "readonly" \notin granted[p] /\ g = granted[p] \cup {"readonly"},
         s \in {"get_advisory"} => g = granted[p] \cup {"advisory"},
         s \in {"get_exclusive", "upgrade"} => g = granted[p] \cup {"exclusive"},
         s = "upgrade" => "advisory" \in granted[p],
         s = "downgrade" => g = granted[p] \ {"exclusive"} /\ {"advisory", "exclusive"} \subseteq granted[p],
         s = "put_read" => g = granted[p] \ {"readonly"} /\ "readonly" \in granted[p],
         s = "put_advisory" => g = granted[p] \ {"advisory"} /\ "advisory" \in granted[p],
         s = "put_exclusive" => g = granted[p] \ {"exclusive"} /\ "exclusive" \in granted[p]
  PROVE  Exact'
<1>1. Len(pkg_lock) = 1 /\ DOMAIN pkg_lock = {1} /\ pkg_lock[1] \in Row /\ Matches(s, pkg_lock[1])
  <2>1. pkg_lock \in Seq(Row) /\ Len(pkg_lock) \in Nat /\ Len(pkg_lock) <= 1
    BY DEF IInv, Safe, Clean, TypeOK, Matched
  <2>2. PICK i \in 1 .. Len(pkg_lock) : Matches(s, pkg_lock[i])
    BY <2>1 DEF Changes
  <2>3. \A n \in Nat : n <= 1 => \A k \in 1 .. n : n = 1 /\ k = 1
    OBVIOUS
  <2>4. Len(pkg_lock) = 1 /\ i = 1
    BY <2>1, <2>2, <2>3
  <2> QED  BY <2>1, <2>2, <2>4
<1>2. DOMAIN pkg_lock' = {1} /\ pkg_lock' # <<>> /\ pkg_lock'[1] = Updated(s, pkg_lock[1])
  BY <1>1 DEF RunUpdate
<1> DEFINE r == pkg_lock[1]
<1>3. /\ r.exclusive \in {0, 1} /\ r.advisory \in {0, 1} /\ r.read \in Nat /\ r.read = Cardinality(Readers)
      /\ r.advisory = 1 <=> \E q \in Procs : "advisory" \in granted[q]
      /\ r.exclusive = 1 <=> \E q \in Procs : "exclusive" \in granted[q]
  BY <1>1 DEF Row, Exact, IInv, Safe, Clean, Matched
<1>4. Exclusion
  BY DEF IInv, Safe, Clean
<1>5. /\ granted'[p] = g /\ \A q \in Procs \ {p} : granted'[q] = granted[q]
      /\ "readonly" \in granted[p] <=> p \in Readers
  BY DEF IInv, TypeOK, Readers
<1>6. /\ r.read \in Nat /\ Updated(s, r).read = Cardinality(Readers)'
  <2>1. CASE s = "get_read"
    <3>1. "readonly" \in g /\ p \notin Readers
      BY <1>5, <2>1
    <3>2. Cardinality(Readers)' = Cardinality(Readers) + 1
      BY <3>1, <2>1, ReadersChange DEF IInv
    <3> QED  BY <1>1, <1>3, <2>1, <3>2 DEF Updated, Counted, Row
  <2>2. CASE s = "put_read"
    <3>1. "readonly" \notin g /\ p \in Readers
      BY <1>5, <2>2
    <3>2. Cardinality(Readers)' = Cardinality(Readers) - 1
      BY <3>1, <2>2, ReadersChange DEF IInv
    <3> QED  BY <1>1, <1>3, <2>2, <3>2 DEF Updated, Counted, Row
  <2>3. CASE s \in Sqls \ {"get_read", "put_read"}
    <3>1. "readonly" \in g <=> p \in Readers
      BY <1>5, <2>3 DEF Sqls, TrySqls
    <3>2. Cardinality(Readers)' = Cardinality(Readers)
      BY <3>1, ReadersChange DEF IInv
    <3>3. Updated(s, r).read = r.read
      BY <1>1, <2>3 DEF Updated, Sqls, TrySqls, Row
    <3> QED  BY <1>3, <3>2, <3>3
  <2> QED  BY <2>1, <2>2, <2>3
<1>7. Updated(s, r).advisory = 1 => \E q \in Procs : "advisory" \in granted'[q]
  <2>1. CASE s \in {"get_advisory", "upgrade", "downgrade"}
    <3>1. "advisory" \in granted'[p]
      BY <1>5, <2>1
    <3> QED  BY <3>1
  <2>2. CASE s = "put_advisory"
    BY <1>1, <2>2 DEF Updated, Row
  <2>3. CASE s \in {"get_read", "get_exclusive", "put_read", "put_exclusive"}
    <3>1. Updated(s, r).advisory = r.advisory
      BY <1>1, <2>3 DEF Updated, Counted, Row
    <3>2. "advisory" \in granted[p] => "advisory" \in granted'[p]
      BY <1>5, <2>3
    <3> QED  BY <1>3, <1>5, <3>1, <3>2
  <2> QED  BY <2>1, <2>2, <2>3 DEF Sqls, TrySqls
<1>8. Updated(s, r).exclusive = 1 => \E q \in Procs : "exclusive" \in granted'[q]
  <2>1. CASE s \in {"get_exclusive", "upgrade"}
    <3>1. "exclusive" \in granted'[p]
      BY <1>5, <2>1
    <3> QED  BY <3>1
  <2>2. CASE s \in {"put_exclusive", "downgrade"}
    BY <1>1, <2>2 DEF Updated, Row
  <2>3. CASE s \in {"get_read", "get_advisory", "put_read", "put_advisory"}
    <3>1. Updated(s, r).exclusive = r.exclusive
      BY <1>1, <2>3 DEF Updated, Counted, Row
    <3>2. "exclusive" \in granted[p] => "exclusive" \in granted'[p]
      BY <1>5, <2>3
    <3> QED  BY <1>3, <1>5, <3>1, <3>2
  <2> QED  BY <2>1, <2>2, <2>3 DEF Sqls, TrySqls
<1> QED  BY <1>2, <1>6, <1>7, <1>8 DEF Exact

\* A step of p keeps the row and the locks in step.
LEMMA ExactStep ==
  ASSUME IInv, Clean, Clean', Exact, NEW p \in Procs, Account(p), Step(p)
  PROVE  Exact'
<1>0. /\ TypeOK /\ ControlOK /\ OneWriter /\ Granted(p) /\ ~Close(p) /\ ~Crash(p)
      /\ \A q \in Procs \ {p} : pc'[q] = pc[q]
  BY CleanEnds, OthersAlone DEF IInv, Grants
<1>12. CASE Busy(p)
  <2>1. UNCHANGED tables /\ granted'[p] = granted[p]
    BY <1>0, <1>12, BusyWritesNothing, BusyHoldsNothing
  <2>2. \A q \in Procs \ {p} : granted'[q] = granted[q]
    BY <1>0, OthersAlone
  <2>3. granted' \in [Procs -> SUBSET LockTypes]
    BY <1>0, <1>12, StepType DEF TypeOK, Next, Step
  <2>4. UNCHANGED granted
    BY <1>0, <2>1, <2>2, <2>3 DEF TypeOK
  <2> QED  BY <1>0, <1>12, <2>1, <2>4, ExactKept DEF tables
<1> SUFFICES ASSUME ~Busy(p)
             PROVE  Exact'
  BY <1>12
<1> USE <1>0
<1>1. CASE TrySucceeds(p)
  <2> DEFINE s == sql[p]
             g == IF s = "downgrade" THEN granted[p] \ {"exclusive"} ELSE granted[p] \cup {TypeOf(s)}
  <2>1. /\ s \in TrySqls /\ s \in Sqls /\ Changes(s) /\ RunUpdate(s) /\ granted' = [granted EXCEPT ![p] = g]
        /\ Entitled(p, s) /\ (s = "get_read" => granted[p] = {})
    BY <1>1 DEF TrySucceeds, IInv, ControlOK, TryPcs, Sqls, Record, Clean, Account
  <2>2. g \in SUBSET LockTypes
    BY <2>1 DEF TypeOK, TypeOf, TrySqls, LockTypes
  <2>3. /\ s = "get_read" => g = granted[p] \cup {"readonly"}
        /\ s = "get_advisory" => g = granted[p] \cup {"advisory"}
        /\ s \in {"get_exclusive", "upgrade"} => g = granted[p] \cup {"exclusive"}
        /\ s = "upgrade" => "advisory" \in granted[p]
        /\ s = "downgrade" => g = granted[p] \ {"exclusive"} /\ {"advisory", "exclusive"} \subseteq granted[p]
    BY <2>1 DEF TypeOf, Entitled
  <2>4. s \notin {"put_read", "put_advisory", "put_exclusive"}
    BY <2>1 DEF TrySqls
  <2> HIDE DEF s, g
  <2> QED  BY <2>1, <2>2, <2>3, <2>4, ExactUpdated
<1>2. CASE WritePid(p)
  <2>1. UNCHANGED <<pkg_lock, granted>>
    BY <1>2 DEF WritePid, Account, TryPcs, TypeOK
  <2> QED  BY <1>2, <2>1, ExactKept DEF WritePid
<1>3. CASE \/ TryFails(p) \/ TryReadOnly(p) \/ TryBusy(p) \/ CheckPid(p) \/ RemovePid(p)
  BY <1>3, ExactKept DEF TryFails, TryReadOnly, TryBusy, CheckPid, RemovePid, tables
<1>4. CASE ResetLock(p)
  <2>1. NothingHeld(Procs)'
    BY <1>4 DEF ResetLock, Record, Clean, NothingHeld, Others, TypeOK
  <2>2. Readers' = {}
    BY <2>1 DEF Readers, NothingHeld
  <2>3. \A i \in DOMAIN pkg_lock' : pkg_lock'[i] = NoLock
    BY <1>4 DEF ResetLock
  <2>4. pkg_lock' = <<>> => \E q \in Procs : pc'[q] = "insertRow" /\ ~Busy(q)'
    <3>1. pkg_lock' = <<>> => pkg_lock = <<>>
      BY <1>4 DEF ResetLock, TypeOK
    <3>2. UNCHANGED txn /\ pc[p] = "reset"
      BY <1>4 DEF ResetLock
    <3> QED  BY <3>1, <3>2 DEF Exact, Busy
  <2> QED  BY <2>1, <2>2, <2>3, <2>4, FS_EmptySet DEF Exact, NoLock
<1>5. CASE DeleteRow(p)
  <2>1. /\ pkg_lock' = <<>> /\ NothingHeld(Procs) /\ pc'[p] = "insertRow" /\ UNCHANGED <<txn, granted>>
    BY <1>5 DEF DeleteRow, Record, Clean, TypeOK
  <2> QED  BY <2>1 DEF Exact, NothingHeld, Busy
<1>6. CASE InsertRow(p)
  <2>1. pkg_lock' = <<NoLock>> /\ NothingHeld(Procs)'
    <3>1. pkg_lock = <<>> /\ pkg_lock' = Append(pkg_lock, NoLock) /\ UNCHANGED granted /\ NothingHeld(Procs)
      <4>1. /\ breach' = IF NothingHeld(Procs) /\ pkg_lock = <<>> THEN breach ELSE breach \cup {"reset"}
            /\ pkg_lock' = Append(pkg_lock, NoLock) /\ UNCHANGED granted
        BY <1>6 DEF InsertRow, Record
      <4> QED  BY <4>1 DEF Clean
    <3>2. Append(<<>>, NoLock) = <<NoLock>>
      OBVIOUS
    <3> QED  BY <3>1, <3>2 DEF NothingHeld
  <2>2. Readers' = {}
    BY <2>1 DEF Readers, NothingHeld
  <2> QED  BY <2>1, <2>2, FS_EmptySet DEF Exact, NoLock
<1>7. CASE Unlock(p)
  <2> DEFINE t == ReleasedType(p)
             s == ReleaseSql[t]
             g == granted[p] \ {t}
  <2>1. t \in LockTypes
    BY <1>7 DEF Unlock, IInv, ControlOK, ReleasedType, LastLock, FirstLock, LockTypes, AllCommands,
         ReleaseStages, TypeOK
  <2>2. granted' = [granted EXCEPT ![p] = g]
    BY <1>7 DEF Unlock, Clean
  <2>3. CASE ~Unprivileged(p) /\ Changes(s)
    <3>1. t \in granted[p]
      <4>1. Entitled(p, s)
        BY <1>7, <2>3 DEF Unlock, Clean
      <4> HIDE DEF t
      <4> QED  BY <2>1, <4>1 DEF Entitled, ReleaseSql, LockTypes
    <3>2. RunUpdate(s)
      BY <1>7, <2>3 DEF Unlock
    <3>3. g \in SUBSET LockTypes
      BY DEF TypeOK
    <3> HIDE DEF t
    <3>4. s \in Sqls /\ (s = "put_read" <=> t = "readonly") /\ (s = "put_advisory" <=> t = "advisory")
          /\ (s = "put_exclusive" <=> t = "exclusive") /\ s \in {"put_read", "put_advisory", "put_exclusive"}
      BY <2>1 DEF ReleaseSql, Sqls, LockTypes
    <3>5. /\ s = "put_read" => g = granted[p] \ {"readonly"} /\ "readonly" \in granted[p]
          /\ s = "put_advisory" => g = granted[p] \ {"advisory"} /\ "advisory" \in granted[p]
          /\ s = "put_exclusive" => g = granted[p] \ {"exclusive"} /\ "exclusive" \in granted[p]
      BY <3>1, <3>4
    <3>6. s \notin {"get_read", "get_advisory", "get_exclusive", "upgrade", "downgrade"}
      BY <3>4
    <3> HIDE DEF s, g
    <3> QED  BY <2>2, <2>3, <3>2, <3>3, <3>4, <3>5, <3>6, ExactUpdated
  <2>4. CASE ~(~Unprivileged(p) /\ Changes(s))
    <3>1. t \notin granted[p]
      BY <2>4, HeldMatches DEF Unprivileged, Account
    <3>2. UNCHANGED <<pkg_lock, granted>>
      BY <1>7, <2>2, <2>4, <3>1 DEF Unlock, TypeOK
    <3>3. pc[p] # "insertRow" /\ UNCHANGED txn
      BY <1>7 DEF Unlock
    <3> QED  BY <3>2, <3>3, ExactKept
  <2> QED  BY <2>3, <2>4
<1>8. CASE DropPid(p)
  BY <1>8, ExactKept DEF DropPid
<1>9. CASE \E c \in Commands : Start(p, c)
  <2> PICK c \in Commands : Start(p, c)
    BY <1>9
  <2>1. UNCHANGED <<pkg_lock, txn, granted>>
    BY DEF Start, Account, TypeOK, tables
  <2>2. pc[p] # "insertRow"
    BY DEF Start, IInv, ControlOK, TryPcs, TryStages
  <2> QED  BY <2>1, <2>2, ExactKept
<1>10. CASE AskUpgrade(p) \/ AskNestedUpgrade(p) \/ AskDowngrade(p)
  BY <1>10, ExactKept DEF AskUpgrade, AskNestedUpgrade, AskDowngrade, tables
<1>11. CASE EndExecute(p) \/ Finish(p)
  BY <1>11, ExactKept DEF EndExecute, Finish, tables
<1>13. CASE Begin(p)
  <2>1. "exclusive" \in granted[p] /\ UNCHANGED <<pkg_lock, granted>>
    BY <1>13 DEF Begin, Granted
  <2>2. Len(pkg_lock) = 1
    BY <2>1 DEF IInv, Safe, Clean, Matched
  <2>3. pkg_lock # <<>> /\ UNCHANGED Readers
    BY <2>1, <2>2 DEF Readers
  <2> QED  BY <2>1, <2>3 DEF Exact
<1>14. CASE End(p)
  BY <1>14, ExactKept DEF End
<1> QED  BY <1>1, <1>2, <1>3, <1>4, <1>5, <1>6, <1>7, <1>8, <1>9, <1>10, <1>11, <1>13, <1>14 DEF Step,
     TryLock

\* The lock is free when the last command has ended, unless a process was killed or a
\* lock was changed by another than its holder: no path through a command forgets a
\* lock or a pid.
THEOREM EverythingIsReleased == Spec => []AllReleased
<1>1. Init => Settled
  <2>1. ASSUME Init  PROVE Exact
    <3>1. Readers = {}
      BY <2>1 DEF Init, Readers
    <3> QED  BY <2>1, <3>1, FS_EmptySet DEF Init, Exact, NoLock
  <2>2. ASSUME Init, NEW p \in Procs  PROVE Account(p)
    BY <2>2 DEF Init, Account, TryPcs
  <2> QED  BY <2>1, <2>2 DEF Settled
<1>2. IInv /\ Settled /\ [Next]_vars => Settled'
  <2> SUFFICES ASSUME IInv, Settled, [Next]_vars, Clean'  PROVE Exact' /\ \A p \in Procs : Account(p)'
    BY DEF Settled
  <2>1. ASSUME NEW p \in Procs, Step(p)
        PROVE  Exact' /\ \A q \in Procs : Account(q)'
    <3>1. Clean /\ Exact /\ \A q \in Procs : Account(q)
      BY <2>1, CleanBefore DEF IInv, Settled
    <3>2. Exact' /\ Account(p)'
      BY <2>1, <3>1, ExactStep, OwnAccount
    <3>3. \A q \in Procs \ {p} : Account(q)'
      BY <2>1, <3>1, OthersAccount DEF IInv
    <3> QED  BY <3>2, <3>3
  <2>2. CASE UNCHANGED vars
    BY <2>2 DEF vars, Settled, Clean, Exact, Account, NothingHeld, Readers, IsUpgrade, Skipped,
         FirstLock, Busy
  <2>3. Next => \E p \in Procs : Step(p)
    BY DEF Next, Step
  <2> QED  BY <2>1, <2>2, <2>3
<1>3. IInv /\ Settled => AllReleased
  <2> SUFFICES ASSUME IInv, Exact, \A p \in Procs : Account(p) /\ ~Alive(p), Clean
               PROVE  pkg_lock = <<NoLock>> /\ pkg_lock_pid = {}
    BY DEF AllReleased, Settled, Clean
  <2>1. pkg_lock_pid = {}
    BY DEF IInv, TypeOK, Account, Alive
  <2>2. \A p \in Procs : granted[p] = {} /\ pc[p] # "insertRow"
    BY DEF IInv, ControlOK, Account, Alive, TryPcs, TryStages
  <2>3. Readers = {} /\ Cardinality(Readers) = 0
    BY <2>2, FS_EmptySet DEF Readers
  <2>4. pkg_lock # <<>>
    BY <2>2 DEF Exact
  <2>5. Len(pkg_lock) = 1 /\ pkg_lock[1] \in Row
    <3>1. pkg_lock \in Seq(Row) /\ Len(pkg_lock) \in Nat /\ Len(pkg_lock) <= 1
      BY DEF IInv, Safe, Clean, TypeOK, Matched
    <3>2. Len(pkg_lock) # 0
      BY <2>4, <3>1
    <3>3. \A n \in Nat : n <= 1 /\ n # 0 => n = 1
      OBVIOUS
    <3>4. Len(pkg_lock) = 1
      BY <3>1, <3>2, <3>3
    <3> QED  BY <3>1, <3>4
  <2>6. pkg_lock[1].read = 0 /\ pkg_lock[1].advisory = 0 /\ pkg_lock[1].exclusive = 0
    BY <2>2, <2>3, <2>5 DEF Exact, Row
  <2>7. pkg_lock[1] = NoLock
    BY <2>5, <2>6 DEF Row, NoLock
  <2>8. pkg_lock = <<NoLock>>
    BY <2>5, <2>7 DEF IInv, TypeOK
  <2> QED  BY <2>1, <2>8
<1> QED  BY <1>1, <1>2, <1>3, Invariance, PTL DEF Spec
=============================================================================
