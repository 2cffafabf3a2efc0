------------------------------ MODULE PkgdbLock ------------------------------
(***************************************************************************)
(* The lock that ravensw processes take on local.sqlite before they read   *)
(* or change it (libpkg/pkgdb.c, pkgdb_obtain_lock and its neighbours).    *)
(*                                                                         *)
(* The lock is data in the database: the table pkg_lock holds one row with *)
(* an exclusive flag, an advisory flag and a count of readers, and the     *)
(* table pkg_lock_pid the pids of the holders.  A statement is its own     *)
(* SQLite transaction unless the process has begun one, so two processes   *)
(* interleave between any two statements: the row is taken by one          *)
(* statement and the pid recorded by the next, and a process that finds    *)
(* the row taken decides from pkg_lock_pid whether the holder is alive     *)
(* before it clears the row.                                               *)
(*                                                                         *)
(* A process that registers a package, or sets a value, begins a           *)
(* transaction, which pkg_add leaves open when a script fails.  What the   *)
(* process writes then, its release of the lock included, is undone when   *)
(* it closes the database; until then the statements of every other        *)
(* process that write fail with SQLITE_BUSY, after a timeout of 5 seconds, *)
(* and those that read see the committed tables.                           *)
(*                                                                         *)
(* A process is a run of one command of src/; a command is the sequence of *)
(* pkgdb_*_lock calls it makes.  A process may be killed between any two   *)
(* statements, and its pid may be used again.                              *)
(***************************************************************************)
EXTENDS Integers, Sequences, FiniteSets

CONSTANTS
  Procs,          \* pids
  Commands,       \* the commands that are run
  ReadLock,       \* the READ_LOCK option
  MaxRetries,     \* the LOCK_RETRIES option
  MaxCrashes      \* bound on the number of processes killed

AllCommands == {"userQuery", "query", "modify", "annotateShow", "jobs", "check"}

ASSUME ProcsAssumption == IsFiniteSet(Procs)
ASSUME OptionsAssumption ==
  /\ Commands \subseteq AllCommands
  /\ ReadLock \in BOOLEAN
  /\ MaxRetries \in Nat
  /\ MaxCrashes \in Nat

VARIABLES
  pkg_lock,       \* the rows of table pkg_lock, as the process that writes sees them
  pkg_lock_pid,   \* the pids in table pkg_lock_pid, as it sees them
  txn,            \* the transaction that is open, if any: whose, what is committed of the
                  \* two tables, and whether it is ended before the database is closed
  cmd,            \* the command a process runs, "none" when it does not exist
  stage,          \* where the command is: the lock call it makes or the work between
  pc,             \* the next statement of the lock call, "none" between calls
  sql,            \* the statement pkgdb_try_lock repeats
  tries,          \* pkgdb_try_lock's counter
  granted,        \* history: the lock types a process was given and not yet gave back
  crashes,        \* the number of processes killed
  breach          \* history: how a process changed a lock that was not its own, or left
                  \* its own behind

tables == <<pkg_lock, pkg_lock_pid, txn>>
vars == <<pkg_lock, pkg_lock_pid, txn, cmd, stage, pc, sql, tries, granted, crashes, breach>>

LockTypes == {"readonly", "advisory", "exclusive"}
Row == [exclusive : {0, 1}, advisory : {0, 1}, read : Nat]
NoLock == [exclusive |-> 0, advisory |-> 0, read |-> 0]

-----------------------------------------------------------------------------
(* The UPDATE statements on pkg_lock: their WHERE clause and what they set. *)

ObtainSql == [readonly |-> "get_read", advisory |-> "get_advisory", exclusive |-> "get_exclusive"]
ReleaseSql == [readonly |-> "put_read", advisory |-> "put_advisory", exclusive |-> "put_exclusive"]
UpgradeSql == "upgrade"
DowngradeSql == "downgrade"
TrySqls == {"get_read", "get_advisory", "get_exclusive", "upgrade", "downgrade"}

Matches(s, r) ==
  CASE s = "get_read"      -> r.exclusive = 0
    [] s = "get_advisory"  -> r.exclusive = 0 /\ r.advisory = 0
    [] s = "get_exclusive" -> r.exclusive = 0 /\ r.advisory = 0 /\ r.read = 0
    [] s = "upgrade"       -> r.exclusive = 0 /\ r.advisory = 1 /\ r.read = 0
    [] s = "downgrade"     -> r.exclusive = 1 /\ r.advisory = 1 /\ r.read = 0
    [] s = "put_read"      -> r.read > 0
    [] s = "put_advisory"  -> r.advisory = 1
    [] s = "put_exclusive" -> r.exclusive = 1

\* Mutants: a read lock sets the count instead of incrementing it, or decrements it.
Counted_Set(s, n) == IF s = "get_read" THEN 1 ELSE n - 1
Counted_Swapped(s, n) == IF s = "get_read" THEN n - 1 ELSE n + 1

Counted(s, n) == IF s = "get_read" THEN n + 1 ELSE n - 1

Updated(s, r) ==
  CASE s = "get_read"      -> [r EXCEPT !.read = Counted(s, @)]
    [] s = "get_advisory"  -> [r EXCEPT !.advisory = 1]
    [] s = "get_exclusive" -> [r EXCEPT !.exclusive = 1]
    [] s = "upgrade"       -> [r EXCEPT !.exclusive = 1, !.advisory = 1]
    [] s = "downgrade"     -> [r EXCEPT !.exclusive = 0, !.advisory = 1]
    [] s = "put_read"      -> [r EXCEPT !.read = Counted(s, @)]
    [] s = "put_advisory"  -> [r EXCEPT !.advisory = 0]
    [] s = "put_exclusive" -> [r EXCEPT !.exclusive = 0]

\* Mutant: sqlite3_changes() is not looked at.
Changes_Ignored(s) == TRUE

\* sqlite3_changes() after the statement is not 0
Changes(s) == \E i \in DOMAIN pkg_lock : Matches(s, pkg_lock[i])

RunUpdate(s) ==
  pkg_lock' = [i \in DOMAIN pkg_lock |->
                 IF Matches(s, pkg_lock[i]) THEN Updated(s, pkg_lock[i]) ELSE pkg_lock[i]]

\* The lock type a successful statement of pkgdb_try_lock asks for.
TypeOf(s) ==
  CASE s = "get_read" -> "readonly"
    [] s \in {"get_advisory", "downgrade"} -> "advisory"
    [] s \in {"get_exclusive", "upgrade"} -> "exclusive"

\* pkgdb_try_lock's parameter upgrade
IsUpgrade(s) == s \in {"upgrade", "downgrade"}

-----------------------------------------------------------------------------
(* The commands.                                                           *)

FirstLock(c) ==
  CASE c \in {"userQuery", "query", "annotateShow"} -> "readonly"
    [] c = "modify" -> "exclusive"
    [] c \in {"jobs", "check"} -> "advisory"

\* annotate releases PKGDB_LOCK_EXCLUSIVE whatever lock it took
LastLock(c) == IF c = "annotateShow" THEN "exclusive" ELSE FirstLock(c)

\* With READ_LOCK off, read locks are neither taken nor released.
Skipped(t) == t = "readonly" /\ ~ReadLock

\* A query by a user who cannot write local.sqlite: every UPDATE fails.
Unprivileged(p) == cmd[p] = "userQuery"

\* A process inside a transaction, and one that finds another process inside one.
InTransaction(p) == \E t \in txn : t.by = p
Busy(p) == \E t \in txn : t.by # p

\* The pids that a SELECT returns to p.
SeenPids(p) == IF Busy(p) THEN UNION {t.pids : t \in txn} ELSE pkg_lock_pid

\* sqlite3_close() rolls an open transaction back.
RollBack(p) ==
  \E t \in txn : t.by = p /\ pkg_lock' = t.lock /\ pkg_lock_pid' = t.pids /\ txn' = {}

Alive(p) == cmd[p] # "none"
Others(p) == Procs \ {p}
NothingHeld(P) == \A q \in P : granted[q] = {}

\* What p may do to the lock on the strength of the locks it was granted.
Entitled(p, s) ==
  CASE s = "put_read"      -> "readonly" \in granted[p]
    [] s = "put_advisory"  -> "advisory" \in granted[p]
    [] s = "put_exclusive" -> "exclusive" \in granted[p]
    [] s = "upgrade"       -> "advisory" \in granted[p]
    [] s = "downgrade"     -> {"advisory", "exclusive"} \subseteq granted[p]
    [] OTHER               -> TRUE

Record(ok, kind) == breach' = IF ok THEN breach ELSE breach \cup {kind}

TypeOK ==
  /\ pkg_lock \in Seq(Row)
  /\ pkg_lock_pid \in SUBSET Procs
  /\ txn \in SUBSET [by : Procs, lock : Seq(Row), pids : SUBSET Procs, ends : BOOLEAN]
  /\ cmd \in [Procs -> AllCommands \cup {"none"}]
  /\ stage \in [Procs -> {"none", "acquire", "locked", "upgrade", "exclusive", "nested",
                          "nestedExclusive", "nestedRelease", "fixed", "downgrade",
                          "releaseExclusive", "release", "close"}]
  /\ pc \in [Procs -> {"none", "try", "writePid", "checkPid", "reset", "removePid", "deleteRow",
                       "insertRow", "unlock", "dropPid"}]
  /\ sql \in [Procs -> TrySqls \cup {"none"}]
  /\ tries \in [Procs -> Nat]
  /\ granted \in [Procs -> SUBSET LockTypes]
  /\ crashes \in Nat
  /\ breach \in SUBSET {"reset", "release", "convert", "kept", "late", "undone"}

Init ==
  /\ pkg_lock = <<NoLock>>
  /\ pkg_lock_pid = {}
  /\ txn = {}
  /\ cmd = [p \in Procs |-> "none"]
  /\ stage = [p \in Procs |-> "none"]
  /\ pc = [p \in Procs |-> "none"]
  /\ sql = [p \in Procs |-> "none"]
  /\ tries = [p \in Procs |-> 0]
  /\ granted = [p \in Procs |-> {}]
  /\ crashes = 0
  /\ breach = {}

-----------------------------------------------------------------------------
(* Calls and returns.  A call sets the stage and the first statement; a     *)
(* return moves the command on with the call's result.                      *)

Call(p, st, s) ==
  /\ stage' = [stage EXCEPT ![p] = st]
  /\ pc' = [pc EXCEPT ![p] = "try"]
  /\ sql' = [sql EXCEPT ![p] = s]
  /\ tries' = [tries EXCEPT ![p] = 0]

\* pkgdb_release_lock as the command's last call, or no call when it does nothing.
CallRelease(p, st, t) ==
  /\ stage' = [stage EXCEPT ![p] = IF Skipped(t) THEN "none" ELSE st]
  /\ pc' = [pc EXCEPT ![p] = IF Skipped(t) THEN "none" ELSE "unlock"]
  /\ cmd' = [cmd EXCEPT ![p] = IF Skipped(t) THEN "none" ELSE @]

\* Where the command goes when pkgdb_try_lock returns.
AfterTry(p, ret) ==
  CASE stage[p] = "acquire"   -> IF ret = "EPKG_OK" THEN "locked" ELSE "none"
    [] stage[p] = "upgrade"   -> IF ret = "EPKG_OK" THEN "exclusive"
                                 ELSE IF cmd[p] = "jobs" THEN "release" ELSE "locked"
    [] stage[p] = "nested"    -> IF ret = "EPKG_OK" THEN "nestedExclusive" ELSE "fixed"
    [] stage[p] = "downgrade" -> "locked"

Idle(p) == sql' = [sql EXCEPT ![p] = "none"] /\ tries' = [tries EXCEPT ![p] = 0]

Return(p, ret) ==
  /\ Idle(p)
  /\ stage' = [stage EXCEPT ![p] = AfterTry(p, ret)]
  /\ pc' = [pc EXCEPT ![p] = IF AfterTry(p, ret) = "release" THEN "unlock" ELSE "none"]
  /\ cmd' = [cmd EXCEPT ![p] = IF AfterTry(p, ret) = "none" THEN "none" ELSE @]

ReturnFromRelease(p) ==
  LET next == CASE stage[p] = "releaseExclusive" -> "release"
                [] stage[p] = "nestedRelease" -> "fixed"
                [] stage[p] = "release" -> IF InTransaction(p) THEN "close" ELSE "none"
  IN  /\ stage' = [stage EXCEPT ![p] = next]
      /\ pc' = [pc EXCEPT ![p] = IF next = "release" THEN "unlock" ELSE "none"]
      /\ cmd' = [cmd EXCEPT ![p] = IF next = "none" THEN "none" ELSE @]

-----------------------------------------------------------------------------
(* pkgdb_try_lock.                                                         *)

\* sqlite3_exec(lock_sql) changed the row.  An upgrade or a downgrade is done;
\* otherwise the pid is still to be written.
TrySucceeds(p) ==
  /\ pc[p] = "try" /\ ~Unprivileged(p) /\ ~Busy(p)
  /\ Changes(sql[p])
  /\ RunUpdate(sql[p])
  /\ granted' = [granted EXCEPT ![p] =
                   IF sql[p] = "downgrade" THEN @ \ {"exclusive"} ELSE @ \cup {TypeOf(sql[p])}]
  /\ Record(Entitled(p, sql[p]), "convert")
  /\ IF IsUpgrade(sql[p])
     THEN Return(p, "EPKG_OK")
     ELSE /\ pc' = [pc EXCEPT ![p] = "writePid"]
          /\ UNCHANGED <<cmd, stage, sql, tries>>
  /\ UNCHANGED <<pkg_lock_pid, txn, crashes>>

\* sqlite3_exec(lock_sql) changed no row.
TryFails(p) ==
  /\ pc[p] = "try" /\ ~Unprivileged(p) /\ ~Busy(p)
  /\ ~Changes(sql[p])
  /\ pc' = [pc EXCEPT ![p] = "checkPid"]
  /\ UNCHANGED <<tables, cmd, stage, sql, tries, granted, crashes, breach>>

\* A process that cannot write the database gets SQLITE_READONLY and ignores it
\* for a read lock, the only one such a process asks for.
TryReadOnly(p) ==
  /\ pc[p] = "try" /\ Unprivileged(p)
  /\ Return(p, IF TypeOf(sql[p]) = "readonly" THEN "EPKG_OK" ELSE "EPKG_FATAL")
  /\ UNCHANGED <<tables, granted, crashes, breach>>

\* Any other error of the UPDATE, SQLITE_BUSY among them, ends the call.
TryBusy(p) ==
  /\ pc[p] = "try" /\ ~Unprivileged(p) /\ Busy(p)
  /\ Return(p, "EPKG_FATAL")
  /\ UNCHANGED <<tables, granted, crashes, breach>>

\* pkgdb_write_lock_pid: INSERT fails when the pid is there already, or the database
\* is busy, and the caller is told EPKG_FATAL while the row stays taken.
WritePid(p) ==
  LET fails == p \in pkg_lock_pid \/ Busy(p)
  IN  /\ pc[p] = "writePid"
      /\ pkg_lock_pid' = IF fails THEN pkg_lock_pid ELSE pkg_lock_pid \cup {p}
      /\ Return(p, IF fails THEN "EPKG_FATAL" ELSE "EPKG_OK")
      /\ granted' = [granted EXCEPT ![p] = IF fails THEN {} ELSE @]
      /\ UNCHANGED <<pkg_lock, txn, crashes, breach>>

\* Mutant: the pids of dead processes count as holders.
CheckPid_DeadPidsKept(p) ==
  /\ pc[p] = "checkPid"
  /\ IF SeenPids(p) \ {p} = {}
     THEN /\ pc' = [pc EXCEPT ![p] = "reset"]
          /\ UNCHANGED <<cmd, stage, sql, tries>>
     ELSE IF tries[p] < MaxRetries
     THEN /\ tries' = [tries EXCEPT ![p] = @ + 1]
          /\ pc' = [pc EXCEPT ![p] = "try"]
          /\ UNCHANGED <<cmd, stage, sql>>
     ELSE Return(p, "EPKG_END")
  /\ UNCHANGED <<tables, granted, crashes, breach>>

\* pkgdb_check_lock_pid forgets the pids kill(pid, 0) finds dead.  With a living
\* other process in the table, or a dead one it cannot remove, pkgdb_try_lock sleeps
\* and tries again, at most MaxRetries times; with none it goes on to reset the lock.
CheckPid(p) ==
  /\ pc[p] = "checkPid"
  /\ pkg_lock_pid' = {q \in pkg_lock_pid : q = p \/ Alive(q) \/ Busy(p)}
  /\ IF \A q \in SeenPids(p) \ {p} : ~Alive(q) /\ ~Busy(p)
     THEN /\ pc' = [pc EXCEPT ![p] = "reset"]
          /\ UNCHANGED <<cmd, stage, sql, tries>>
     ELSE IF tries[p] < MaxRetries
     THEN /\ tries' = [tries EXCEPT ![p] = @ + 1]
          /\ pc' = [pc EXCEPT ![p] = "try"]
          /\ UNCHANGED <<cmd, stage, sql>>
     ELSE Return(p, "EPKG_END")
  /\ UNCHANGED <<pkg_lock, txn, granted, crashes, breach>>

\* pkgdb_reset_lock.  Neither its result nor that of the next three statements is
\* looked at: with the database busy they change nothing and the call goes on.
ResetLock(p) ==
  /\ pc[p] = "reset"
  /\ pc' = [pc EXCEPT ![p] = "removePid"]
  /\ IF Busy(p)
     THEN UNCHANGED <<pkg_lock, granted, breach>>
     ELSE /\ pkg_lock' = [i \in DOMAIN pkg_lock |-> NoLock]
          /\ granted' = [granted EXCEPT ![p] = {}]
          /\ Record(NothingHeld(Others(p)), "reset")
  /\ UNCHANGED <<pkg_lock_pid, txn, cmd, stage, sql, tries, crashes>>

\* pkgdb_remove_lock_pid
DeletePid(p) ==
  /\ pkg_lock_pid' = IF Busy(p) THEN pkg_lock_pid ELSE pkg_lock_pid \ {p}
  /\ Record(p \notin pkg_lock_pid \/ ~Busy(p), "late")

\* pkgdb_remove_lock_pid after a reset, then pkgdb_obtain_lock(type) from the
\* start: an upgrade or a downgrade goes to it at once, a first lock after the
\* row was written anew.
RemovePid(p) ==
  /\ pc[p] = "removePid"
  /\ DeletePid(p)
  /\ pc' = [pc EXCEPT ![p] = IF IsUpgrade(sql[p]) THEN "try" ELSE "deleteRow"]
  /\ sql' = [sql EXCEPT ![p] = ObtainSql[TypeOf(@)]]
  /\ tries' = [tries EXCEPT ![p] = 0]
  /\ UNCHANGED <<pkg_lock, txn, cmd, stage, granted, crashes>>

\* reset_lock_sql, the first of its two statements; when it fails sqlite3_exec does not
\* come to the second.
DeleteRow(p) ==
  /\ pc[p] = "deleteRow"
  /\ IF Busy(p)
     THEN /\ pc' = [pc EXCEPT ![p] = "try"]
          /\ UNCHANGED <<pkg_lock, breach>>
     ELSE /\ pc' = [pc EXCEPT ![p] = "insertRow"]
          /\ pkg_lock' = <<>>
          /\ Record(NothingHeld(Procs), "reset")
  /\ UNCHANGED <<pkg_lock_pid, txn, cmd, stage, sql, tries, granted, crashes>>

\* reset_lock_sql, the second statement: a second row when another process
\* has inserted one since
InsertRow(p) ==
  /\ pc[p] = "insertRow"
  /\ pc' = [pc EXCEPT ![p] = "try"]
  /\ IF Busy(p)
     THEN UNCHANGED <<pkg_lock, breach>>
     ELSE /\ pkg_lock' = Append(pkg_lock, NoLock)
          /\ Record(NothingHeld(Procs) /\ pkg_lock = <<>>, "reset")
  /\ UNCHANGED <<pkg_lock_pid, txn, cmd, stage, sql, tries, granted, crashes>>

TryLock(p) ==
  \/ TrySucceeds(p) \/ TryFails(p) \/ TryReadOnly(p) \/ TryBusy(p) \/ WritePid(p) \/ CheckPid(p)
  \/ ResetLock(p) \/ RemovePid(p) \/ DeleteRow(p) \/ InsertRow(p)

-----------------------------------------------------------------------------
(* pkgdb_release_lock.                                                     *)

ReleasedType(p) ==
  IF stage[p] = "release" THEN LastLock(cmd[p]) ELSE "exclusive"

\* The UPDATE statement; when it changes no row, or cannot write the database,
\* the pid is not removed.  Inside a transaction it is undone with it (Close).
Unlock(p) ==
  LET t == ReleasedType(p)
      s == ReleaseSql[t]
      last == stage[p] = "release"
      changes == ~Unprivileged(p) /\ ~Busy(p) /\ Changes(s)
  IN  /\ pc[p] = "unlock"
      /\ IF changes
         THEN /\ RunUpdate(s)
              /\ pc' = [pc EXCEPT ![p] = "dropPid"]
              /\ UNCHANGED <<cmd, stage>>
         ELSE /\ ReturnFromRelease(p)
              /\ UNCHANGED pkg_lock
      /\ granted' = [granted EXCEPT ![p] = IF last THEN {} ELSE @ \ {t}]
      /\ breach' = breach \cup {k \in {"release"} : changes /\ ~Entitled(p, s)}
                         \cup {k \in {"kept"} : last /\ granted[p] \ {t} # {}}
      /\ UNCHANGED <<pkg_lock_pid, txn, sql, tries, crashes>>

\* Mutant: the pid stays in pkg_lock_pid.
DropPid_Kept(p) ==
  /\ pc[p] = "dropPid"
  /\ ReturnFromRelease(p)
  /\ UNCHANGED <<tables, sql, tries, granted, crashes, breach>>

\* pkgdb_remove_lock_pid
DropPid(p) ==
  /\ pc[p] = "dropPid"
  /\ DeletePid(p)
  /\ ReturnFromRelease(p)
  /\ UNCHANGED <<pkg_lock, txn, sql, tries, granted, crashes>>

-----------------------------------------------------------------------------
(* The commands' own steps.                                                *)

\* A command starts and asks for its first lock.
Start(p, c) ==
  /\ cmd[p] = "none"
  /\ cmd' = [cmd EXCEPT ![p] = c]
  /\ IF Skipped(FirstLock(c))
     THEN /\ stage' = [stage EXCEPT ![p] = "locked"]
          /\ UNCHANGED <<pc, sql, tries>>
     ELSE Call(p, "acquire", ObtainSql[FirstLock(c)])
  /\ granted' = [granted EXCEPT ![p] = {}]
  /\ UNCHANGED <<tables, crashes, breach>>

\* pkg_jobs_execute, or check before it changes a package, wants the exclusive lock.
AskUpgrade(p) ==
  /\ stage[p] = "locked" /\ pc[p] = "none" /\ cmd[p] \in {"jobs", "check"}
  /\ Call(p, "upgrade", UpgradeSql)
  /\ UNCHANGED <<tables, cmd, granted, crashes, breach>>

\* check -d installs missing dependencies: pkg_jobs_execute upgrades once more.
AskNestedUpgrade(p) ==
  /\ stage[p] = "exclusive" /\ pc[p] = "none" /\ cmd[p] = "check"
  /\ Call(p, "nested", UpgradeSql)
  /\ UNCHANGED <<tables, cmd, granted, crashes, breach>>

\* check gives the exclusive lock back and keeps the advisory one.
AskDowngrade(p) ==
  /\ stage[p] \in {"exclusive", "fixed"} /\ pc[p] = "none" /\ cmd[p] = "check"
  /\ Call(p, "downgrade", DowngradeSql)
  /\ UNCHANGED <<tables, cmd, granted, crashes, breach>>

\* Where packages are registered and values set, under the exclusive lock.
Registers(p) ==
  /\ pc[p] = "none"
  /\ \/ stage[p] = "locked" /\ cmd[p] = "modify"
     \/ stage[p] = "exclusive" /\ cmd[p] = "jobs"
     \/ stage[p] = "nestedExclusive" /\ cmd[p] = "check"

\* BEGIN IMMEDIATE: it fails inside a transaction, and while the database is busy.
Begin(p) ==
  /\ Registers(p)
  /\ txn = {}
  /\ \E ends \in BOOLEAN :
       txn' = {[by |-> p, lock |-> pkg_lock, pids |-> pkg_lock_pid, ends |-> ends]}
  /\ UNCHANGED <<pkg_lock, pkg_lock_pid, cmd, stage, pc, sql, tries, granted, crashes, breach>>

\* pkgdb_register_finale and its like: COMMIT or ROLLBACK, with no lock call since BEGIN.
End(p) ==
  /\ \E t \in txn : t.by = p /\ t.ends
  /\ txn' = {}
  /\ UNCHANGED <<pkg_lock, pkg_lock_pid, cmd, stage, pc, sql, tries, granted, crashes, breach>>

\* The command does not go on before a transaction it ends; one that a failing script
\* left open stays.
MayGoOn(p) == \A t \in txn : t.by = p => ~t.ends

\* pkg_jobs_execute is done: it releases the exclusive lock.
EndExecute(p) ==
  /\ pc[p] = "none" /\ MayGoOn(p)
  /\ \/ stage[p] = "exclusive" /\ cmd[p] = "jobs" /\ CallRelease(p, "releaseExclusive", "exclusive")
     \/ stage[p] = "nestedExclusive" /\ CallRelease(p, "nestedRelease", "exclusive")
  /\ UNCHANGED <<tables, sql, tries, granted, crashes, breach>>

\* The command is done: it releases its last lock.
Finish(p) ==
  /\ stage[p] = "locked" /\ pc[p] = "none" /\ MayGoOn(p)
  /\ CallRelease(p, "release", LastLock(cmd[p]))
  /\ UNCHANGED <<tables, sql, tries, granted, crashes, breach>>

\* pkgdb_close with a transaction open: the lock and the pid that the command released
\* are in the database again.
Close(p) ==
  /\ stage[p] = "close"
  /\ RollBack(p)
  /\ stage' = [stage EXCEPT ![p] = "none"]
  /\ cmd' = [cmd EXCEPT ![p] = "none"]
  /\ breach' = breach \cup {"undone"}
  /\ UNCHANGED <<pc, sql, tries, granted, crashes>>

\* The process is killed, or exits on an error path that releases nothing.
Crash(p) ==
  /\ Alive(p)
  /\ crashes < MaxCrashes
  /\ crashes' = crashes + 1
  /\ cmd' = [cmd EXCEPT ![p] = "none"]
  /\ stage' = [stage EXCEPT ![p] = "none"]
  /\ pc' = [pc EXCEPT ![p] = "none"]
  /\ Idle(p)
  /\ granted' = [granted EXCEPT ![p] = {}]
  /\ \/ RollBack(p)
     \/ ~InTransaction(p) /\ UNCHANGED tables
  /\ UNCHANGED breach

Next ==
  \E p \in Procs :
    \/ TryLock(p) \/ Unlock(p) \/ DropPid(p)
    \/ \E c \in Commands : Start(p, c)
    \/ AskUpgrade(p) \/ AskNestedUpgrade(p) \/ AskDowngrade(p)
    \/ Begin(p) \/ End(p) \/ EndExecute(p) \/ Finish(p) \/ Close(p) \/ Crash(p)

\* A process inside a lock call runs on: each statement ends (SQLite's busy
\* timeout) and nanosleep returns.  Commands need not start or finish.
Fairness == \A p \in Procs : WF_vars(TryLock(p) \/ Unlock(p) \/ DropPid(p))

Spec == Init /\ [][Next]_vars /\ Fairness

-----------------------------------------------------------------------------
(* Properties.                                                             *)

\* An exclusive lock excludes every other lock and there is one advisory lock,
\* as the comment on pkgdb_lock_t says, as long as no process has changed a lock
\* that was not its own: no reset hit a holder, no release or conversion another
\* process's lock.  Every way the code has of losing the exclusion goes through
\* one of these; a lock that is left behind, by a release that is undone or for a
\* pid that is not removed, is none.
Exclusion ==
  \A p, q \in Procs :
    p # q => /\ "exclusive" \in granted[p] => granted[q] = {}
             /\ ~("advisory" \in granted[p] /\ "advisory" \in granted[q])
LeftBehind == {"kept", "late", "undone"}
ExclusionUnlessBreach == breach \subseteq LeftBehind => Exclusion

\* The count of readers is never below the number of processes that hold a read
\* lock (a killed reader leaves it above), so an exclusive lock cannot be taken
\* over a reader's head.
Readers == {p \in Procs : "readonly" \in granted[p]}
ReadersCounted ==
  breach \subseteq LeftBehind => \A i \in DOMAIN pkg_lock : pkg_lock[i].read >= Cardinality(Readers)

\* When no command runs and none was killed, the lock is free and no pid is left: every
\* path through a command gives back what it took, with three exceptions that breach
\* records.  A script that fails leaves a transaction open, and pkgdb_close undoes the
\* release made in it (undone); the pid of a process whose DELETE finds the database busy
\* stays (late); annotate -S keeps its read lock (kept).
AllReleased ==
  (breach = {} /\ crashes = 0 /\ \A p \in Procs : ~Alive(p))
    => pkg_lock = <<NoLock>> /\ pkg_lock_pid = {}

\* A lock left behind by killed processes is no obstacle to a command that runs
\* alone: its first lock is granted, whatever rows and pids are left, except
\* when its own pid is among them.
Alone(p) == \A q \in Others(p) : ~Alive(q)
Recovers ==
  \A p \in Procs :
    (/\ stage[p] = "acquire" /\ pc[p] = "try" /\ p \notin pkg_lock_pid
     /\ Alone(p) /\ crashes = MaxCrashes)
      ~> (stage[p] = "locked" \/ ~Alone(p))
=============================================================================
