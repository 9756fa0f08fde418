------------------------------ MODULE Migrate -------------------------------
(***************************************************************************)
(* sqlitemigration.Migrate: several processes bring one database file to   *)
(* the newest version of their schema (migrateDB and ensureAppID in        *)
(* sqlitemigration.go, with ImmediateTransaction of sqlitex/savepoint.go). *)
(*                                                                         *)
(* Each process has one connection and calls Migrate on it any number of   *)
(* times; its context may end between any two statements, any statement    *)
(* may fail, and the process may crash.  A statement is one step.  SQLite  *)
(* contributes the write lock, the atomic commit and the rollback of what  *)
(* was not committed; the scripts are abstracted to their index.           *)
(***************************************************************************)
EXTENDS Naturals, Sequences

CONSTANTS
    Procs,     \* processes with a connection to the database
    AppID,     \* Schema.AppID of each process; 0 is not set
    Last,      \* len(Schema.Migrations) of each process
    DisableFK, \* migrations with MigrationOptions.DisableForeignKeys
    Nobody,    \* nobody has the write lock
    MaxCalls   \* bound: calls of Migrate, by all the processes together

ASSUME MigrateAssumption ==
    /\ AppID \in [Procs -> Nat]
    /\ Last \in [Procs -> Nat]
    /\ Nobody \notin Procs
    /\ MaxCalls \in Nat

VARIABLES
    db,             \* the committed database
    tx,             \* the database as the open write transaction sees it
    lock,           \* who has the open write transaction
    pc,             \* where each process is
    result,         \* what its last call of Migrate returned
    schemaVersion,  \* local variable of migrateDB
    fkEnabled,      \* local variable foreignKeysEnabled of migrateDB
    disableFKs,     \* local variable of migrateDB
    foreignKeys,    \* PRAGMA foreign_keys of its connection
    ctxDone,        \* the context of the call has ended
    calls           \* calls of Migrate so far

dbVars == <<db, tx, lock>>
localVars == <<schemaVersion, fkEnabled, disableFKs>>
vars == <<dbVars, pc, result, localVars, foreignKeys, ctxDone, calls>>

\* A database: application_id, user_version, the scripts that have run (with
\* the AppID of the process that ran them), and the version after which the
\* repeatable migration ran last.
Database == [app : Nat, version : Nat, scripts : Seq(Nat \X Nat), repeated : Nat]

\* The database, the transaction and the processes' variables have their types.
TypeOK ==
    /\ db \in Database
    /\ tx \in Database
    /\ lock \in Procs \cup {Nobody}
    /\ pc \in [Procs -> {"idle", "app", "check", "appEnd", "prepare", "loop",
                         "begin", "version", "script", "repeat", "commit",
                         "fkOn"}]
    /\ result \in [Procs -> {"none", "ok", "error"}]
    /\ schemaVersion \in [Procs -> Nat]
    /\ fkEnabled \in [Procs -> BOOLEAN]
    /\ disableFKs \in [Procs -> BOOLEAN]
    /\ foreignKeys \in [Procs -> BOOLEAN]
    /\ ctxDone \in [Procs -> BOOLEAN]
    /\ calls \in Nat

\* An empty file, connections with foreign keys on.
Init ==
    /\ db = [app |-> 0, version |-> 0, scripts |-> <<>>, repeated |-> 0]
    /\ tx = db
    /\ lock = Nobody
    /\ pc = [p \in Procs |-> "idle"]
    /\ result = [p \in Procs |-> "none"]
    /\ schemaVersion = [p \in Procs |-> 0]
    /\ fkEnabled = [p \in Procs |-> TRUE]
    /\ disableFKs = [p \in Procs |-> FALSE]
    /\ foreignKeys = [p \in Procs |-> TRUE]
    /\ ctxDone = [p \in Procs |-> FALSE]
    /\ calls = 0

Goto(p, l) == pc' = [pc EXCEPT ![p] = l] /\ UNCHANGED <<result, ctxDone>>

\* migrateDB returns; the deferred SetInterrupt takes the context off.
Return(p, r) ==
    /\ pc' = [pc EXCEPT ![p] = "idle"]
    /\ result' = [result EXCEPT ![p] = r]
    /\ ctxDone' = [ctxDone EXCEPT ![p] = FALSE]

\* BEGIN IMMEDIATE, COMMIT and ROLLBACK of the write transaction.
BeginTx(p) ==
    /\ lock = Nobody
    /\ lock' = p
    /\ tx' = db
    /\ UNCHANGED db

CommitTx(p) ==
    /\ db' = tx
    /\ lock' = Nobody
    /\ UNCHANGED tx

RollbackTx(p) ==
    /\ lock' = IF lock = p THEN Nobody ELSE lock
    /\ UNCHANGED <<db, tx>>
-----------------------------------------------------------------------------
(***************************************************************************)
(* The call, and ensureAppID.                                              *)
(***************************************************************************)

Call(p) ==
    /\ pc[p] = "idle"
    /\ calls < MaxCalls
    /\ calls' = calls + 1
    /\ pc' = [pc EXCEPT ![p] = "app"]
    /\ result' = [result EXCEPT ![p] = "none"]
    /\ UNCHANGED <<dbVars, localVars, foreignKeys, ctxDone>>

\* The context given to Migrate ends.
CtxEnds(p) ==
    /\ pc[p] # "idle"
    /\ ~ctxDone[p]
    /\ ctxDone' = [ctxDone EXCEPT ![p] = TRUE]
    /\ UNCHANGED <<dbVars, pc, result, localVars, foreignKeys, calls>>

\* ImmediateTransaction
AppBegin(p) ==
    /\ pc[p] = "app"
    /\ ~ctxDone[p]
    /\ BeginTx(p)
    /\ Goto(p, "check")
    /\ UNCHANGED <<localVars, foreignKeys, calls>>

\* Mutant: ensureAppID overwrites the application_id of any empty database.
AppMatchesIfEmpty(p) == tx.app = AppID[p] \/ tx.scripts = <<>>

\* The application_id may be taken: it is the wanted one already, or it is not
\* set and the database is empty.
AppMatches(p) == tx.app = AppID[p] \/ (tx.app = 0 /\ tx.scripts = <<>>)

AppCheck(p) ==
    /\ pc[p] = "check"
    /\ ~ctxDone[p]
    /\ AppMatches(p)
    /\ schemaVersion' = [schemaVersion EXCEPT ![p] = tx.version]
    /\ tx' = [tx EXCEPT !.app = AppID[p]]
    /\ Goto(p, "appEnd")
    /\ UNCHANGED <<db, lock, fkEnabled, disableFKs, foreignKeys, calls>>

\* The deferred end(&err) commits ...
AppCommit(p) ==
    /\ pc[p] = "appEnd"
    /\ ~ctxDone[p]
    /\ CommitTx(p)
    /\ Goto(p, "prepare")
    /\ UNCHANGED <<localVars, foreignKeys, calls>>

\* ... or, after any error and whether or not the context has ended, rolls
\* back: it takes the doneCh off first.
AppFails(p) ==
    /\ pc[p] \in {"app", "check", "appEnd"}
    /\ IF pc[p] = "app" THEN UNCHANGED dbVars ELSE RollbackTx(p)
    /\ Return(p, "error")
    /\ UNCHANGED <<localVars, foreignKeys, calls>>
-----------------------------------------------------------------------------
(***************************************************************************)
(* migrateDB.                                                              *)
(***************************************************************************)

\* onStart, PRAGMA foreign_keys, and the BEGIN and COMMIT statements.
Prepare(p) ==
    /\ pc[p] = "prepare"
    /\ ~ctxDone[p]
    /\ fkEnabled' = [fkEnabled EXCEPT ![p] = foreignKeys[p]]
    /\ Goto(p, "loop")
    /\ UNCHANGED <<dbVars, schemaVersion, disableFKs, foreignKeys, calls>>

\* Mutant: the loop stops one migration early.
LoopEndsEarly(p) ==
    /\ pc[p] = "loop"
    /\ schemaVersion[p] + 1 >= Last[p]
    /\ Return(p, "ok")
    /\ UNCHANGED <<dbVars, localVars, foreignKeys, calls>>

\* The condition of the loop does not hold: return nil.
LoopEnds(p) ==
    /\ pc[p] = "loop"
    /\ schemaVersion[p] >= Last[p]
    /\ Return(p, "ok")
    /\ UNCHANGED <<dbVars, localVars, foreignKeys, calls>>

\* The next migration, with PRAGMA foreign_keys = off if it asks for that.
LoopNext(p) ==
    LET disable == fkEnabled[p] /\ schemaVersion[p] \in DisableFK
    IN  /\ pc[p] = "loop"
        /\ schemaVersion[p] < Last[p]
        /\ disable => ~ctxDone[p]
        /\ disableFKs' = [disableFKs EXCEPT ![p] = disable]
        /\ foreignKeys' =
              [foreignKeys EXCEPT ![p] = IF disable THEN FALSE ELSE @]
        /\ Goto(p, "begin")
        /\ UNCHANGED <<dbVars, schemaVersion, fkEnabled, calls>>

Begin(p) ==
    /\ pc[p] = "begin"
    /\ ~ctxDone[p]
    /\ BeginTx(p)
    /\ Goto(p, "version")
    /\ UNCHANGED <<localVars, foreignKeys, calls>>

\* Mutant: the version is not compared again inside the transaction.
VersionUnchecked(p) ==
    /\ pc[p] = "version"
    /\ ~ctxDone[p]
    /\ Goto(p, "script")
    /\ UNCHANGED <<dbVars, localVars, foreignKeys, calls>>

VersionMatches(p) ==
    /\ pc[p] = "version"
    /\ ~ctxDone[p]
    /\ tx.version = schemaVersion[p]
    /\ Goto(p, "script")
    /\ UNCHANGED <<dbVars, localVars, foreignKeys, calls>>

\* rollback(conn): nothing in autocommit mode; otherwise a ROLLBACK statement,
\* which an ended context refuses, and whose error is dropped.
Rollback(p) ==
    IF ctxDone[p] THEN UNCHANGED dbVars ELSE RollbackTx(p)

\* Mutant: the loop starts again with the stale version.
VersionDiffersKeeps(p) ==
    /\ pc[p] = "version"
    /\ tx.version # schemaVersion[p]
    /\ Rollback(p)
    /\ Goto(p, "loop")
    /\ UNCHANGED <<localVars, foreignKeys, calls>>

\* "A different process migrated while we were not inside a transaction."  The
\* context may end between the query and the ROLLBACK.
VersionDiffers(p) ==
    /\ pc[p] = "version"
    /\ tx.version # schemaVersion[p]
    /\ Rollback(p)
    /\ schemaVersion' = [schemaVersion EXCEPT ![p] = tx.version]
    /\ Goto(p, "loop")
    /\ UNCHANGED <<fkEnabled, disableFKs, foreignKeys, calls>>

\* Mutant: the test for the last migration is off by one.
ScriptNeverLast(p) ==
    /\ pc[p] = "script"
    /\ ~ctxDone[p]
    /\ tx' = [tx EXCEPT
                 !.version = schemaVersion[p] + 1,
                 !.scripts = Append(@, <<schemaVersion[p], AppID[p]>>)]
    /\ Goto(p, IF schemaVersion[p] = Last[p] THEN "repeat" ELSE "commit")
    /\ UNCHANGED <<db, lock, localVars, foreignKeys, calls>>

\* The script, followed by PRAGMA user_version.
Script(p) ==
    /\ pc[p] = "script"
    /\ ~ctxDone[p]
    /\ tx' = [tx EXCEPT
                 !.version = schemaVersion[p] + 1,
                 !.scripts = Append(@, <<schemaVersion[p], AppID[p]>>)]
    /\ Goto(p, IF schemaVersion[p] + 1 = Last[p] THEN "repeat" ELSE "commit")
    /\ UNCHANGED <<db, lock, localVars, foreignKeys, calls>>

RepeatableMigration(p) ==
    /\ pc[p] = "repeat"
    /\ ~ctxDone[p]
    /\ tx' = [tx EXCEPT !.repeated = tx.version]
    /\ Goto(p, "commit")
    /\ UNCHANGED <<db, lock, localVars, foreignKeys, calls>>

Commit(p) ==
    /\ pc[p] = "commit"
    /\ ~ctxDone[p]
    /\ CommitTx(p)
    /\ IF disableFKs[p]
         THEN Goto(p, "fkOn") /\ UNCHANGED schemaVersion
         ELSE /\ Goto(p, "loop")
              /\ schemaVersion' = [schemaVersion EXCEPT ![p] = @ + 1]
    /\ UNCHANGED <<fkEnabled, disableFKs, foreignKeys, calls>>

ForeignKeysOn(p) ==
    /\ pc[p] = "fkOn"
    /\ ~ctxDone[p]
    /\ foreignKeys' = [foreignKeys EXCEPT ![p] = TRUE]
    /\ schemaVersion' = [schemaVersion EXCEPT ![p] = @ + 1]
    /\ Goto(p, "loop")
    /\ UNCHANGED <<dbVars, fkEnabled, disableFKs, calls>>

\* A statement outside the transaction fails, for any reason.
FailsOutside(p) ==
    /\ \/ pc[p] \in {"prepare", "begin", "fkOn"}
       \/ /\ pc[p] = "loop"
          /\ schemaVersion[p] < Last[p]
          /\ fkEnabled[p] /\ schemaVersion[p] \in DisableFK
    /\ Return(p, "error")
    /\ UNCHANGED <<dbVars, localVars, foreignKeys, calls>>

\* Mutant: an error path returns without the rollback.
FailsWithoutRollback(p) ==
    /\ pc[p] \in {"version", "script", "repeat", "commit"}
    /\ UNCHANGED dbVars
    /\ Return(p, "error")
    /\ UNCHANGED <<localVars, foreignKeys, calls>>

\* A statement inside the transaction fails: rollback.  SQLite may have rolled
\* back already, as it does when it interrupts a write.
FailsInside(p) ==
    /\ pc[p] \in {"version", "script", "repeat", "commit"}
    /\ Rollback(p) \/ RollbackTx(p)
    /\ Return(p, "error")
    /\ UNCHANGED <<localVars, foreignKeys, calls>>
-----------------------------------------------------------------------------
\* The caller closes the connection and opens another one.
Reopen(p) ==
    /\ pc[p] = "idle"
    /\ result[p] # "none"
    /\ RollbackTx(p)
    /\ result' = [result EXCEPT ![p] = "none"]
    /\ foreignKeys' = [foreignKeys EXCEPT ![p] = TRUE]
    /\ UNCHANGED <<pc, localVars, ctxDone, calls>>

\* The process dies and starts again.
Crash(p) ==
    /\ pc[p] # "idle"
    /\ RollbackTx(p)
    /\ Return(p, "none")
    /\ foreignKeys' = [foreignKeys EXCEPT ![p] = TRUE]
    /\ UNCHANGED <<localVars, calls>>
-----------------------------------------------------------------------------
\* What migrateDB does by itself.
Step(p) ==
    \/ AppBegin(p)
    \/ AppCheck(p)
    \/ AppCommit(p)
    \/ AppFails(p)
    \/ Prepare(p)
    \/ LoopEnds(p)
    \/ LoopNext(p)
    \/ Begin(p)
    \/ VersionMatches(p)
    \/ VersionDiffers(p)
    \/ Script(p)
    \/ RepeatableMigration(p)
    \/ Commit(p)
    \/ ForeignKeysOn(p)
    \/ FailsOutside(p)
    \/ FailsInside(p)

Proc(p) == Call(p) \/ Step(p) \/ CtxEnds(p) \/ Crash(p) \/ Reopen(p)

\* The bound on calls is used up and every connection is as new.
Finished ==
    /\ calls = MaxCalls
    /\ \A p \in Procs : pc[p] = "idle" /\ result[p] = "none"
    /\ UNCHANGED vars

Next == (\E p \in Procs : Proc(p)) \/ Finished

Spec == Init /\ [][Next]_vars

\* What a call does when no statement fails for a reason of its own: it goes
\* on, waits for the write lock, or stops because its context has ended or
\* its own connection still has a transaction.
Advance(p) ==
    \/ AppBegin(p)
    \/ AppCheck(p)
    \/ AppCommit(p)
    \/ AppFails(p) /\ (ctxDone[p] \/ lock = p)
    \/ Prepare(p)
    \/ LoopEnds(p)
    \/ LoopNext(p)
    \/ Begin(p)
    \/ VersionMatches(p)
    \/ VersionDiffers(p)
    \/ Script(p)
    \/ RepeatableMigration(p)
    \/ Commit(p)
    \/ ForeignKeysOn(p)
    \/ (FailsOutside(p) \/ FailsInside(p)) /\ ctxDone[p]

\* A goroutine that can run does, and a connection that Migrate has returned is
\* closed in the end.
FairSpec == Spec /\ \A p \in Procs : WF_vars(Advance(p)) /\ WF_vars(Reopen(p))
-----------------------------------------------------------------------------
(***************************************************************************)
(* Properties.                                                             *)
(***************************************************************************)

\* Whatever processes run at once, crash, or are cancelled, each script has
\* been committed exactly once, in order, and user_version counts them: the
\* version is read before the transaction and compared again inside it.
AppliedOnce ==
    /\ db.version = Len(db.scripts)
    /\ \A i \in 1 .. Len(db.scripts) : db.scripts[i][1] = i - 1

\* A process with an AppID only ever changes a database that carries it: the
\* application_id that ensureAppID checked and set does not change while the
\* later transactions of migrateDB rely on it.
AppsDoNotMix ==
    \A i \in 1 .. Len(db.scripts) :
        db.scripts[i][2] # 0 => db.scripts[i][2] = db.app

\* The repeatable migration ran in the transaction of the newest schema's last
\* migration: no crash or cancellation can leave one without the other.
RepeatedWithLast ==
    \A p \in Procs :
        /\ db.version = Last[p]
        /\ \A q \in Procs : Last[q] <= Last[p]
        => db.repeated = db.version

\* When Migrate returns nil the database has all of the caller's migrations,
\* whoever ran them.
SuccessIsCurrent ==
    \A p \in Procs : result[p] = "ok" => db.version >= Last[p]

\* A call whose context has not ended leaves no transaction open, on any path.
\* (One whose context has ended may: see Rollback.)
ReturnsInAutocommit ==
    [][\A p \in Procs :
          pc[p] # "idle" /\ pc'[p] = "idle" /\ ~ctxDone[p] /\ lock' = p
              => lock = p /\ pc[p] = "app"]_vars

\* Every call of Migrate returns: the lock is passed on, and the loop that
\* starts again when another process was faster always makes progress.
CallReturns == \A p \in Procs : pc[p] # "idle" ~> pc[p] = "idle"

\* MigrationOptions: after the transaction of a migration that disables them,
\* foreign keys are restored.  So a call that succeeds leaves the setting as
\* it found it.
ForeignKeysRestored ==
    \A p \in Procs : result[p] = "ok" => foreignKeys[p] = fkEnabled[p]
=============================================================================
