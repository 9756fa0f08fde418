--------------------------- MODULE MigrateProofs ----------------------------
(***************************************************************************)
(* Proofs of the properties of Migrate, of MigrationPool, and of the       *)
(* objects of the session extension.                                       *)
(*                                                                         *)
(* Migrate, for any number of processes, any application IDs, schemas and  *)
(* options, and any number of calls.                                       *)
(*                                                                         *)
(* The inductive invariant says who has the lock, how the transaction's    *)
(* view differs from the committed database at each point of migrateDB,    *)
(* and what the local schemaVersion still says of the database although    *)
(* it was read in an earlier transaction.                                  *)
(***************************************************************************)
EXTENDS Migrate, MigrationPool, Session, TLAPS

\* A sequence with one more element.
LEMMA Longer ==
  ASSUME NEW S, NEW s \in Seq(S), NEW e \in S
  PROVE  /\ Append(s, e) \in Seq(S) /\ Len(s) \in Nat
         /\ Len(Append(s, e)) = Len(s) + 1 /\ Append(s, e)[Len(s) + 1] = e
         /\ \A j \in 1 .. Len(s) : Append(s, e)[j] = s[j]
OBVIOUS

\* The three facts about a database that the properties state.
Ordered(d) ==
    /\ d.version = Len(d.scripts)
    /\ \A i \in 1 .. Len(d.scripts) : d.scripts[i][1] = i - 1

Pure(d) ==
    \A i \in 1 .. Len(d.scripts) :
        d.scripts[i][2] # 0 => d.scripts[i][2] = d.app

Repeated(d) ==
    \A p \in Procs :
        /\ d.version = Last[p]
        /\ \A q \in Procs : Last[q] <= Last[p]
        => d.repeated = d.version

\* A process inside a transaction has the lock; outside, it has the lock only
\* after a rollback that its ended context refused.
LockInv ==
    \A p \in Procs :
        /\ pc[p] \in {"check", "appEnd", "version", "script", "repeat", "commit"}
              => lock = p
        /\ pc[p] \in {"prepare", "loop", "begin", "fkOn"} /\ lock = p
              => ctxDone[p]

\* What the transaction has changed so far.
TxInv ==
    \A p \in Procs :
        /\ pc[p] \in {"check", "version", "script"} => tx = db
        /\ pc[p] = "appEnd" =>
              /\ tx.app = AppID[p]
              /\ tx.version = db.version
              /\ tx.scripts = db.scripts
              /\ tx.repeated = db.repeated
              /\ db.app = AppID[p] \/ (db.app = 0 /\ db.scripts = <<>>)
        /\ pc[p] \in {"repeat", "commit"} =>
              /\ tx.app = db.app
              /\ tx.version = db.version + 1
        /\ pc[p] = "commit" /\ tx.version = Last[p] => tx.repeated = tx.version

\* The local version is never ahead of the database, and is exact when the
\* script runs.
VersionInv ==
    \A p \in Procs :
        /\ pc[p] \in {"appEnd", "script", "repeat", "commit"}
              => schemaVersion[p] = db.version
        /\ pc[p] \in {"prepare", "loop", "begin", "version"}
              => schemaVersion[p] <= db.version
        /\ pc[p] = "fkOn" => schemaVersion[p] < db.version
        /\ pc[p] \in {"begin", "version", "script", "repeat", "commit", "fkOn"}
              => schemaVersion[p] < Last[p]

\* After ensureAppID the database carries the process's AppID, if it has one.
AppInv ==
    \A p \in Procs :
        /\ pc[p] \in {"prepare", "loop", "begin", "version", "script",
                      "repeat", "commit", "fkOn"}
        /\ AppID[p] # 0
        => db.app = AppID[p]

IInv ==
    /\ TypeOK
    /\ LockInv
    /\ TxInv
    /\ VersionInv
    /\ AppInv
    /\ Ordered(db) /\ Ordered(tx)
    /\ Pure(db) /\ Pure(tx)
    /\ Repeated(db)
    /\ SuccessIsCurrent
-----------------------------------------------------------------------------
\* Each step preserves the types of the variables.
LEMMA TypeStep == TypeOK /\ [Next]_vars => TypeOK'
<1> SUFFICES ASSUME TypeOK, [Next]_vars PROVE TypeOK'
  BY Zenon
<1> USE MigrateAssumption DEF TypeOK, dbVars, localVars, Goto, Return, BeginTx,
        CommitTx, RollbackTx, Rollback
<1>1. CASE UNCHANGED vars
  BY Zenon, <1>1 DEF vars
<1>2. CASE Finished
  BY Zenon, <1>2 DEF Finished, vars
<1>3. ASSUME NEW p \in Procs, Proc(p) PROVE TypeOK'
  <2>1. CASE Call(p)
    BY <2>1 DEF Call
  <2>2. CASE CtxEnds(p)
    BY Zenon, <2>2 DEF CtxEnds
  <2>3. CASE AppBegin(p)
    BY Zenon, <2>3 DEF AppBegin
  <2>4. CASE AppCheck(p)
    BY Zenon, <2>4 DEF AppCheck, Database
  <2>5. CASE AppCommit(p)
    BY Zenon, <2>5 DEF AppCommit
  <2>6. CASE AppFails(p)
    BY Zenon, <2>6 DEF AppFails
  <2>7. CASE Prepare(p)
    BY Zenon, <2>7 DEF Prepare
  <2>8. CASE LoopEnds(p)
    BY Zenon, <2>8 DEF LoopEnds
  <2>9. CASE LoopNext(p)
    BY Zenon, <2>9 DEF LoopNext
  <2>10. CASE Begin(p)
    BY Zenon, <2>10 DEF Begin
  <2>11. CASE VersionMatches(p)
    BY Zenon, <2>11 DEF VersionMatches
  <2>12. CASE VersionDiffers(p)
    BY Zenon, <2>12 DEF VersionDiffers, Database
  <2>13. CASE Script(p)
    <3> DEFINE s == <<schemaVersion[p], AppID[p]>>
    <3>0. tx.scripts \in Seq(Nat \X Nat) /\ s \in Nat \X Nat
      BY Zenon DEF Database
    <3> HIDE DEF s
    <3>1. Append(tx.scripts, s) \in Seq(Nat \X Nat)
      BY Zenon, <3>0, Longer
    <3> USE DEF s
    <3>2. tx' \in Database
      <4>1. tx' = [tx EXCEPT !.version = schemaVersion[p] + 1,
                             !.scripts = Append(@, s)]
        BY Zenon, <2>13 DEF Script
      <4>2. tx \in Database /\ schemaVersion[p] + 1 \in Nat
        OBVIOUS
      <4> HIDE DEF s, TypeOK
      <4> QED
        BY Zenon, <3>1, <4>1, <4>2 DEF Database
    <3> QED
      BY Zenon, <2>13, <3>2 DEF Script
  <2>14. CASE RepeatableMigration(p)
    BY Zenon, <2>14 DEF RepeatableMigration, Database
  <2>15. CASE Commit(p)
    BY <2>15 DEF Commit
  <2>16. CASE ForeignKeysOn(p)
    BY <2>16 DEF ForeignKeysOn
  <2>17. CASE FailsOutside(p)
    BY Zenon, <2>17 DEF FailsOutside
  <2>18. CASE FailsInside(p)
    BY Zenon, <2>18 DEF FailsInside
  <2>19. CASE Reopen(p)
    BY Zenon, <2>19 DEF Reopen
  <2>20. CASE Crash(p)
    BY Zenon, <2>20 DEF Crash
  <2> HIDE DEF TypeOK
  <2> QED
    BY Zenon, <1>3, <2>1, <2>2, <2>3, <2>4, <2>5, <2>6, <2>7, <2>8, <2>9, <2>10,
       <2>11, <2>12, <2>13, <2>14, <2>15, <2>16, <2>17, <2>18, <2>19, <2>20
       DEF Proc, Step
<1> HIDE DEF TypeOK
<1> QED
  BY Zenon, <1>1, <1>2, <1>3 DEF Next
-----------------------------------------------------------------------------
\* The conjuncts of the invariant that speak of the processes.
ProcInv == LockInv /\ TxInv /\ VersionInv /\ AppInv /\ SuccessIsCurrent

\* The steps that change neither the database nor the transaction's view of it.
Quiet(p) ==
    \/ Call(p) \/ CtxEnds(p) \/ AppFails(p) \/ Prepare(p) \/ LoopEnds(p)
    \/ LoopNext(p) \/ VersionMatches(p) \/ VersionDiffers(p)
    \/ ForeignKeysOn(p) \/ FailsOutside(p) \/ FailsInside(p)
    \/ Reopen(p) \/ Crash(p)

\* A quiet step keeps the processes' part of the invariant.
LEMMA QuietStep ==
    ASSUME IInv, NEW p \in Procs, Quiet(p)
    PROVE  ProcInv' /\ UNCHANGED <<db, tx>>
<1>0. /\ pc = [q \in Procs |-> pc[q]]
      /\ result = [q \in Procs |-> result[q]]
      /\ schemaVersion \in [Procs -> Nat]
      /\ ctxDone \in [Procs -> BOOLEAN]
      /\ db.version \in Nat
      /\ Last \in [Procs -> Nat]
      /\ Nobody \notin Procs
      /\ ProcInv
  BY Zenon, MigrateAssumption DEF IInv, TypeOK, Database, ProcInv
<1> USE <1>0 DEF ProcInv, LockInv, TxInv, VersionInv, AppInv, SuccessIsCurrent,
        dbVars, localVars, Goto, Return, RollbackTx, Rollback
<1>1. CASE Call(p)
  BY Zenon, <1>1 DEF Call
<1>2. CASE CtxEnds(p)
  BY Zenon, <1>2 DEF CtxEnds
<1>3. CASE AppFails(p)
  BY <1>3 DEF AppFails
<1>4. CASE Prepare(p)
  BY <1>4 DEF Prepare
<1>5. CASE LoopEnds(p)
  BY <1>5 DEF LoopEnds
<1>6. CASE LoopNext(p)
  BY <1>6 DEF LoopNext
<1>7. CASE VersionMatches(p)
  BY <1>7 DEF VersionMatches
<1>8. CASE VersionDiffers(p)
  BY <1>8 DEF VersionDiffers
<1>9. CASE ForeignKeysOn(p)
  BY <1>9 DEF ForeignKeysOn
<1>10. CASE FailsOutside(p)
  BY Zenon, <1>10 DEF FailsOutside
<1>11. CASE FailsInside(p)
  BY <1>11 DEF FailsInside
<1>12. CASE Reopen(p)
  BY Zenon, <1>12 DEF Reopen
<1>13. CASE Crash(p)
  BY Zenon, <1>13 DEF Crash
<1> QED
  BY Zenon, <1>1, <1>2, <1>3, <1>4, <1>5, <1>6, <1>7, <1>8, <1>9, <1>10, <1>11, <1>12,
     <1>13 DEF Quiet

\* BEGIN IMMEDIATE, in ensureAppID and in the loop.
LEMMA BeginStep ==
    ASSUME IInv, NEW p \in Procs, AppBegin(p) \/ Begin(p)
    PROVE  ProcInv' /\ UNCHANGED db /\ tx' = db
<1>0. /\ pc = [q \in Procs |-> pc[q]]
      /\ Nobody \notin Procs
      /\ ProcInv
  BY Zenon, MigrateAssumption DEF IInv, TypeOK, ProcInv
<1> USE <1>0 DEF ProcInv, LockInv, TxInv, VersionInv, AppInv, SuccessIsCurrent,
        dbVars, localVars, Goto, BeginTx
<1>1. CASE AppBegin(p)
  BY Zenon, <1>1 DEF AppBegin
<1>2. CASE Begin(p)
  BY <1>2 DEF Begin
<1> QED
  BY Zenon, <1>1, <1>2

\* A step inside the transaction of p leaves the others outside.
LEMMA OnlyOneInside ==
    ASSUME LockInv, NEW p \in Procs, lock = p, NEW q \in Procs, q # p
    PROVE  pc[q] \notin {"check", "appEnd", "version", "script", "repeat", "commit"}
BY Zenon DEF LockInv

\* ensureAppID sets application_id.
LEMMA AppCheckStep ==
    ASSUME IInv, NEW p \in Procs, AppCheck(p)
    PROVE  /\ ProcInv'
           /\ UNCHANGED db
           /\ Ordered(tx)' /\ Pure(tx)'
<1>0. /\ pc = [q \in Procs |-> pc[q]]
      /\ schemaVersion \in [Procs -> Nat]
      /\ tx \in Database
      /\ ProcInv /\ Ordered(tx) /\ Pure(tx)
  BY Zenon DEF IInv, TypeOK, ProcInv
<1> USE <1>0
<1>1. /\ tx'.app = AppID[p]
      /\ tx'.version = tx.version
      /\ tx'.scripts = tx.scripts
      /\ tx'.repeated = tx.repeated
      /\ UNCHANGED <<db, lock, result, ctxDone>>
      /\ AppMatches(p)
  BY Zenon DEF AppCheck, Goto, Database
<1>2. tx = db /\ lock = p /\ pc[p] = "check"
  BY Zenon DEF AppCheck, ProcInv, LockInv, TxInv
<1>3. pc' = [pc EXCEPT ![p] = "appEnd"]
      /\ schemaVersion' = [schemaVersion EXCEPT ![p] = tx.version]
  BY Zenon DEF AppCheck, Goto
<1>4. LockInv'
  BY Zenon, <1>1, <1>2, <1>3 DEF ProcInv, LockInv
<1>5. TxInv'
  BY <1>1, <1>2, <1>3, OnlyOneInside DEF ProcInv, TxInv, AppMatches
<1>6. VersionInv' /\ AppInv' /\ SuccessIsCurrent'
  BY Zenon, <1>1, <1>2, <1>3 DEF ProcInv, VersionInv, AppInv, SuccessIsCurrent
<1>7. Ordered(tx)' /\ Pure(tx)'
  BY Zenon, <1>1 DEF Ordered, Pure, AppMatches
<1> QED
  BY Zenon, <1>1, <1>4, <1>5, <1>6, <1>7 DEF ProcInv

\* A commit keeps what the processes outside of it know: the version does not
\* go back, and an application_id that is set stays.
LEMMA CommitFrame ==
    ASSUME IInv, NEW p \in Procs, lock = p, lock' = Nobody,
           NEW q \in Procs, q # p,
           pc'[q] = pc[q], schemaVersion'[q] = schemaVersion[q],
           result'[q] = result[q],
           db.version \in Nat, db'.version \in Nat, db'.version >= db.version,
           db.app # 0 => db'.app = db.app
    PROVE  /\ pc[q] \notin {"check", "appEnd", "version", "script", "repeat",
                            "commit"}
           /\ pc[q] \in {"prepare", "loop", "begin"}
                 => schemaVersion'[q] <= db'.version
           /\ pc[q] = "fkOn" => schemaVersion'[q] < db'.version
           /\ pc[q] \in {"begin", "fkOn"} => schemaVersion'[q] < Last[q]
           /\ pc[q] \in {"prepare", "loop", "begin", "fkOn"} /\ AppID[q] # 0
                 => db'.app = AppID[q]
           /\ result'[q] = "ok" => db'.version >= Last[q]
<1>0. schemaVersion[q] \in Nat /\ Last[q] \in Nat
  BY Zenon, MigrateAssumption DEF IInv, TypeOK
<1>1. pc[q] \notin {"check", "appEnd", "version", "script", "repeat", "commit"}
  BY Zenon, OnlyOneInside DEF IInv
<1>2. /\ pc[q] \in {"prepare", "loop", "begin"}
            => schemaVersion[q] <= db.version
      /\ pc[q] = "fkOn" => schemaVersion[q] < db.version
      /\ pc[q] \in {"begin", "fkOn"} => schemaVersion[q] < Last[q]
  BY Zenon DEF IInv, VersionInv
<1>3. pc[q] \in {"prepare", "loop", "begin", "fkOn"} /\ AppID[q] # 0
         => db.app = AppID[q]
  BY Zenon DEF IInv, AppInv
<1>4. result[q] = "ok" => db.version >= Last[q]
  BY Zenon DEF IInv, SuccessIsCurrent
<1> QED
  BY <1>0, <1>1, <1>2, <1>3, <1>4

\* ensureAppID commits.
LEMMA AppCommitStep ==
    ASSUME IInv, NEW p \in Procs, AppCommit(p)
    PROVE  ProcInv' /\ Repeated(db)' /\ db' = tx /\ UNCHANGED tx
<1>0. /\ pc = [q \in Procs |-> pc[q]]
      /\ db.version \in Nat
      /\ Last \in [Procs -> Nat]
      /\ Nobody \notin Procs
      /\ ProcInv
  BY Zenon, MigrateAssumption DEF IInv, TypeOK, Database, ProcInv
<1>1. /\ db' = tx /\ lock' = Nobody
      /\ UNCHANGED <<tx, result, ctxDone, schemaVersion>>
      /\ pc' = [pc EXCEPT ![p] = "prepare"]
      /\ pc[p] = "appEnd"
  BY Zenon DEF AppCommit, CommitTx, Goto, localVars
<1>2. /\ lock = p
      /\ tx.app = AppID[p]
      /\ tx.version = db.version
      /\ tx.repeated = db.repeated
      /\ db.app # 0 => db.app = AppID[p]
      /\ schemaVersion[p] = db.version
      /\ result[p] = "ok" => db.version >= Last[p]
  BY Zenon, <1>0, <1>1 DEF ProcInv, LockInv, TxInv, VersionInv, SuccessIsCurrent
<1>3. /\ pc'[p] = "prepare"
      /\ \A q \in Procs : q # p => pc'[q] = pc[q]
  BY Zenon, <1>0, <1>1
<1>4. /\ db'.version = db.version
      /\ db'.app = AppID[p]
      /\ db'.repeated = db.repeated
  BY Zenon, <1>1, <1>2
<1>5. Repeated(db)'
  BY Zenon, <1>4 DEF IInv, Repeated
<1>6. ASSUME NEW q \in Procs, q # p
      PROVE  /\ pc'[q] \notin {"check", "appEnd", "version", "script", "repeat",
                               "commit"}
             /\ pc'[q] \in {"prepare", "loop", "begin"}
                   => schemaVersion'[q] <= db'.version
             /\ pc'[q] = "fkOn" => schemaVersion'[q] < db'.version
             /\ pc'[q] \in {"begin", "fkOn"} => schemaVersion'[q] < Last[q]
             /\ pc'[q] \in {"prepare", "loop", "begin", "fkOn"} /\ AppID[q] # 0
                   => db'.app = AppID[q]
             /\ result'[q] = "ok" => db'.version >= Last[q]
  <2>1. db'.version >= db.version /\ db'.version \in Nat
    BY <1>0, <1>4
  <2> QED
    BY Zenon, <1>0, <1>1, <1>2, <1>3, <1>4, <1>6, <2>1, CommitFrame
<1>7. LockInv' /\ TxInv'
  BY Zenon, <1>0, <1>1, <1>3, <1>6 DEF LockInv, TxInv
<1>8. VersionInv'
  BY <1>0, <1>1, <1>2, <1>3, <1>4, <1>6 DEF VersionInv
<1>9. AppInv' /\ SuccessIsCurrent'
  BY Zenon, <1>1, <1>2, <1>3, <1>4, <1>6 DEF AppInv, SuccessIsCurrent
<1> QED
  BY Zenon, <1>1, <1>5, <1>7, <1>8, <1>9 DEF ProcInv

\* A script and its user_version.
LEMMA ScriptStep ==
    ASSUME IInv, NEW p \in Procs, Script(p)
    PROVE  ProcInv' /\ UNCHANGED db /\ Ordered(tx)' /\ Pure(tx)'
<1>0. /\ pc = [q \in Procs |-> pc[q]]
      /\ schemaVersion \in [Procs -> Nat]
      /\ Last \in [Procs -> Nat]
      /\ AppID \in [Procs -> Nat]
      /\ tx \in Database /\ db.version \in Nat
      /\ ProcInv
  BY Zenon, MigrateAssumption DEF IInv, TypeOK, Database, ProcInv
<1> DEFINE s == <<schemaVersion[p], AppID[p]>>
           l == IF schemaVersion[p] + 1 = Last[p] THEN "repeat" ELSE "commit"
<1>1. /\ tx'.app = tx.app
      /\ tx'.version = schemaVersion[p] + 1
      /\ tx'.scripts = Append(tx.scripts, s)
      /\ UNCHANGED <<db, lock, result, ctxDone, schemaVersion>>
      /\ pc[p] = "script"
      /\ pc' = [pc EXCEPT ![p] = l]
  BY Zenon, <1>0 DEF Script, Goto, Database, localVars
<1>2. /\ lock = p /\ tx = db
      /\ schemaVersion[p] = db.version
      /\ schemaVersion[p] < Last[p]
      /\ AppID[p] # 0 => db.app = AppID[p]
  BY Zenon, <1>0, <1>1 DEF ProcInv, LockInv, TxInv, VersionInv, AppInv
<1>3. LockInv'
  BY Zenon, <1>0, <1>1, <1>2 DEF ProcInv, LockInv
<1>4. TxInv'
  BY <1>0, <1>1, <1>2, OnlyOneInside DEF ProcInv, TxInv
<1>5. VersionInv' /\ AppInv' /\ SuccessIsCurrent'
  BY Zenon, <1>0, <1>1, <1>2 DEF ProcInv, VersionInv, AppInv, SuccessIsCurrent
<1>6. /\ tx.scripts \in Seq(Nat \X Nat)
      /\ s \in Nat \X Nat
      /\ s[1] = schemaVersion[p] /\ s[2] = AppID[p]
  BY Zenon, <1>0 DEF Database
<1>7. Ordered(tx) /\ Pure(tx)
  BY Zenon DEF IInv
<1> HIDE DEF s, l
<1>8. /\ Len(tx'.scripts) = Len(tx.scripts) + 1
      /\ \A i \in 1 .. Len(tx.scripts) : tx'.scripts[i] = tx.scripts[i]
      /\ tx'.scripts[Len(tx.scripts) + 1] = s
      /\ Len(tx.scripts) \in Nat
  BY SMTT(40), <1>1, <1>6, Longer
<1>9. \A i \in 1 .. Len(tx'.scripts) :
         i \in 1 .. Len(tx.scripts) \/ i = Len(tx.scripts) + 1
  BY <1>8
<1>10. Ordered(tx)'
  BY <1>0, <1>1, <1>2, <1>6, <1>7, <1>8, <1>9 DEF Ordered
<1>11. Pure(tx)'
  <2> SUFFICES ASSUME NEW i \in 1 .. Len(tx'.scripts), tx'.scripts[i][2] # 0
               PROVE  tx'.scripts[i][2] = tx'.app
    BY Zenon DEF Pure
  <2>1. CASE i \in 1 .. Len(tx.scripts)
    BY Zenon, <1>1, <1>7, <1>8, <2>1 DEF Pure
  <2>2. CASE i = Len(tx.scripts) + 1
    BY Zenon, <1>1, <1>2, <1>6, <1>8, <2>2
  <2> QED
    BY Zenon, <1>9, <2>1, <2>2
<1> QED
  BY Zenon, <1>1, <1>3, <1>4, <1>5, <1>10, <1>11 DEF ProcInv

\* The repeatable migration.
LEMMA RepeatStep ==
    ASSUME IInv, NEW p \in Procs, RepeatableMigration(p)
    PROVE  ProcInv' /\ UNCHANGED db /\ Ordered(tx)' /\ Pure(tx)'
<1>0. /\ pc = [q \in Procs |-> pc[q]]
      /\ tx \in Database
      /\ ProcInv
  BY Zenon DEF IInv, TypeOK, ProcInv
<1>1. /\ tx'.app = tx.app
      /\ tx'.version = tx.version
      /\ tx'.scripts = tx.scripts
      /\ tx'.repeated = tx.version
      /\ UNCHANGED <<db, lock, result, ctxDone, schemaVersion>>
      /\ pc[p] = "repeat"
      /\ pc' = [pc EXCEPT ![p] = "commit"]
  BY Zenon, <1>0 DEF RepeatableMigration, Goto, Database, localVars
<1>2. lock = p /\ tx.app = db.app /\ tx.version = db.version + 1
  BY Zenon, <1>0, <1>1 DEF ProcInv, LockInv, TxInv
<1>3. LockInv'
  BY Zenon, <1>0, <1>1, <1>2 DEF ProcInv, LockInv
<1>4. TxInv'
  BY Zenon, <1>0, <1>1, <1>2, OnlyOneInside DEF ProcInv, TxInv
<1>5. VersionInv' /\ AppInv' /\ SuccessIsCurrent'
  BY Zenon, <1>0, <1>1, <1>2 DEF ProcInv, VersionInv, AppInv, SuccessIsCurrent
<1>6. Ordered(tx)' /\ Pure(tx)'
  BY Zenon, <1>1 DEF IInv, Ordered, Pure
<1> QED
  BY Zenon, <1>1, <1>3, <1>4, <1>5, <1>6 DEF ProcInv

\* A migration commits.
LEMMA CommitStep ==
    ASSUME IInv, NEW p \in Procs, Commit(p)
    PROVE  ProcInv' /\ Repeated(db)' /\ db' = tx /\ UNCHANGED tx
<1>0. /\ pc = [q \in Procs |-> pc[q]]
      /\ schemaVersion \in [Procs -> Nat]
      /\ db.version \in Nat
      /\ Last \in [Procs -> Nat]
      /\ Nobody \notin Procs
      /\ ProcInv
  BY Zenon, MigrateAssumption DEF IInv, TypeOK, Database, ProcInv
<1>1. /\ db' = tx /\ lock' = Nobody
      /\ UNCHANGED <<tx, result, ctxDone>>
      /\ pc[p] = "commit"
      /\ \/ /\ pc' = [pc EXCEPT ![p] = "fkOn"]
            /\ UNCHANGED schemaVersion
         \/ /\ pc' = [pc EXCEPT ![p] = "loop"]
            /\ schemaVersion' = [schemaVersion EXCEPT ![p] = @ + 1]
  BY Zenon DEF Commit, CommitTx, Goto
<1>2. /\ lock = p
      /\ tx.app = db.app
      /\ tx.version = db.version + 1
      /\ tx.version = Last[p] => tx.repeated = tx.version
      /\ schemaVersion[p] = db.version
      /\ schemaVersion[p] < Last[p]
      /\ AppID[p] # 0 => db.app = AppID[p]
      /\ result[p] = "ok" => db.version >= Last[p]
  BY Zenon, <1>0, <1>1
     DEF ProcInv, LockInv, TxInv, VersionInv, AppInv, SuccessIsCurrent
<1>3. /\ \/ pc'[p] = "fkOn" /\ schemaVersion'[p] = db.version
         \/ pc'[p] = "loop" /\ schemaVersion'[p] = db.version + 1
      /\ \A q \in Procs : q # p => /\ pc'[q] = pc[q]
                                   /\ schemaVersion'[q] = schemaVersion[q]
  BY Zenon, <1>0, <1>1, <1>2
<1>4. /\ db'.version = db.version + 1
      /\ db'.app = db.app
      /\ db'.version = Last[p] => db'.repeated = db'.version
  BY Zenon, <1>1, <1>2
<1>5. Repeated(db)'
  <2> SUFFICES ASSUME NEW r \in Procs, db'.version = Last[r],
                      \A q \in Procs : Last[q] <= Last[r]
               PROVE  db'.repeated = db'.version
    BY Zenon DEF Repeated
  <2>1. Last[p] <= Last[r] /\ Last[p] \in Nat /\ Last[r] \in Nat
    BY Zenon, <1>0
  <2> QED
    BY <1>0, <1>2, <1>4, <2>1
<1>6. ASSUME NEW q \in Procs, q # p
      PROVE  /\ pc'[q] \notin {"check", "appEnd", "version", "script", "repeat",
                               "commit"}
             /\ pc'[q] \in {"prepare", "loop", "begin"}
                   => schemaVersion'[q] <= db'.version
             /\ pc'[q] = "fkOn" => schemaVersion'[q] < db'.version
             /\ pc'[q] \in {"begin", "fkOn"} => schemaVersion'[q] < Last[q]
             /\ pc'[q] \in {"prepare", "loop", "begin", "fkOn"} /\ AppID[q] # 0
                   => db'.app = AppID[q]
             /\ result'[q] = "ok" => db'.version >= Last[q]
  <2>1. db'.version >= db.version /\ db'.version \in Nat
    BY <1>0, <1>4
  <2> QED
    BY <1>0, <1>1, <1>2, <1>3, <1>4, <1>6, <2>1, CommitFrame
<1>7. LockInv' /\ TxInv'
  BY Zenon, <1>0, <1>1, <1>3, <1>6 DEF LockInv, TxInv
<1>8. VersionInv'
  BY <1>0, <1>2, <1>3, <1>4, <1>6 DEF VersionInv
<1>9. AppInv'
  BY Zenon, <1>2, <1>3, <1>4, <1>6 DEF AppInv
<1>10. SuccessIsCurrent'
  BY <1>0, <1>1, <1>2, <1>4, <1>6 DEF SuccessIsCurrent
<1> QED
  BY Zenon, <1>1, <1>5, <1>7, <1>8, <1>9, <1>10 DEF ProcInv
-----------------------------------------------------------------------------
\* The invariant holds initially and every step keeps it.
THEOREM Invariance == Spec => []IInv
<1>1. Init => IInv
  <2> SUFFICES ASSUME Init PROVE IInv
    BY Zenon
  <2>1. /\ <<>> \in Seq(Nat \X Nat) /\ Len(<<>>) = 0
    OBVIOUS
  <2>2. TypeOK
    BY Zenon, <2>1, MigrateAssumption DEF Init, TypeOK, Database
  <2>3. LockInv /\ TxInv /\ VersionInv /\ AppInv /\ SuccessIsCurrent
    BY Zenon DEF Init, LockInv, TxInv, VersionInv, AppInv, SuccessIsCurrent
  <2>4. Ordered(db) /\ Ordered(tx) /\ Pure(db) /\ Pure(tx) /\ Repeated(db)
    BY <2>1 DEF Init, Ordered, Pure, Repeated
  <2> QED
    BY Zenon, <2>2, <2>3, <2>4 DEF IInv
<1>2. IInv /\ [Next]_vars => IInv'
  <2> SUFFICES ASSUME IInv, [Next]_vars PROVE IInv'
    BY Zenon
  <2>0. TypeOK'
    BY Zenon, TypeStep DEF IInv
  <2>1. CASE UNCHANGED vars \/ Finished
    <3>1. UNCHANGED <<db, tx, lock, pc, result, schemaVersion, ctxDone>>
      BY Zenon, <2>1 DEF Finished, vars, dbVars, localVars
    <3> QED
      BY Zenon, <2>0, <3>1 DEF IInv, LockInv, TxInv, VersionInv, AppInv,
                        SuccessIsCurrent, Ordered, Pure, Repeated
  <2>2. ASSUME NEW p \in Procs, Proc(p) PROVE IInv'
    <3>1. \/ Quiet(p) \/ AppBegin(p) \/ Begin(p) \/ AppCheck(p)
          \/ AppCommit(p) \/ Script(p) \/ RepeatableMigration(p) \/ Commit(p)
      BY Zenon, <2>2 DEF Proc, Step, Quiet
    <3>2. Ordered(db) /\ Ordered(tx) /\ Pure(db) /\ Pure(tx) /\ Repeated(db)
      BY Zenon DEF IInv
    <3>3. CASE Quiet(p)
      BY Zenon, <2>0, <3>2, <3>3, QuietStep
         DEF IInv, ProcInv, Ordered, Pure, Repeated
    <3>4. CASE AppBegin(p) \/ Begin(p)
      BY Zenon, <2>0, <3>2, <3>4, BeginStep
         DEF IInv, ProcInv, Ordered, Pure, Repeated
    <3>5. CASE AppCheck(p)
      BY Zenon, <2>0, <3>2, <3>5, AppCheckStep
         DEF IInv, ProcInv, Ordered, Pure, Repeated
    <3>6. CASE AppCommit(p)
      BY Zenon, <2>0, <3>2, <3>6, AppCommitStep DEF IInv, ProcInv, Ordered, Pure
    <3>7. CASE Script(p)
      BY Zenon, <2>0, <3>2, <3>7, ScriptStep
         DEF IInv, ProcInv, Ordered, Pure, Repeated
    <3>8. CASE RepeatableMigration(p)
      BY Zenon, <2>0, <3>2, <3>8, RepeatStep
         DEF IInv, ProcInv, Ordered, Pure, Repeated
    <3>9. CASE Commit(p)
      BY Zenon, <2>0, <3>2, <3>9, CommitStep DEF IInv, ProcInv, Ordered, Pure
    <3> QED
      BY Zenon, <3>1, <3>3, <3>4, <3>5, <3>6, <3>7, <3>8, <3>9
  <2> QED
    BY Zenon, <2>1, <2>2 DEF Next
<1> QED
  BY <1>1, <1>2, PTL DEF Spec

\* Every reachable state of the database and the processes is well typed.
THEOREM TypeInvariance == Spec => []TypeOK
<1>1. IInv => TypeOK
  BY Zenon DEF IInv
<1> QED
  BY <1>1, Invariance, PTL

\* However many processes migrate one database at once, crash or are
\* cancelled, every script is committed exactly once and in order, and
\* user_version counts them.
THEOREM MigratedOnce == Spec => []AppliedOnce
<1>1. IInv => AppliedOnce
  BY Zenon DEF IInv, Ordered, AppliedOnce
<1> QED
  BY <1>1, Invariance, PTL

\* A process with an AppID only changes a database that carries it.
THEOREM AppIsolation == Spec => []AppsDoNotMix
<1>1. IInv => AppsDoNotMix
  BY Zenon DEF IInv, Pure, AppsDoNotMix
<1> QED
  BY <1>1, Invariance, PTL

\* The last migration and the repeatable migration are committed together.
THEOREM RepeatableIsAtomic == Spec => []RepeatedWithLast
<1>1. IInv => RepeatedWithLast
  BY Zenon DEF IInv, Repeated, RepeatedWithLast
<1> QED
  BY <1>1, Invariance, PTL

\* Migrate returns nil only for a database that has all the migrations.
THEOREM SuccessMeansMigrated == Spec => []SuccessIsCurrent
<1>1. IInv => SuccessIsCurrent
  BY Zenon DEF IInv
<1> QED
  BY <1>1, Invariance, PTL

\* A call whose context has not ended returns a connection in autocommit mode.
THEOREM NoTransactionLeft == Spec => ReturnsInAutocommit
<1>1. IInv /\ [Next]_vars =>
         [\A p \in Procs :
             pc[p] # "idle" /\ pc'[p] = "idle" /\ ~ctxDone[p] /\ lock' = p
                 => lock = p /\ pc[p] = "app"]_vars
  <2> SUFFICES ASSUME IInv, Next, NEW p \in Procs,
                      pc[p] # "idle", pc'[p] = "idle", ~ctxDone[p], lock' = p
               PROVE  lock = p /\ pc[p] = "app"
    BY Zenon
  <2>1. /\ pc = [q \in Procs |-> pc[q]]
        /\ Nobody \notin Procs
        /\ LockInv
    BY Zenon, MigrateAssumption DEF IInv, TypeOK
  <2>2. PICK q \in Procs : Proc(q)
    BY Zenon DEF Next, Finished, vars
  <2>3. q = p
    BY Zenon, <2>1, <2>2 DEF Proc, Step, Call, CtxEnds, AppBegin, AppCheck, AppCommit,
       AppFails, Prepare, LoopEnds, LoopNext, Begin, VersionMatches,
       VersionDiffers, Script, RepeatableMigration, Commit, ForeignKeysOn,
       FailsOutside, FailsInside, Reopen, Crash, Goto, Return
  <2>4. \/ AppFails(p) \/ LoopEnds(p) \/ FailsOutside(p) \/ FailsInside(p)
        \/ Crash(p)
    BY Zenon, <2>1, <2>2, <2>3 DEF Proc, Step, Call, CtxEnds, AppBegin, AppCheck,
       AppCommit, Prepare, LoopNext, Begin, VersionMatches, VersionDiffers,
       Script, RepeatableMigration, Commit, ForeignKeysOn, Reopen, Goto
  <2> QED
    BY Zenon, <2>1, <2>4 DEF AppFails, LoopEnds, FailsOutside, FailsInside, Crash,
       Rollback, RollbackTx, dbVars, LockInv
<1> QED
  BY <1>1, Invariance, PTL DEF Spec, ReturnsInAutocommit

(***************************************************************************)
(* MigrationPool, for any clients, callers of Close and connections.  The  *)
(* invariant says what the opener has done at each of its locations        *)
(* (Phase), and that clients and callers of Close touch the sqlitex.Pool   *)
(* only after it was published.                                            *)
(***************************************************************************)


\* No connection is open.
NoneOpen == \A c \in Conns : owner[c] \in {"unopened", "closed"}

\* The connections while the opener is the only user of the sqlitex.Pool.
OpenersOnly == \A c \in Conns : owner[c] \in {"free", Opener}

\* What holds before the opener is done.
Pending == outcome = "none" /\ ~ready /\ onReady = 0

\* What the opener has done so far, by its location.
Phase ==
    /\ opener \in {"open", "select"} =>
          Pending /\ onStart = 0 /\ \A c \in Conns : owner[c] = "unopened"
    /\ opener \in {"take", "ensure"} => Pending /\ onStart = 0 /\ OpenersOnly
    /\ opener = "migrate" => Pending /\ onStart = 1 /\ OpenersOnly
    /\ opener = "putOk" => Pending /\ onStart = 1 /\ OpenersOnly /\ migrated
    /\ opener \in {"putErr", "close"} => Pending /\ onStart <= 1 /\ OpenersOnly
    /\ opener = "closing" =>
          /\ Pending
          /\ onStart <= 1
          /\ \A c \in Conns : owner[c] \in {"free", "closed", Opener}
    /\ opener \in {"publish", "done"} =>
          /\ \/ outcome = "pool" /\ onStart = 1 /\ onReady = 1 /\ migrated
             \/ outcome = "error" /\ onStart <= 1 /\ onReady = 0 /\ NoneOpen
          /\ ready => opener = "done"

\* Who uses the published pool.
UserInv ==
    /\ \A g \in Clients :
          client[g] \in {"take", "holding"} => ready /\ outcome = "pool"
    /\ \A g \in Clients, c \in Conns : owner[c] = g => client[g] = "holding"
    /\ \A g \in Clients, c, d \in Conns : owner[c] = g /\ owner[d] = g => c = d
    /\ \A k \in Closers :
          /\ closer[k] \in {"shut", "retire"} => ready /\ outcome = "pool"
          /\ closer[k] = "returned" => ready /\ NoneOpen

PoolInv == MigrationPoolTypeOK /\ Phase /\ UserInv /\ HealthyIsMigrated
-----------------------------------------------------------------------------
\* No goroutine is mistaken for a state of a connection.
LEMMA OpenerIsNoClient ==
    /\ Opener \notin {"unopened", "free", "closed"}
    /\ \A g \in Clients : g \notin {"unopened", "free", "closed", Opener}
BY Zenon, MigrationPoolAssumption

\* The steps of the opener.
LEMMA OpenerKeeps ==
    ASSUME PoolInv, OpenerStep
    PROVE  PoolInv'
<1> USE OpenerIsNoClient
    DEF PoolInv, MigrationPoolTypeOK, Phase, UserInv, HealthyIsMigrated, Pending, NoneOpen, OpenersOnly,
        poolVars, openVars, At, Lease!Lend, Lease!Return, Lease!Give, Lease!Shut, Lease!Retire
<1>1. CASE OpenSucceeds
  BY Zenon, <1>1 DEF OpenSucceeds
<1>2. CASE OpenFails
  BY <1>2 DEF OpenFails
<1>3. CASE Retry
  BY <1>3 DEF Retry
<1>4. CASE Cancelled
  BY <1>4 DEF Cancelled
<1>5. CASE OpenerTakes
  BY <1>5 DEF OpenerTakes
<1>6. CASE OpenerTakeFails
  BY <1>6 DEF OpenerTakeFails
<1>7. CASE MigrateStarts
  BY <1>7 DEF MigrateStarts
<1>8. CASE MigrateSucceeds
  BY <1>8 DEF MigrateSucceeds
<1>9. CASE MigrateFails
  BY <1>9 DEF MigrateFails
<1>10. CASE OpenerPuts
  BY <1>10 DEF OpenerPuts
<1>11. CASE OpenerPutsBack
  BY <1>11 DEF OpenerPutsBack
<1>12. CASE OpenerShuts
  BY <1>12 DEF OpenerShuts
<1>13. CASE OpenerRetires
  BY <1>13 DEF OpenerRetires
<1>14. CASE OpenerClosed
  BY <1>14 DEF OpenerClosed
<1>15. CASE Publish
  BY <1>15 DEF Publish
<1> QED
  BY Zenon, <1>1, <1>2, <1>3, <1>4, <1>5, <1>6, <1>7, <1>8, <1>9, <1>10, <1>11, <1>12,
     <1>13, <1>14, <1>15
     DEF OpenerStep

\* The steps of Take and Put.
LEMMA ClientKeeps ==
    ASSUME PoolInv, NEW g \in Clients, ClientStep(g)
    PROVE  PoolInv'
<1> USE OpenerIsNoClient
    DEF PoolInv, MigrationPoolTypeOK, Phase, UserInv, HealthyIsMigrated, Pending, NoneOpen, OpenersOnly,
        poolVars, openVars, At, Lease!Lend, Lease!Return, Lease!Give, Lease!Shut, Lease!Retire
<1>1. CASE TakeCall(g)
  BY <1>1 DEF TakeCall
<1>2. CASE Signal(g)
  BY <1>2 DEF Signal
<1>3. CASE Tick(g)
  BY <1>3 DEF Tick
<1>4. CASE TakeReady(g)
  BY <1>4 DEF TakeReady
<1>5. CASE TakeCtxDone(g)
  BY <1>5 DEF TakeCtxDone
<1>6. CASE InnerTake(g)
  BY <1>6 DEF InnerTake
<1>7. CASE InnerTakeFails(g)
  BY <1>7 DEF InnerTakeFails
<1>8. CASE Put(g)
  BY <1>8 DEF Put
<1> QED
  BY Zenon, <1>1, <1>2, <1>3, <1>4, <1>5, <1>6, <1>7, <1>8
     DEF ClientStep

\* The steps of Close.
LEMMA CloserKeeps ==
    ASSUME PoolInv, NEW k \in Closers, CloserStep(k)
    PROVE  PoolInv'
<1> USE OpenerIsNoClient
    DEF PoolInv, MigrationPoolTypeOK, Phase, UserInv, HealthyIsMigrated, Pending, NoneOpen, OpenersOnly,
        poolVars, openVars, At, Lease!Lend, Lease!Return, Lease!Give, Lease!Shut, Lease!Retire
<1>1. CASE CloseCall(k)
  BY <1>1 DEF CloseCall
<1>2. CASE CloseCancel(k)
  BY <1>2 DEF CloseCancel
<1>3. CASE CloseAwaits(k)
  BY <1>3 DEF CloseAwaits
<1>4. CASE CloseShuts(k)
  BY <1>4 DEF CloseShuts
<1>5. CASE CloseRetires(k)
  BY <1>5 DEF CloseRetires
<1>6. CASE CloseReturns(k)
  BY <1>6 DEF CloseReturns
<1> QED
  BY Zenon, <1>1, <1>2, <1>3, <1>4, <1>5, <1>6
     DEF CloserStep

\* The steps of CheckHealth.
LEMMA HealthKeeps ==
    ASSUME PoolInv, HealthCall \/ HealthReport
    PROVE  PoolInv'
<1> USE OpenerIsNoClient
    DEF PoolInv, MigrationPoolTypeOK, Phase, UserInv, HealthyIsMigrated, Pending, NoneOpen, OpenersOnly,
        poolVars, openVars, At, Lease!Lend, Lease!Return, Lease!Give, Lease!Shut, Lease!Retire
<1>1. CASE HealthCall
  BY <1>1 DEF HealthCall
<1>2. CASE HealthReport
  BY <1>2 DEF HealthReport
<1> QED
  BY Zenon, <1>1, <1>2

-----------------------------------------------------------------------------
\* The invariant holds initially and every step keeps it.
THEOREM PoolInvariance == MigrationPoolSpec => []PoolInv
<1>1. MigrationPoolInit => PoolInv
  <2> SUFFICES ASSUME MigrationPoolInit PROVE PoolInv
    BY Zenon
  <2>1. \A c \in Conns : owner[c] = "unopened"
    BY Zenon DEF MigrationPoolInit, Lease!Init
  <2>2. MigrationPoolTypeOK
    <3>1. retry \in 0 .. 1 /\ onStart \in Nat /\ onReady \in Nat
      BY DEF MigrationPoolInit
    <3>2. owner \in [Conns -> Clients \cup {Opener, "unopened", "free", "closed"}]
      BY Zenon DEF MigrationPoolInit, Lease!Init
    <3> QED
      BY Zenon, <3>1, <3>2 DEF MigrationPoolInit, Lease!Init, MigrationPoolTypeOK
  <2>3. Phase /\ HealthyIsMigrated
    BY Zenon, <2>1 DEF MigrationPoolInit, Phase, Pending, HealthyIsMigrated
  <2>4. UserInv
    BY Zenon, <2>1, OpenerIsNoClient DEF MigrationPoolInit, UserInv
  <2> QED
    BY Zenon, <2>2, <2>3, <2>4 DEF PoolInv
<1>2. PoolInv /\ [MigrationPoolNext]_mpvars => PoolInv'
  <2> SUFFICES ASSUME PoolInv, [MigrationPoolNext]_mpvars PROVE PoolInv'
    BY Zenon
  <2>1. CASE UNCHANGED mpvars
    BY <2>1 DEF mpvars, poolVars, openVars, PoolInv, MigrationPoolTypeOK, Phase, UserInv,
       HealthyIsMigrated, Pending, NoneOpen, OpenersOnly
  <2> QED
    BY Zenon, <2>1, OpenerKeeps, ClientKeeps, CloserKeeps, HealthKeeps DEF MigrationPoolNext
<1> QED
  BY <1>1, <1>2, PTL DEF MigrationPoolSpec

\* Every reachable state of the migration pool is well typed; in particular
\* the retry channel never exceeds its capacity.
THEOREM PoolTypes == MigrationPoolSpec => []MigrationPoolTypeOK
<1>1. PoolInv => MigrationPoolTypeOK
  BY Zenon DEF PoolInv
<1> QED
  BY <1>1, PoolInvariance, PTL

\* Clients only ever have connections of a migrated database, so that Put does
\* not panic.
THEOREM NoEarlyUse == MigrationPoolSpec => []UsedAfterMigration
<1>1. PoolInv => UsedAfterMigration
  BY OpenerIsNoClient
     DEF PoolInv, MigrationPoolTypeOK, Phase, UserInv, UsedAfterMigration, Pending
<1> QED
  BY <1>1, PoolInvariance, PTL

\* OnStartMigrate and OnReady are called at most once, in order.
THEOREM SignalProtocol == MigrationPoolSpec => []SignalsOnce
<1>1. PoolInv => SignalsOnce
  BY DEF PoolInv, MigrationPoolTypeOK, Phase, SignalsOnce, Pending
<1> QED
  BY <1>1, PoolInvariance, PTL

\* A pool that Pool.open gives up is closed on every path.
THEOREM NoConnectionLeak == MigrationPoolSpec => []FailedPoolIsClosed
<1>1. PoolInv => FailedPoolIsClosed
  BY Zenon DEF PoolInv, MigrationPoolTypeOK, Phase, FailedPoolIsClosed, Pending, NoneOpen
<1> QED
  BY <1>1, PoolInvariance, PTL

\* When Close has returned, nothing is open and nothing will be.
THEOREM CloseIsComplete == MigrationPoolSpec => []ClosedForGood
<1>1. PoolInv => ClosedForGood
  BY Zenon DEF PoolInv, MigrationPoolTypeOK, Phase, UserInv, ClosedForGood, Pending, NoneOpen
<1> QED
  BY <1>1, PoolInvariance, PTL

\* So no connection outlives the pool.
THEOREM NoneIsLeftOpen == MigrationPoolSpec => []NothingLeftOpen
<1>1. FailedPoolIsClosed /\ ClosedForGood => NothingLeftOpen
  BY Zenon DEF NothingLeftOpen
<1> QED
  BY <1>1, NoConnectionLeak, CloseIsComplete, PTL

\* A pool that CheckHealth reports healthy has been migrated.
THEOREM HealthIsTruthful == MigrationPoolSpec => []HealthyIsMigrated
<1>1. PoolInv => HealthyIsMigrated
  BY Zenon DEF PoolInv
<1> QED
  BY <1>1, PoolInvariance, PTL
-----------------------------------------------------------------------------
(***************************************************************************)
(* The objects of the session extension.                                   *)
(***************************************************************************)

\* What the fields of a Go object can be: all that its constructor sets, or
\* nothing.
Whole(kind, has) ==
    \/ has = {}
    \/ kind = "session" /\ has = {"ptr"}
    \/ kind = "iter" /\ has = Resources
    \/ kind = "group" /\ has = {"tls", "ptr"}

Complete ==
    \A x \in Handles :
       /\ Whole(handle[x].kind, handle[x].has)
       /\ handle[x].kind = "none" => handle[x].has = {}

SessionInv == SessionTypeOK /\ Complete /\ NothingLeaks

\* A call that keeps the books of one object: it allocates what is missing,
\* frees what is there, and the fields name what is left.
LEMMA Balanced ==
    ASSUME SessionInv, NEW x \in Handles,
           NEW kind \in {"none", "session", "iter", "group"},
           NEW fields \in SUBSET Resources,
           NEW new \in SUBSET Resources, NEW old \in SUBSET Resources,
           Fields(x, kind, fields), Alloc(x, new, old),
           \/ new \cap handle[x].has = {} /\ old \subseteq new \cup handle[x].has
              /\ fields = (handle[x].has \cup new) \ old,
           recording' \subseteq Handles, panicked' \in BOOLEAN,
           Whole(kind, fields), kind = "none" => fields = {}
    PROVE  SessionInv'
<1>1. /\ handle' = [handle EXCEPT ![x] = [kind |-> kind, has |-> fields]]
      /\ handle'[x].kind = kind /\ handle'[x].has = fields
  BY Zenon DEF Fields, SessionInv, SessionTypeOK
<1>2. \A y \in Handles \ {x} : handle'[y] = handle[y] /\ inC'[y] = inC[y]
  BY Zenon DEF Fields, Alloc, SessionInv, SessionTypeOK
<1>3. \A r \in Resources : inC'[x][r] = IF r \in fields THEN 1 ELSE 0
  <2> TAKE r \in Resources
  <2>1. inC[x][r] = IF r \in handle[x].has THEN 1 ELSE 0
    BY Zenon DEF SessionInv, NothingLeaks
  <2>2. inC'[x][r] = (inC[x][r] + (IF r \in new THEN 1 ELSE 0))
                     - (IF r \in old THEN 1 ELSE 0)
    BY Zenon DEF Alloc, SessionInv, SessionTypeOK
  <2> QED BY <2>1, <2>2
<1>4. NothingLeaks'
  <2>1. ASSUME NEW y \in Handles, NEW r \in Resources
        PROVE  inC'[y][r] = IF r \in handle'[y].has THEN 1 ELSE 0
    <3>1. CASE y = x BY Zenon, <1>1, <1>3, <3>1
    <3>2. CASE y # x BY SMTT(20), <1>2, <3>2 DEF SessionInv, NothingLeaks
    <3> QED BY Zenon, <3>1, <3>2
  <2> QED BY Zenon, <2>1 DEF NothingLeaks
<1>5. Complete'
  BY SMTT(20), <1>1, <1>2 DEF Complete, Whole, SessionInv
<1>6. SessionTypeOK'
  <2>1. handle' \in [Handles -> [kind : {"none", "session", "iter", "group"},
                               has : SUBSET Resources]]
    BY Zenon, <1>1 DEF SessionInv, SessionTypeOK
  <2>2. inC'[x] \in [Resources -> Nat]
    BY <1>3 DEF Alloc, SessionInv, SessionTypeOK
  <2>3. inC' \in [Handles -> [Resources -> Nat]]
    BY Zenon, <1>2, <2>2 DEF Alloc, SessionInv, SessionTypeOK
  <2> QED BY Zenon, <2>1, <2>3 DEF SessionTypeOK
<1> QED BY Zenon, <1>4, <1>5, <1>6 DEF SessionInv

\* A call that changes no object keeps the invariant.
LEMMA SessionKept ==
    ASSUME SessionInv, UNCHANGED <<handle, inC>>,
           recording' \subseteq Handles, panicked' \in BOOLEAN
    PROVE  SessionInv'
BY Zenon DEF SessionInv, SessionTypeOK, Complete, NothingLeaks

\* Whatever fails in the calls of Session, ChangesetIterator and Changegroup, what
\* exists in C is what the fields of the Go objects name, once each.
THEOREM SessionHoldsNoMore == SessionSpec => []NothingLeaks
<1>1. SessionInit => SessionInv
  <2> SUFFICES ASSUME SessionInit PROVE SessionInv BY Zenon
  <2>1. handle = [x \in Handles |-> [kind |-> "none", has |-> {}]]
    BY Zenon DEF SessionInit, NoHandle
  <2>2. handle \in [Handles -> [kind : {"none", "session", "iter", "group"},
                               has : SUBSET Resources]]
    BY Zenon, <2>1
  <2>3. inC = [x \in Handles |-> [r \in Resources |-> 0]]
    BY Zenon DEF SessionInit
  <2> DEFINE zero == [r \in Resources |-> 0]
  <2>z. zero \in [Resources -> Nat] BY Zenon
  <2>4. SessionTypeOK
    <3>1. inC = [x \in Handles |-> zero] BY Zenon, <2>3
    <3> HIDE DEF zero
    <3>2. inC \in [Handles -> [Resources -> Nat]] BY Zenon, <3>1, <2>z
    <3> QED BY Zenon, <2>2, <3>2 DEF SessionInit, SessionTypeOK
  <2>5. Complete /\ NothingLeaks
    BY Zenon, <2>1, <2>3 DEF Complete, Whole, NothingLeaks
  <2> QED BY Zenon, <2>4, <2>5 DEF SessionInv
<1>2. ASSUME SessionInv, NEW x \in Handles,
             CreateSession(x) \/ DeleteSession(x) \/ UseSession(x)
             \/ (\E on \in BOOLEAN : SetEnabled(x, on))
      PROVE  SessionInv'
  <2> USE DEF InUse, Resources, Whole
  <2>t. recording \subseteq Handles /\ panicked \in BOOLEAN /\ handle[x].has \in SUBSET Resources
    BY Zenon, <1>2 DEF SessionInv, SessionTypeOK
  <2>1. CASE CreateSession(x)
    <3>1. handle[x].has = {} BY Zenon, <1>2, <2>1 DEF CreateSession, SessionInv, Complete
    <3> QED BY Zenon, <1>2, <2>1, <2>t, <3>1, Balanced DEF CreateSession
  <2>2. CASE DeleteSession(x)
    <3>1. handle[x].has \in {{}, {"ptr"}}
      BY Zenon, <1>2, <2>2 DEF DeleteSession, SessionInv, Complete
    <3>2. CASE "ptr" \in handle[x].has
      BY <1>2, <2>2, <2>t, <3>1, <3>2, Balanced DEF DeleteSession
    <3>3. CASE "ptr" \notin handle[x].has
      BY Zenon, <1>2, <2>2, <2>t, <3>3, SessionKept DEF DeleteSession
    <3> QED BY Zenon, <3>2, <3>3
  <2>3. CASE UseSession(x)
    BY Zenon, <1>2, <2>3, <2>t, SessionKept DEF UseSession, NoEffect
  <2>4. CASE \E on \in BOOLEAN : SetEnabled(x, on)
    BY Zenon, <1>2, <2>4, <2>t, SessionKept DEF SetEnabled
  <2> QED BY Zenon, <1>2, <2>1, <2>2, <2>3, <2>4
<1>3. ASSUME SessionInv, NEW x \in Handles,
             NewChangesetIterator(x) \/ NextChange(x) \/ CloseIterator(x)
      PROVE  SessionInv'
  <2> USE DEF InUse, Resources, Whole
  <2>t. recording \subseteq Handles /\ panicked \in BOOLEAN /\ handle[x].has \in SUBSET Resources
    BY Zenon, <1>3 DEF SessionInv, SessionTypeOK
  <2>1. CASE NewChangesetIterator(x)
    <3>1. handle[x].kind = "none" /\ handle[x].has = {}
      BY Zenon, <1>3, <2>1 DEF NewChangesetIterator, SessionInv, Complete
    <3>2. CASE Fields(x, "iter", Resources) /\ Alloc(x, Resources, {})
      BY Zenon, <1>3, <2>1, <2>t, <3>1, <3>2, Balanced DEF NewChangesetIterator
    <3>3. CASE UNCHANGED handle /\ Alloc(x, {"tls", "pIn"}, {"tls", "pIn"})
      <4>1. Fields(x, "none", {})
        BY Zenon, <1>3, <3>1, <3>3 DEF Fields, SessionInv, SessionTypeOK
      <4> QED
        BY Zenon, <1>3, <2>1, <2>t, <3>1, <3>3, <4>1, Balanced DEF NewChangesetIterator
    <3> QED BY Zenon, <2>1, <3>2, <3>3 DEF NewChangesetIterator
  <2>2. CASE NextChange(x)
    BY Zenon, <1>3, <2>2, <2>t, SessionKept DEF NextChange, NoEffect
  <2>3. CASE CloseIterator(x)
    <3>1. handle[x].has \in {{}, Resources}
      BY Zenon, <1>3, <2>3 DEF CloseIterator, SessionInv, Complete
    <3>2. CASE "ptr" \in handle[x].has
      BY Zenon, <1>3, <2>3, <2>t, <3>1, <3>2, Balanced DEF CloseIterator
    <3>3. CASE "ptr" \notin handle[x].has
      BY Zenon, <1>3, <2>3, <2>t, <3>3, SessionKept DEF CloseIterator
    <3> QED BY Zenon, <3>2, <3>3
  <2> QED BY Zenon, <1>3, <2>1, <2>2, <2>3
<1>4. ASSUME SessionInv, NEW x \in Handles,
             NewGroup(x) \/ AddToGroup(x) \/ ClearGroup(x) \/ WriteGroup(x)
      PROVE  SessionInv'
  <2> USE DEF InUse, Resources, Whole
  <2>t. recording \subseteq Handles /\ panicked \in BOOLEAN /\ handle[x].has \in SUBSET Resources
    BY Zenon, <1>4 DEF SessionInv, SessionTypeOK
  <2>i. ASSUME NEW ok \in BOOLEAN, handle[x].has \in {{}, {"tls", "ptr"}}
        PROVE  \/ /\ handle[x].has = {"tls", "ptr"}
                  /\ InitGroup(x, ok).new = {} /\ InitGroup(x, ok).has = {"tls", "ptr"}
               \/ /\ handle[x].has = {}
                  /\ InitGroup(x, ok).new = InitGroup(x, ok).has
                  /\ InitGroup(x, ok).has \in {{}, {"tls", "ptr"}}
    BY Zenon, <2>i DEF InitGroup
  <2>1. CASE NewGroup(x)
    <3>1. handle[x].kind = "none" /\ handle[x].has = {}
      BY Zenon, <1>4, <2>1 DEF NewGroup, SessionInv, Complete
    <3>2. CASE Fields(x, "group", {}) /\ UNCHANGED inC
      <4>1. Alloc(x, {}, {})
        BY <1>4, <3>2 DEF Alloc, SessionInv, SessionTypeOK
      <4> QED BY Zenon, <1>4, <2>1, <2>t, <3>1, <3>2, <4>1, Balanced DEF NewGroup
    <3>3. CASE Fields(x, "group", {"tls", "ptr"}) /\ Alloc(x, {"tls", "ptr"}, {})
      BY Zenon, <1>4, <2>1, <2>t, <3>1, <3>3, Balanced DEF NewGroup
    <3> QED BY Zenon, <2>1, <3>2, <3>3 DEF NewGroup
  <2>g. CASE AddToGroup(x) \/ ClearGroup(x) \/ WriteGroup(x)
    <3>1. handle[x].has \in {{}, {"tls", "ptr"}}
      BY Zenon, <1>4, <2>g DEF AddToGroup, ClearGroup, WriteGroup, SessionInv, Complete
    <3>2. CASE AddToGroup(x)
      <4>1. PICK ok \in BOOLEAN :
              Fields(x, "group", InitGroup(x, ok).has) /\ Alloc(x, InitGroup(x, ok).new, {})
        BY Zenon, <3>2 DEF AddToGroup
      <4> DEFINE i == InitGroup(x, ok)
      <4>2. \/ i.new = {} /\ i.has = handle[x].has
            \/ i.new = i.has /\ handle[x].has = {}
        BY <2>i, <3>1
      <4>3. /\ i.new \in SUBSET Resources /\ i.has \in {{}, {"tls", "ptr"}}
            /\ UNCHANGED <<recording, panicked>>
        BY Zenon, <2>i, <3>1, <3>2 DEF AddToGroup
      <4> HIDE DEF i
      <4> QED BY SMTT(20), <1>4, <2>t, <4>1, <4>2, <4>3, Balanced DEF i
    <3>3. CASE ClearGroup(x)
      BY ZenonT(30), <1>4, <2>t, <3>1, <3>3, Balanced DEF ClearGroup
    <3>4. CASE WriteGroup(x)
      <4>1. CASE "ptr" \in handle[x].has
        BY Zenon, <1>4, <2>t, <3>4, <4>1, SessionKept DEF WriteGroup
      <4>2. CASE "ptr" \notin handle[x].has
        <5>1. PICK ok \in BOOLEAN :
                /\ Fields(x, "group", {})
                /\ Alloc(x, InitGroup(x, ok).new, InitGroup(x, ok).has)
          BY Zenon, <3>4, <4>2 DEF WriteGroup
        <5> DEFINE i == InitGroup(x, ok)
        <5>2. i.new = i.has /\ handle[x].has = {} /\ i.new \in SUBSET Resources
          BY Zenon, <2>i, <3>1, <4>2
        <5>3. UNCHANGED <<recording, panicked>> BY Zenon, <3>4 DEF WriteGroup
        <5> HIDE DEF i
        <5> QED BY Zenon, <1>4, <2>t, <5>1, <5>2, <5>3, Balanced DEF i
      <4> QED BY Zenon, <4>1, <4>2
    <3> QED BY Zenon, <2>g, <3>2, <3>3, <3>4
  <2> QED BY Zenon, <1>4, <2>1, <2>g
<1>5. ASSUME SessionInv, UNCHANGED sessionvars PROVE SessionInv'
  BY Zenon, <1>5, SessionKept DEF sessionvars, SessionInv, SessionTypeOK
<1>6. SessionInv /\ [SessionNext]_sessionvars => SessionInv'
  BY Zenon, <1>2, <1>3, <1>4, <1>5 DEF SessionNext
<1>7. SessionInv => NothingLeaks BY Zenon DEF SessionInv
<1> QED BY <1>1, <1>6, <1>7, PTL DEF SessionSpec
=============================================================================
