------------------------- MODULE BlockingStepProofs -------------------------
(***************************************************************************)
(* Proofs about BlockingStep, for any number of connections and tables.    *)
(***************************************************************************)
EXTENDS BlockingStep, TLAPS

\* Who owns SQLite's global mutex, and which notes its owner may touch.
MutexInv ==
    /\ \A c \in Conns : pc[c] = "notifying" <=> mutex = c
    /\ mutex = None => todo = {}
    /\ firing # None => firing \in todo
    /\ \A c \in Conns :
          pc[c] = "notifying" => after[c] \in {"idle", "check", "freeing"}
    /\ \A c \in Conns : pc[c] = "unlocking" => after[c] \in {"idle", "freeing"}

\* The life of a note: Close has joined the watcher long before the note is
\* freed, and a freed note is registered nowhere.
NoteInv ==
    \A c \in Conns :
        /\ freed[c] => pc[c] = "closed"
        /\ pc[c] \in {"freeing", "closed"} => watcher[c] = "none"
        /\ pc[c] \in {"unlocking", "notifying"} /\ after[c] = "freeing"
              => watcher[c] = "none"
        /\ pc[c] = "closed" => unlockOn[c] = None /\ c \notin todo

\* Whoever a connection waits for is in a transaction, or is just ending it.
WaitInv ==
    \A c \in Conns :
        /\ blocking[c] # None =>
              Held(blocking[c]) # {} \/ pc[blocking[c]] = "unlocking"
        /\ unlockOn[c] # None =>
              Held(unlockOn[c]) # {} \/ pc[unlockOn[c]] = "unlocking"

\* Between sqlite3_unlock_notify and the end of waitForUnlockNotify.
Waiting(c) ==
    \/ pc[c] \in {"check", "blocked"}
    \/ pc[c] = "notifying" /\ after[c] = "check"

\* What keeps a waiter from sleeping for ever: from its registration until it
\* wakes, it is registered, or about to be called back, or fired.
WakeInv ==
    \A c \in Conns :
        /\ fired[c] /\ waitLocked[c] =>
              firing = c \/ watcher[c] = "release" \/ pc[c] = "clear"
        /\ Waiting(c) => unlockOn[c] # None \/ c \in todo \/ fired[c]
        /\ Waiting(c) /\ firing = c => fired[c]

\* A connection whose application never installs a doneCh: its note is fired
\* only by the callback it has registered, and only while it waits.
PlainInv ==
    \A c \in Conns \ Interruptible :
        /\ watcher[c] = "none"
        /\ ~fired[c] => waitLocked[c]
        /\ pc[c] = "clear" => waitLocked[c]
        /\ pc[c] = "register" => ~fired[c]
        /\ mu[c] <=> firing = c
        /\ firing = c => waitLocked[c]
        /\ unlockOn[c] # None => Waiting(c) /\ ~fired[c] /\ c \notin todo
        /\ c \in todo => Waiting(c) /\ (fired[c] => firing = c)

\* A waiter whose blocker is still there is registered with that blocker, not
\* with one of an earlier, interrupted wait.
RegisteredInv ==
    \A c \in Conns :
        Waiting(c) /\ blocking[c] # None => unlockOn[c] = blocking[c]

\* The registrations form no circle: every set of connections has one that is
\* not registered within the set.
AcyclicInv ==
    \A S \in SUBSET Conns : S # {} => \E c \in S : unlockOn[c] \notin S

IInv == TypeOK /\ MutexInv /\ NoteInv /\ WaitInv /\ WakeInv /\ PlainInv
        /\ NoStaleInterrupt /\ RegisteredInv /\ AcyclicInv
-----------------------------------------------------------------------------
\* Every step keeps every field of the connections, their notes and SQLite's
\* lock table in its type.
LEMMA TypeStep ==
    TypeOK /\ [Next]_vars
        => TypeOK'
<1> SUFFICES ASSUME TypeOK, [Next]_vars
             PROVE  TypeOK'
    BY Zenon
<1> USE ConnsAssumption DEF TypeOK, Locations, WatcherLocations, Goto, Move,
       vars, noteVars, watchVars, sqliteVars, mutexVars
<1>1. ASSUME NEW c \in Conns, ConnNext(c), UNCHANGED crashed
      PROVE  TypeOK'
  <2> USE <1>1
  <2>1. ASSUME NEW t \in Tables, StepCall(c, t) PROVE TypeOK'
    BY Zenon, <2>1 DEF StepCall
  <2>2. ASSUME StepTest(c) PROVE TypeOK'
    BY Zenon, <2>2 DEF StepTest
  <2>3. ASSUME SqliteStep(c) PROVE TypeOK'
    BY <2>3 DEF SqliteStep
  <2>4. ASSUME RunDone(c) PROVE TypeOK'
    BY Zenon, <2>4 DEF RunDone
  <2>5. ASSUME RunInterrupted(c) PROVE TypeOK'
    BY Zenon, <2>5 DEF RunInterrupted
  <2>6. ASSUME ReadFired(c) PROVE TypeOK'
    BY Zenon, <2>6 DEF ReadFired
  <2>7. ASSUME Relock(c) PROVE TypeOK'
    BY Zenon, <2>7 DEF Relock
  <2>8. ASSUME ClearFired(c) PROVE TypeOK'
    BY Zenon, <2>8 DEF ClearFired
  <2>9. ASSUME UnlockNotify(c) PROVE TypeOK'
    BY <2>9 DEF UnlockNotify
  <2>10. ASSUME CheckFired(c) PROVE TypeOK'
    BY Zenon, <2>10 DEF CheckFired
  <2>11. ASSUME Wake(c) PROVE TypeOK'
    BY Zenon, <2>11 DEF Wake
  <2>12. ASSUME EndTransaction(c) PROVE TypeOK'
    BY Zenon, <2>12 DEF EndTransaction
  <2>13. ASSUME ConnectionUnlocked(c) PROVE TypeOK'
    BY Zenon, <2>13 DEF ConnectionUnlocked
  <2>14. ASSUME NEW d \in Conns, CallbackFire(c, d) PROVE TypeOK'
    <3>1. CASE fired[d] BY Zenon, <2>14, <3>1 DEF CallbackFire
    <3>2. CASE ~fired[d]
      <4>1. fired' = [fired EXCEPT ![d] = TRUE] /\ mu' = [mu EXCEPT ![d] = TRUE]
        BY Zenon, <2>14, <3>2 DEF CallbackFire
      <4>2. fired' \in [Conns -> BOOLEAN] /\ mu' \in [Conns -> BOOLEAN]
        BY Zenon, <4>1
      <4> QED BY Zenon, <2>14, <3>2, <4>2 DEF CallbackFire
    <3> QED BY Zenon, <3>1, <3>2
  <2>15. ASSUME CallbackRelease(c) PROVE TypeOK'
    BY Zenon, <2>15 DEF CallbackRelease
  <2>16. ASSUME LeaveMutex(c) PROVE TypeOK'
    BY Zenon, <2>16 DEF LeaveMutex
  <2>17. ASSUME NEW ch \in {"nil", "open", "closed"}, SetInterrupt(c, ch)
         PROVE TypeOK'
    BY Zenon, <2>17 DEF SetInterrupt
  <2>18. ASSUME CloseDoneCh(c) PROVE TypeOK'
    BY Zenon, <2>18 DEF CloseDoneCh
  <2>19. ASSUME WatcherSelect(c) PROVE TypeOK'
    BY Zenon, <2>19 DEF WatcherSelect
  <2>20. ASSUME WatcherInterrupt(c) PROVE TypeOK'
    BY Zenon, <2>20 DEF WatcherInterrupt
  <2>21. ASSUME WatcherFire(c) PROVE TypeOK'
    <3>1. CASE fired[c]
      BY <2>21, <3>1 DEF WatcherFire
    <3>2. CASE ~fired[c]
      <4>1. /\ fired' = [fired EXCEPT ![c] = TRUE]
            /\ mu' = [mu EXCEPT ![c] = TRUE]
            /\ watcher' = [watcher EXCEPT ![c] = "release"]
            /\ UNCHANGED <<pc, want, after, waitLocked, freed, done,
                            isInterrupted, holder, blocking, unlockOn, mutex,
                            todo, firing>>
        BY Zenon, <2>21, <3>2 DEF WatcherFire
      <4>2. /\ fired' \in [Conns -> BOOLEAN]
            /\ mu' \in [Conns -> BOOLEAN]
            /\ watcher' \in [Conns -> WatcherLocations]
        BY Zenon, <4>1
      <4> QED
        BY Zenon, <4>1, <4>2
    <3> QED
      BY Zenon, <3>1, <3>2
  <2>22. ASSUME WatcherRelease(c) PROVE TypeOK'
    BY Zenon, <2>22 DEF WatcherRelease
  <2>23. ASSUME Close(c) PROVE TypeOK'
    BY Zenon, <2>23 DEF Close
  <2>24. ASSUME FreeNote(c) PROVE TypeOK'
    BY Zenon, <2>24 DEF FreeNote
  <2>25. ASSUME OpenConn(c) PROVE TypeOK'
    BY Zenon, <2>25 DEF OpenConn
  <2> HIDE DEF TypeOK, Locations, WatcherLocations
  <2> QED
    BY Zenon, <2>1, <2>2, <2>3, <2>4, <2>5, <2>6, <2>7, <2>8, <2>9,
       <2>10, <2>11, <2>12, <2>13, <2>14, <2>15, <2>16, <2>17, <2>18,
       <2>19, <2>20, <2>21, <2>22, <2>23, <2>24, <2>25
       DEF ConnNext, App, Inside, Watcher
<1>2. CASE FatalUnlock
  BY Zenon, <1>2 DEF FatalUnlock
<1>3. CASE UNCHANGED vars
  BY Zenon, <1>3
<1> HIDE DEF TypeOK, Locations, WatcherLocations
<1> QED
  BY Zenon, <1>1, <1>2, <1>3 DEF Next, Aborted
-----------------------------------------------------------------------------
\* Every step keeps the discipline of SQLite's global mutex.
LEMMA MutexStep ==
    TypeOK /\ MutexInv /\ [Next]_vars
        => MutexInv'
<1> SUFFICES ASSUME TypeOK, MutexInv, [Next]_vars
             PROVE  MutexInv'
    BY Zenon
<1> USE ConnsAssumption DEF TypeOK, MutexInv, Goto, Move, vars, noteVars,
       watchVars, sqliteVars, mutexVars
<1>1. ASSUME NEW c \in Conns, ConnNext(c), UNCHANGED crashed
      PROVE  MutexInv'
  <2> USE <1>1
  <2>1. ASSUME NEW t \in Tables, StepCall(c, t) PROVE MutexInv'
    BY Zenon, <2>1 DEF StepCall
  <2>2. ASSUME StepTest(c) PROVE MutexInv'
    BY Zenon, <2>2 DEF StepTest
  <2>3. ASSUME SqliteStep(c) PROVE MutexInv'
    BY <2>3 DEF SqliteStep
  <2>4. ASSUME RunDone(c) PROVE MutexInv'
    BY Zenon, <2>4 DEF RunDone
  <2>5. ASSUME RunInterrupted(c) PROVE MutexInv'
    BY <2>5 DEF RunInterrupted
  <2>6. ASSUME ReadFired(c) PROVE MutexInv'
    BY Zenon, <2>6 DEF ReadFired
  <2>7. ASSUME Relock(c) PROVE MutexInv'
    BY Zenon, <2>7 DEF Relock
  <2>8. ASSUME ClearFired(c) PROVE MutexInv'
    BY Zenon, <2>8 DEF ClearFired
  <2>9. ASSUME UnlockNotify(c) PROVE MutexInv'
    BY <2>9 DEF UnlockNotify
  <2>10. ASSUME CheckFired(c) PROVE MutexInv'
    BY Zenon, <2>10 DEF CheckFired
  <2>11. ASSUME Wake(c) PROVE MutexInv'
    BY Zenon, <2>11 DEF Wake
  <2>12. ASSUME EndTransaction(c) PROVE MutexInv'
    BY Zenon, <2>12 DEF EndTransaction
  <2>13. ASSUME ConnectionUnlocked(c) PROVE MutexInv'
    BY Zenon, <2>13 DEF ConnectionUnlocked
  <2>14. ASSUME NEW d \in Conns, CallbackFire(c, d) PROVE MutexInv'
    BY <2>14 DEF CallbackFire
  <2>15. ASSUME CallbackRelease(c) PROVE MutexInv'
    BY Zenon, <2>15 DEF CallbackRelease
  <2>16. ASSUME LeaveMutex(c) PROVE MutexInv'
    BY <2>16 DEF LeaveMutex
  <2>17. ASSUME NEW ch \in {"nil", "open", "closed"}, SetInterrupt(c, ch)
         PROVE MutexInv'
    BY Zenon, <2>17 DEF SetInterrupt
  <2>18. ASSUME CloseDoneCh(c) PROVE MutexInv'
    BY Zenon, <2>18 DEF CloseDoneCh
  <2>19. ASSUME WatcherSelect(c) PROVE MutexInv'
    BY Zenon, <2>19 DEF WatcherSelect
  <2>20. ASSUME WatcherInterrupt(c) PROVE MutexInv'
    BY Zenon, <2>20 DEF WatcherInterrupt
  <2>21. ASSUME WatcherFire(c) PROVE MutexInv'
    BY Zenon, <2>21 DEF WatcherFire
  <2>22. ASSUME WatcherRelease(c) PROVE MutexInv'
    BY Zenon, <2>22 DEF WatcherRelease
  <2>23. ASSUME Close(c) PROVE MutexInv'
    BY Zenon, <2>23 DEF Close
  <2>24. ASSUME FreeNote(c) PROVE MutexInv'
    BY Zenon, <2>24 DEF FreeNote
  <2>25. ASSUME OpenConn(c) PROVE MutexInv'
    BY Zenon, <2>25 DEF OpenConn
  <2> HIDE DEF TypeOK, MutexInv
  <2> QED
    BY Zenon, <2>1, <2>2, <2>3, <2>4, <2>5, <2>6, <2>7, <2>8, <2>9,
       <2>10, <2>11, <2>12, <2>13, <2>14, <2>15, <2>16, <2>17, <2>18,
       <2>19, <2>20, <2>21, <2>22, <2>23, <2>24, <2>25
       DEF ConnNext, App, Inside, Watcher
<1>2. CASE FatalUnlock
  BY Zenon, <1>2 DEF FatalUnlock
<1>3. CASE UNCHANGED vars
  BY Zenon, <1>3
<1> HIDE DEF TypeOK, MutexInv
<1> QED
  BY Zenon, <1>1, <1>2, <1>3 DEF Next, Aborted
-----------------------------------------------------------------------------
\* Every step keeps the life cycle of the notes.
LEMMA NoteStep ==
    TypeOK /\ MutexInv /\ NoteInv /\ [Next]_vars
        => NoteInv'
<1> SUFFICES ASSUME TypeOK, MutexInv, NoteInv, [Next]_vars
             PROVE  NoteInv'
    BY Zenon
<1> USE ConnsAssumption DEF TypeOK, MutexInv, NoteInv, Joinable, Goto, Move,
       vars, noteVars, watchVars, sqliteVars, mutexVars
<1>1. ASSUME NEW c \in Conns, ConnNext(c), UNCHANGED crashed
      PROVE  NoteInv'
  <2> USE <1>1
  <2>1. ASSUME NEW t \in Tables, StepCall(c, t) PROVE NoteInv'
    BY <2>1 DEF StepCall
  <2>2. ASSUME StepTest(c) PROVE NoteInv'
    BY <2>2 DEF StepTest
  <2>3. ASSUME SqliteStep(c) PROVE NoteInv'
    BY <2>3 DEF SqliteStep
  <2>4. ASSUME RunDone(c) PROVE NoteInv'
    BY <2>4 DEF RunDone
  <2>5. ASSUME RunInterrupted(c) PROVE NoteInv'
    BY <2>5 DEF RunInterrupted
  <2>6. ASSUME ReadFired(c) PROVE NoteInv'
    BY <2>6 DEF ReadFired
  <2>7. ASSUME Relock(c) PROVE NoteInv'
    BY <2>7 DEF Relock
  <2>8. ASSUME ClearFired(c) PROVE NoteInv'
    BY <2>8 DEF ClearFired
  <2>9. ASSUME UnlockNotify(c) PROVE NoteInv'
    BY <2>9 DEF UnlockNotify
  <2>10. ASSUME CheckFired(c) PROVE NoteInv'
    BY <2>10 DEF CheckFired
  <2>11. ASSUME Wake(c) PROVE NoteInv'
    BY <2>11 DEF Wake
  <2>12. ASSUME EndTransaction(c) PROVE NoteInv'
    BY <2>12 DEF EndTransaction
  <2>13. ASSUME ConnectionUnlocked(c) PROVE NoteInv'
    BY <2>13 DEF ConnectionUnlocked
  <2>14. ASSUME NEW d \in Conns, CallbackFire(c, d) PROVE NoteInv'
    BY <2>14 DEF CallbackFire
  <2>15. ASSUME CallbackRelease(c) PROVE NoteInv'
    BY Zenon, <2>15 DEF CallbackRelease
  <2>16. ASSUME LeaveMutex(c) PROVE NoteInv'
    BY <2>16 DEF LeaveMutex
  <2>17. ASSUME NEW ch \in {"nil", "open", "closed"}, SetInterrupt(c, ch)
         PROVE NoteInv'
    BY <2>17 DEF SetInterrupt
  <2>18. ASSUME CloseDoneCh(c) PROVE NoteInv'
    BY Zenon, <2>18 DEF CloseDoneCh
  <2>19. ASSUME WatcherSelect(c) PROVE NoteInv'
    BY Zenon, <2>19 DEF WatcherSelect
  <2>20. ASSUME WatcherInterrupt(c) PROVE NoteInv'
    BY <2>20 DEF WatcherInterrupt
  <2>21. ASSUME WatcherFire(c) PROVE NoteInv'
    BY <2>21 DEF WatcherFire
  <2>22. ASSUME WatcherRelease(c) PROVE NoteInv'
    BY <2>22 DEF WatcherRelease
  <2>23. ASSUME Close(c) PROVE NoteInv'
    BY <2>23 DEF Close
  <2>24. ASSUME FreeNote(c) PROVE NoteInv'
    BY <2>24 DEF FreeNote
  <2>25. ASSUME OpenConn(c) PROVE NoteInv'
    BY Zenon, <2>25 DEF OpenConn
  <2> HIDE DEF TypeOK, MutexInv, NoteInv, Joinable
  <2> QED
    BY Zenon, <2>1, <2>2, <2>3, <2>4, <2>5, <2>6, <2>7, <2>8, <2>9,
       <2>10, <2>11, <2>12, <2>13, <2>14, <2>15, <2>16, <2>17, <2>18,
       <2>19, <2>20, <2>21, <2>22, <2>23, <2>24, <2>25
       DEF ConnNext, App, Inside, Watcher
<1>2. CASE FatalUnlock
  BY Zenon, <1>2 DEF FatalUnlock
<1>3. CASE UNCHANGED vars
  BY Zenon, <1>3
<1> HIDE DEF TypeOK, MutexInv, NoteInv, Joinable
<1> QED
  BY Zenon, <1>1, <1>2, <1>3 DEF Next, Aborted
-----------------------------------------------------------------------------
\* Every step keeps what blocking and unlockOn say of the connection they name.
LEMMA WaitStep ==
    TypeOK /\ WaitInv /\ [Next]_vars
        => WaitInv'
<1> SUFFICES ASSUME TypeOK, WaitInv, [Next]_vars
             PROVE  WaitInv'
    BY Zenon
<1> USE ConnsAssumption DEF TypeOK, WaitInv, Held, Goto, Move, vars,
       noteVars, watchVars, sqliteVars, mutexVars
<1>1. ASSUME NEW c \in Conns, ConnNext(c), UNCHANGED crashed
      PROVE  WaitInv'
  <2> USE <1>1
  <2>1. ASSUME NEW t \in Tables, StepCall(c, t) PROVE WaitInv'
    BY <2>1 DEF StepCall
  <2>2. ASSUME StepTest(c) PROVE WaitInv'
    BY <2>2 DEF StepTest
  <2>3. ASSUME SqliteStep(c) PROVE WaitInv'
    BY <2>3 DEF SqliteStep
  <2>4. ASSUME RunDone(c) PROVE WaitInv'
    BY <2>4 DEF RunDone
  <2>5. ASSUME RunInterrupted(c) PROVE WaitInv'
    BY <2>5 DEF RunInterrupted
  <2>6. ASSUME ReadFired(c) PROVE WaitInv'
    BY <2>6 DEF ReadFired
  <2>7. ASSUME Relock(c) PROVE WaitInv'
    BY <2>7 DEF Relock
  <2>8. ASSUME ClearFired(c) PROVE WaitInv'
    BY <2>8 DEF ClearFired
  <2>9. ASSUME UnlockNotify(c) PROVE WaitInv'
    BY <2>9 DEF UnlockNotify
  <2>10. ASSUME CheckFired(c) PROVE WaitInv'
    BY <2>10 DEF CheckFired
  <2>11. ASSUME Wake(c) PROVE WaitInv'
    BY <2>11 DEF Wake
  <2>12. ASSUME EndTransaction(c) PROVE WaitInv'
    BY <2>12 DEF EndTransaction
  <2>13. ASSUME ConnectionUnlocked(c) PROVE WaitInv'
    BY <2>13 DEF ConnectionUnlocked
  <2>14. ASSUME NEW d \in Conns, CallbackFire(c, d) PROVE WaitInv'
    BY <2>14 DEF CallbackFire
  <2>15. ASSUME CallbackRelease(c) PROVE WaitInv'
    BY <2>15 DEF CallbackRelease
  <2>16. ASSUME LeaveMutex(c) PROVE WaitInv'
    BY <2>16 DEF LeaveMutex
  <2>17. ASSUME NEW ch \in {"nil", "open", "closed"}, SetInterrupt(c, ch)
         PROVE WaitInv'
    BY <2>17 DEF SetInterrupt
  <2>18. ASSUME CloseDoneCh(c) PROVE WaitInv'
    BY <2>18 DEF CloseDoneCh
  <2>19. ASSUME WatcherSelect(c) PROVE WaitInv'
    BY <2>19 DEF WatcherSelect
  <2>20. ASSUME WatcherInterrupt(c) PROVE WaitInv'
    BY <2>20 DEF WatcherInterrupt
  <2>21. ASSUME WatcherFire(c) PROVE WaitInv'
    BY <2>21 DEF WatcherFire
  <2>22. ASSUME WatcherRelease(c) PROVE WaitInv'
    BY <2>22 DEF WatcherRelease
  <2>23. ASSUME Close(c) PROVE WaitInv'
    BY <2>23 DEF Close
  <2>24. ASSUME FreeNote(c) PROVE WaitInv'
    BY <2>24 DEF FreeNote
  <2>25. ASSUME OpenConn(c) PROVE WaitInv'
    BY <2>25 DEF OpenConn
  <2> HIDE DEF TypeOK, WaitInv, Held
  <2> QED
    BY Zenon, <2>1, <2>2, <2>3, <2>4, <2>5, <2>6, <2>7, <2>8, <2>9,
       <2>10, <2>11, <2>12, <2>13, <2>14, <2>15, <2>16, <2>17, <2>18,
       <2>19, <2>20, <2>21, <2>22, <2>23, <2>24, <2>25
       DEF ConnNext, App, Inside, Watcher
<1>2. CASE FatalUnlock
  BY <1>2 DEF FatalUnlock
<1>3. CASE UNCHANGED vars
  BY <1>3
<1> HIDE DEF TypeOK, WaitInv, Held
<1> QED
  BY Zenon, <1>1, <1>2, <1>3 DEF Next, Aborted
-----------------------------------------------------------------------------
\* Every step keeps the waiters awaited.
LEMMA WakeStep ==
    TypeOK /\ MutexInv /\ NoteInv /\ WakeInv /\ [Next]_vars
        => WakeInv'
<1> SUFFICES ASSUME TypeOK, MutexInv, NoteInv, WakeInv, [Next]_vars
             PROVE  WakeInv'
    BY Zenon
<1> USE ConnsAssumption DEF TypeOK, MutexInv, NoteInv, WakeInv, Waiting,
       Joinable, Goto, Move, vars, noteVars, watchVars, sqliteVars, mutexVars
<1>1. ASSUME NEW c \in Conns, ConnNext(c), UNCHANGED crashed
      PROVE  WakeInv'
  <2> USE <1>1
  <2>1. ASSUME NEW t \in Tables, StepCall(c, t) PROVE WakeInv'
    BY <2>1 DEF StepCall
  <2>2. ASSUME StepTest(c) PROVE WakeInv'
    BY <2>2 DEF StepTest
  <2>3. ASSUME SqliteStep(c) PROVE WakeInv'
    BY <2>3 DEF SqliteStep
  <2>4. ASSUME RunDone(c) PROVE WakeInv'
    BY <2>4 DEF RunDone
  <2>5. ASSUME RunInterrupted(c) PROVE WakeInv'
    BY <2>5 DEF RunInterrupted
  <2>6. ASSUME ReadFired(c) PROVE WakeInv'
    BY <2>6 DEF ReadFired
  <2>7. ASSUME Relock(c) PROVE WakeInv'
    BY <2>7 DEF Relock
  <2>8. ASSUME ClearFired(c) PROVE WakeInv'
    BY <2>8 DEF ClearFired
  <2>9. ASSUME UnlockNotify(c) PROVE WakeInv'
    BY <2>9 DEF UnlockNotify
  <2>10. ASSUME CheckFired(c) PROVE WakeInv'
    BY <2>10 DEF CheckFired
  <2>11. ASSUME Wake(c) PROVE WakeInv'
    BY <2>11 DEF Wake
  <2>12. ASSUME EndTransaction(c) PROVE WakeInv'
    BY <2>12 DEF EndTransaction
  <2>13. ASSUME ConnectionUnlocked(c) PROVE WakeInv'
    BY <2>13 DEF ConnectionUnlocked
  <2>14. ASSUME NEW d \in Conns, CallbackFire(c, d) PROVE WakeInv'
    BY <2>14 DEF CallbackFire
  <2>15. ASSUME CallbackRelease(c) PROVE WakeInv'
    BY <2>15 DEF CallbackRelease
  <2>16. ASSUME LeaveMutex(c) PROVE WakeInv'
    BY <2>16 DEF LeaveMutex
  <2>17. ASSUME NEW ch \in {"nil", "open", "closed"}, SetInterrupt(c, ch)
         PROVE WakeInv'
    BY <2>17 DEF SetInterrupt
  <2>18. ASSUME CloseDoneCh(c) PROVE WakeInv'
    BY Zenon, <2>18 DEF CloseDoneCh
  <2>19. ASSUME WatcherSelect(c) PROVE WakeInv'
    BY <2>19 DEF WatcherSelect
  <2>20. ASSUME WatcherInterrupt(c) PROVE WakeInv'
    BY <2>20 DEF WatcherInterrupt
  <2>21. ASSUME WatcherFire(c) PROVE WakeInv'
    BY SMTT(40), <2>21 DEF WatcherFire
  <2>22. ASSUME WatcherRelease(c) PROVE WakeInv'
    BY <2>22 DEF WatcherRelease
  <2>23. ASSUME Close(c) PROVE WakeInv'
    BY <2>23 DEF Close
  <2>24. ASSUME FreeNote(c) PROVE WakeInv'
    BY <2>24 DEF FreeNote
  <2>25. ASSUME OpenConn(c) PROVE WakeInv'
    BY SMTT(40), <2>25 DEF OpenConn
  <2> HIDE DEF TypeOK, MutexInv, NoteInv, WakeInv, Waiting, Joinable
  <2> QED
    BY Zenon, <2>1, <2>2, <2>3, <2>4, <2>5, <2>6, <2>7, <2>8, <2>9,
       <2>10, <2>11, <2>12, <2>13, <2>14, <2>15, <2>16, <2>17, <2>18,
       <2>19, <2>20, <2>21, <2>22, <2>23, <2>24, <2>25
       DEF ConnNext, App, Inside, Watcher
<1>2. CASE FatalUnlock
  BY Zenon, <1>2 DEF FatalUnlock
<1>3. CASE UNCHANGED vars
  BY Zenon, <1>3
<1> HIDE DEF TypeOK, MutexInv, NoteInv, WakeInv, Waiting, Joinable
<1> QED
  BY Zenon, <1>1, <1>2, <1>3 DEF Next, Aborted
-----------------------------------------------------------------------------
\* Every step keeps the note of a connection without doneCh in order.
LEMMA PlainStep ==
    TypeOK /\ MutexInv /\ NoteInv /\ WakeInv /\ PlainInv /\ [Next]_vars
        => PlainInv'
<1> SUFFICES ASSUME TypeOK, MutexInv, NoteInv, WakeInv, PlainInv, [Next]_vars
             PROVE  PlainInv'
    BY Zenon
<1> USE ConnsAssumption DEF TypeOK, MutexInv, NoteInv, WakeInv, PlainInv,
       Waiting, Joinable, Goto, Move, vars, noteVars, watchVars, sqliteVars,
       mutexVars
<1>1. ASSUME NEW c \in Conns, ConnNext(c), UNCHANGED crashed
      PROVE  PlainInv'
  <2> USE <1>1
  <2>1. ASSUME NEW t \in Tables, StepCall(c, t) PROVE PlainInv'
    BY SMTT(40), <2>1 DEF StepCall
  <2>2. ASSUME StepTest(c) PROVE PlainInv'
    BY SMTT(40), <2>2 DEF StepTest
  <2>3. ASSUME SqliteStep(c) PROVE PlainInv'
    BY SMTT(40), <2>3 DEF SqliteStep
  <2>4. ASSUME RunDone(c) PROVE PlainInv'
    BY SMTT(40), <2>4 DEF RunDone
  <2>5. ASSUME RunInterrupted(c) PROVE PlainInv'
    BY <2>5 DEF RunInterrupted
  <2>6. ASSUME ReadFired(c) PROVE PlainInv'
    BY <2>6 DEF ReadFired
  <2>7. ASSUME Relock(c) PROVE PlainInv'
    BY SMTT(40), <2>7 DEF Relock
  <2>8. ASSUME ClearFired(c) PROVE PlainInv'
    BY SMTT(40), <2>8 DEF ClearFired
  <2>9. ASSUME UnlockNotify(c) PROVE PlainInv'
    BY SMTT(40), <2>9 DEF UnlockNotify
  <2>10. ASSUME CheckFired(c) PROVE PlainInv'
    BY SMTT(40), <2>10 DEF CheckFired
  <2>11. ASSUME Wake(c) PROVE PlainInv'
    BY SMTT(40), <2>11 DEF Wake
  <2>12. ASSUME EndTransaction(c) PROVE PlainInv'
    BY SMTT(40), <2>12 DEF EndTransaction
  <2>13. ASSUME ConnectionUnlocked(c) PROVE PlainInv'
    BY SMTT(40), <2>13 DEF ConnectionUnlocked
  <2>14. ASSUME NEW d \in Conns, CallbackFire(c, d) PROVE PlainInv'
    <3>1. CASE fired[d]
      BY SMTT(40), <2>14, <3>1 DEF CallbackFire
    <3>2. CASE ~fired[d]
      BY SMTT(40), <2>14, <3>2 DEF CallbackFire
    <3> QED
      BY Zenon, <3>1, <3>2
  <2>15. ASSUME CallbackRelease(c) PROVE PlainInv'
    BY SMTT(40), <2>15 DEF CallbackRelease
  <2>16. ASSUME LeaveMutex(c) PROVE PlainInv'
    BY SMTT(40), <2>16 DEF LeaveMutex
  <2>17. ASSUME NEW ch \in {"nil", "open", "closed"}, SetInterrupt(c, ch)
         PROVE PlainInv'
    BY SMTT(40), <2>17 DEF SetInterrupt
  <2>18. ASSUME CloseDoneCh(c) PROVE PlainInv'
    BY Zenon, <2>18 DEF CloseDoneCh
  <2>19. ASSUME WatcherSelect(c) PROVE PlainInv'
    BY SMTT(40), <2>19 DEF WatcherSelect
  <2>20. ASSUME WatcherInterrupt(c) PROVE PlainInv'
    BY SMTT(40), <2>20 DEF WatcherInterrupt
  <2>21. ASSUME WatcherFire(c) PROVE PlainInv'
    BY SMTT(40), <2>21 DEF WatcherFire
  <2>22. ASSUME WatcherRelease(c) PROVE PlainInv'
    BY SMTT(40), <2>22 DEF WatcherRelease
  <2>23. ASSUME Close(c) PROVE PlainInv'
    BY SMTT(40), <2>23 DEF Close
  <2>24. ASSUME FreeNote(c) PROVE PlainInv'
    BY SMTT(40), <2>24 DEF FreeNote
  <2>25. ASSUME OpenConn(c) PROVE PlainInv'
    BY SMTT(40), <2>25 DEF OpenConn
  <2> HIDE DEF TypeOK, MutexInv, NoteInv, WakeInv, PlainInv, Waiting,
       Joinable
  <2> QED
    BY Zenon, <2>1, <2>2, <2>3, <2>4, <2>5, <2>6, <2>7, <2>8, <2>9,
       <2>10, <2>11, <2>12, <2>13, <2>14, <2>15, <2>16, <2>17, <2>18,
       <2>19, <2>20, <2>21, <2>22, <2>23, <2>24, <2>25
       DEF ConnNext, App, Inside, Watcher
<1>2. CASE FatalUnlock
  BY Zenon, <1>2 DEF FatalUnlock
<1>3. CASE UNCHANGED vars
  BY Zenon, <1>3
<1> HIDE DEF TypeOK, MutexInv, NoteInv, WakeInv, PlainInv, Waiting,
       Joinable
<1> QED
  BY Zenon, <1>1, <1>2, <1>3 DEF Next, Aborted
-----------------------------------------------------------------------------
\* Every step keeps the watcher on the channel that is installed.
LEMMA WatchStep ==
    TypeOK /\ NoteInv /\ NoStaleInterrupt /\ [Next]_vars
        => NoStaleInterrupt'
<1> SUFFICES ASSUME TypeOK, NoteInv, NoStaleInterrupt, [Next]_vars
             PROVE  NoStaleInterrupt'
    BY Zenon
<1> USE ConnsAssumption DEF TypeOK, NoteInv, NoStaleInterrupt, Joinable,
       Goto, Move, vars, noteVars, watchVars, sqliteVars, mutexVars
<1>1. ASSUME NEW c \in Conns, ConnNext(c), UNCHANGED crashed
      PROVE  NoStaleInterrupt'
  <2> USE <1>1
  <2>1. ASSUME NEW t \in Tables, StepCall(c, t) PROVE NoStaleInterrupt'
    BY Zenon, <2>1 DEF StepCall
  <2>2. ASSUME StepTest(c) PROVE NoStaleInterrupt'
    BY Zenon, <2>2 DEF StepTest
  <2>3. ASSUME SqliteStep(c) PROVE NoStaleInterrupt'
    BY Zenon, <2>3 DEF SqliteStep
  <2>4. ASSUME RunDone(c) PROVE NoStaleInterrupt'
    BY Zenon, <2>4 DEF RunDone
  <2>5. ASSUME RunInterrupted(c) PROVE NoStaleInterrupt'
    BY Zenon, <2>5 DEF RunInterrupted
  <2>6. ASSUME ReadFired(c) PROVE NoStaleInterrupt'
    BY Zenon, <2>6 DEF ReadFired
  <2>7. ASSUME Relock(c) PROVE NoStaleInterrupt'
    BY Zenon, <2>7 DEF Relock
  <2>8. ASSUME ClearFired(c) PROVE NoStaleInterrupt'
    BY Zenon, <2>8 DEF ClearFired
  <2>9. ASSUME UnlockNotify(c) PROVE NoStaleInterrupt'
    BY Zenon, <2>9 DEF UnlockNotify
  <2>10. ASSUME CheckFired(c) PROVE NoStaleInterrupt'
    BY Zenon, <2>10 DEF CheckFired
  <2>11. ASSUME Wake(c) PROVE NoStaleInterrupt'
    BY Zenon, <2>11 DEF Wake
  <2>12. ASSUME EndTransaction(c) PROVE NoStaleInterrupt'
    BY Zenon, <2>12 DEF EndTransaction
  <2>13. ASSUME ConnectionUnlocked(c) PROVE NoStaleInterrupt'
    BY Zenon, <2>13 DEF ConnectionUnlocked
  <2>14. ASSUME NEW d \in Conns, CallbackFire(c, d) PROVE NoStaleInterrupt'
    BY Zenon, <2>14 DEF CallbackFire
  <2>15. ASSUME CallbackRelease(c) PROVE NoStaleInterrupt'
    BY Zenon, <2>15 DEF CallbackRelease
  <2>16. ASSUME LeaveMutex(c) PROVE NoStaleInterrupt'
    BY Zenon, <2>16 DEF LeaveMutex
  <2>17. ASSUME NEW ch \in {"nil", "open", "closed"}, SetInterrupt(c, ch)
         PROVE NoStaleInterrupt'
    BY Zenon, <2>17 DEF SetInterrupt
  <2>18. ASSUME CloseDoneCh(c) PROVE NoStaleInterrupt'
    BY Zenon, <2>18 DEF CloseDoneCh
  <2>19. ASSUME WatcherSelect(c) PROVE NoStaleInterrupt'
    BY Zenon, <2>19 DEF WatcherSelect
  <2>20. ASSUME WatcherInterrupt(c) PROVE NoStaleInterrupt'
    BY Zenon, <2>20 DEF WatcherInterrupt
  <2>21. ASSUME WatcherFire(c) PROVE NoStaleInterrupt'
    BY Zenon, <2>21 DEF WatcherFire
  <2>22. ASSUME WatcherRelease(c) PROVE NoStaleInterrupt'
    BY Zenon, <2>22 DEF WatcherRelease
  <2>23. ASSUME Close(c) PROVE NoStaleInterrupt'
    BY Zenon, <2>23 DEF Close
  <2>24. ASSUME FreeNote(c) PROVE NoStaleInterrupt'
    BY Zenon, <2>24 DEF FreeNote
  <2>25. ASSUME OpenConn(c) PROVE NoStaleInterrupt'
    BY Zenon, <2>25 DEF OpenConn
  <2> HIDE DEF TypeOK, NoteInv, NoStaleInterrupt, Joinable
  <2> QED
    BY Zenon, <2>1, <2>2, <2>3, <2>4, <2>5, <2>6, <2>7, <2>8, <2>9,
       <2>10, <2>11, <2>12, <2>13, <2>14, <2>15, <2>16, <2>17, <2>18,
       <2>19, <2>20, <2>21, <2>22, <2>23, <2>24, <2>25
       DEF ConnNext, App, Inside, Watcher
<1>2. CASE FatalUnlock
  BY Zenon, <1>2 DEF FatalUnlock
<1>3. CASE UNCHANGED vars
  BY Zenon, <1>3
<1> HIDE DEF TypeOK, NoteInv, NoStaleInterrupt, Joinable
<1> QED
  BY Zenon, <1>1, <1>2, <1>3 DEF Next, Aborted
-----------------------------------------------------------------------------
\* Every step keeps the waiters registered with those that block them.
LEMMA RegisteredStep ==
    TypeOK /\ MutexInv /\ RegisteredInv /\ [Next]_vars
        => RegisteredInv'
<1> SUFFICES ASSUME TypeOK, MutexInv, RegisteredInv, [Next]_vars
             PROVE  RegisteredInv'
    BY Zenon
<1> USE ConnsAssumption DEF TypeOK, MutexInv, RegisteredInv, Waiting, Held, Goto, Move, vars,
       noteVars, watchVars, sqliteVars, mutexVars
<1>1. ASSUME NEW c \in Conns, ConnNext(c), UNCHANGED crashed
      PROVE  RegisteredInv'
  <2> USE <1>1
  <2>1. ASSUME NEW t \in Tables, StepCall(c, t) PROVE RegisteredInv'
    BY Zenon, <2>1 DEF StepCall
  <2>2. ASSUME StepTest(c) PROVE RegisteredInv'
    BY Zenon, <2>2 DEF StepTest
  <2>3. ASSUME SqliteStep(c) PROVE RegisteredInv'
    BY <2>3 DEF SqliteStep
  <2>4. ASSUME RunDone(c) PROVE RegisteredInv'
    BY Zenon, <2>4 DEF RunDone
  <2>5. ASSUME RunInterrupted(c) PROVE RegisteredInv'
    BY <2>5 DEF RunInterrupted
  <2>6. ASSUME ReadFired(c) PROVE RegisteredInv'
    BY <2>6 DEF ReadFired
  <2>7. ASSUME Relock(c) PROVE RegisteredInv'
    BY Zenon, <2>7 DEF Relock
  <2>8. ASSUME ClearFired(c) PROVE RegisteredInv'
    BY Zenon, <2>8 DEF ClearFired
  <2>9. ASSUME UnlockNotify(c) PROVE RegisteredInv'
    BY <2>9 DEF UnlockNotify
  <2>10. ASSUME CheckFired(c) PROVE RegisteredInv'
    BY Zenon, <2>10 DEF CheckFired
  <2>11. ASSUME Wake(c) PROVE RegisteredInv'
    BY Zenon, <2>11 DEF Wake
  <2>12. ASSUME EndTransaction(c) PROVE RegisteredInv'
    BY <2>12 DEF EndTransaction
  <2>13. ASSUME ConnectionUnlocked(c) PROVE RegisteredInv'
    BY <2>13 DEF ConnectionUnlocked
  <2>14. ASSUME NEW d \in Conns, CallbackFire(c, d) PROVE RegisteredInv'
    BY Zenon, <2>14 DEF CallbackFire
  <2>15. ASSUME CallbackRelease(c) PROVE RegisteredInv'
    BY Zenon, <2>15 DEF CallbackRelease
  <2>16. ASSUME LeaveMutex(c) PROVE RegisteredInv'
    BY Zenon, <2>16 DEF LeaveMutex
  <2>17. ASSUME NEW ch \in {"nil", "open", "closed"}, SetInterrupt(c, ch)
         PROVE RegisteredInv'
    BY Zenon, <2>17 DEF SetInterrupt
  <2>18. ASSUME CloseDoneCh(c) PROVE RegisteredInv'
    BY Zenon, <2>18 DEF CloseDoneCh
  <2>19. ASSUME WatcherSelect(c) PROVE RegisteredInv'
    BY Zenon, <2>19 DEF WatcherSelect
  <2>20. ASSUME WatcherInterrupt(c) PROVE RegisteredInv'
    BY Zenon, <2>20 DEF WatcherInterrupt
  <2>21. ASSUME WatcherFire(c) PROVE RegisteredInv'
    BY Zenon, <2>21 DEF WatcherFire
  <2>22. ASSUME WatcherRelease(c) PROVE RegisteredInv'
    BY Zenon, <2>22 DEF WatcherRelease
  <2>23. ASSUME Close(c) PROVE RegisteredInv'
    BY Zenon, <2>23 DEF Close
  <2>24. ASSUME FreeNote(c) PROVE RegisteredInv'
    BY <2>24 DEF FreeNote
  <2>25. ASSUME OpenConn(c) PROVE RegisteredInv'
    BY Zenon, <2>25 DEF OpenConn
  <2> HIDE DEF TypeOK, MutexInv, RegisteredInv, Waiting, Held
  <2> QED
    BY Zenon, <2>1, <2>2, <2>3, <2>4, <2>5, <2>6, <2>7, <2>8, <2>9,
       <2>10, <2>11, <2>12, <2>13, <2>14, <2>15, <2>16, <2>17, <2>18,
       <2>19, <2>20, <2>21, <2>22, <2>23, <2>24, <2>25
       DEF ConnNext, App, Inside, Watcher
<1>2. CASE FatalUnlock
  BY Zenon, <1>2 DEF FatalUnlock
<1>3. CASE UNCHANGED vars
  BY Zenon, <1>3
<1> HIDE DEF TypeOK, MutexInv, RegisteredInv, Waiting, Held
<1> QED
  BY Zenon, <1>1, <1>2, <1>3 DEF Next, Aborted
-----------------------------------------------------------------------------
\* What a step does to the registrations: nothing, or sqlite3_unlock_notify adds
\* one that closes no circle, or some are taken off.
LEMMA RegistrationStep ==
    ASSUME TypeOK, [Next]_vars
    PROVE  \/ UNCHANGED unlockOn
           \/ \E c \in Conns : /\ blocking[c] # None
                               /\ ~Reaches(blocking[c], c)
                               /\ unlockOn' = [unlockOn EXCEPT ![c] = blocking[c]]
           \/ \A d \in Conns : unlockOn'[d] \in {unlockOn[d], None}
<1> USE DEF vars, noteVars, watchVars, sqliteVars, mutexVars, Move
<1>1. ASSUME NEW c \in Conns, ConnNext(c)
      PROVE  \/ UNCHANGED unlockOn
             \/ UnlockNotify(c) \/ ConnectionUnlocked(c) \/ FreeNote(c)
  <2>1. CASE App(c)
    BY Zenon, <2>1 DEF App, StepCall, EndTransaction, SetInterrupt, Close, OpenConn
  <2>2. CASE Inside(c)
    BY Zenon, <2>2 DEF Inside, StepTest, SqliteStep, ReadFired, Relock, ClearFired,
       CheckFired, Wake, CallbackFire, CallbackRelease, LeaveMutex
  <2>3. CASE Watcher(c)
    BY Zenon, <2>3 DEF Watcher, WatcherSelect, WatcherInterrupt, WatcherFire,
       WatcherRelease
  <2>4. CASE RunDone(c) \/ RunInterrupted(c) \/ CloseDoneCh(c)
    BY Zenon, <2>4 DEF RunDone, RunInterrupted, CloseDoneCh
  <2> QED
    BY Zenon, <1>1, <2>1, <2>2, <2>3, <2>4 DEF ConnNext
<1>2. ASSUME NEW c \in Conns, UnlockNotify(c)
      PROVE  \/ UNCHANGED unlockOn
             \/ /\ blocking[c] # None
                /\ ~Reaches(blocking[c], c)
                /\ unlockOn' = [unlockOn EXCEPT ![c] = blocking[c]]
  BY Zenon, <1>2 DEF UnlockNotify
<1>3. ASSUME NEW c \in Conns, ConnectionUnlocked(c) \/ FreeNote(c)
      PROVE  \A d \in Conns : unlockOn'[d] \in {unlockOn[d], None}
  BY Zenon, <1>3 DEF ConnectionUnlocked, FreeNote, TypeOK
<1>4. CASE FatalUnlock \/ UNCHANGED vars
  BY Zenon, <1>4 DEF FatalUnlock
<1> QED
  BY Zenon, <1>1, <1>2, <1>3, <1>4 DEF Next, Aborted

\* Every step keeps the registrations free of circles.  When c is registered
\* with b, the connections that b's registrations lead to are a set T that c is
\* not in; a circle through the new registration stays in T from b on, so it
\* would have been there before.
LEMMA AcyclicStep ==
    TypeOK /\ AcyclicInv /\ [Next]_vars => AcyclicInv'
<1> SUFFICES ASSUME TypeOK, AcyclicInv, [Next]_vars,
                    NEW S \in SUBSET Conns, S # {},
                    \A d \in S : unlockOn'[d] \in S
             PROVE  FALSE
    BY Zenon DEF AcyclicInv
<1>1. CASE UNCHANGED unlockOn
  BY Zenon, <1>1 DEF AcyclicInv
<1>2. ASSUME NEW c \in Conns, blocking[c] # None, ~Reaches(blocking[c], c),
             unlockOn' = [unlockOn EXCEPT ![c] = blocking[c]]
      PROVE  FALSE
  <2>1. PICK T \in SUBSET Conns :
             /\ blocking[c] \in T
             /\ \A p \in T : unlockOn[p] # None => unlockOn[p] \in T
             /\ c \notin T
    BY Zenon, <1>2 DEF Reaches
  <2>2. \A d \in S \ {c} : unlockOn[d] \in S
    BY Zenon, <1>2 DEF TypeOK
  <2>3. CASE c \notin S
    BY Zenon, <2>2, <2>3 DEF AcyclicInv
  <2>4. CASE c \in S
    <3>1. blocking[c] \in S \cap T
      BY Zenon, <1>2, <2>1, <2>4 DEF TypeOK
    <3>2. \A d \in S \cap T : unlockOn[d] \in S \cap T
      BY Zenon, <2>1, <2>2, ConnsAssumption
    <3> QED
      BY Zenon, <3>1, <3>2 DEF AcyclicInv
  <2> QED
    BY Zenon, <2>3, <2>4
<1>3. CASE \A d \in Conns : unlockOn'[d] \in {unlockOn[d], None}
  <2>1. \A d \in S : unlockOn[d] \in S
    BY Zenon, <1>3, ConnsAssumption
  <2> QED
    BY Zenon, <2>1 DEF AcyclicInv
<1> QED
  BY Zenon, <1>1, <1>2, <1>3, RegistrationStep
-----------------------------------------------------------------------------
\* The inductive invariant holds in every reachable state.
LEMMA Invariance == Spec => []IInv
<1>1. Init => IInv
  <2> SUFFICES ASSUME Init PROVE IInv
      BY Zenon
  <2> USE ConnsAssumption DEF Init
  <2>1. TypeOK
    BY Zenon DEF TypeOK, Locations, WatcherLocations
  <2>2. MutexInv /\ NoteInv
    BY Zenon DEF MutexInv, NoteInv
  <2>3. WaitInv /\ WakeInv
    BY Zenon DEF WaitInv, WakeInv, Waiting
  <2>4. PlainInv /\ NoStaleInterrupt
    BY Zenon DEF PlainInv, NoStaleInterrupt
  <2>5. RegisteredInv /\ AcyclicInv
    BY Zenon DEF RegisteredInv, AcyclicInv
  <2> QED
    BY Zenon, <2>1, <2>2, <2>3, <2>4, <2>5 DEF IInv
<1>2. IInv /\ [Next]_vars => IInv'
  BY Zenon, TypeStep, MutexStep, NoteStep, WaitStep, WakeStep, PlainStep,
     WatchStep, RegisteredStep, AcyclicStep DEF IInv
<1> QED
  BY <1>1, <1>2, PTL DEF Spec

\* Every reachable state of the connections is well typed.
THEOREM TypeInvariance == Spec => []TypeOK
<1>1. IInv => TypeOK
  BY Zenon DEF IInv
<1> QED
  BY <1>1, Invariance, PTL

\* No wakeup is lost: a Step blocked in waitForUnlockNotify is always
\* registered with a transaction that is open or ending, or about to be fired,
\* however many connections and tables there are and whoever interrupts.
THEOREM NoLostWakeup == Spec => []BlockedIsAwaited
<1>1. IInv => BlockedIsAwaited
  <2> SUFFICES ASSUME IInv, NEW c \in Conns,
                      pc[c] = "blocked", waitLocked[c],
                      c \notin todo, watcher[c] # "release"
               PROVE  /\ unlockOn[c] # None
                      /\ Held(unlockOn[c]) # {} \/ pc[unlockOn[c]] = "unlocking"
      BY Zenon DEF BlockedIsAwaited
  <2>1. ~fired[c]
    BY Zenon, ConnsAssumption DEF IInv, MutexInv, WakeInv
  <2>2. unlockOn[c] # None
    BY Zenon, <2>1 DEF IInv, WakeInv, Waiting
  <2> QED
    BY Zenon, <2>2 DEF IInv, WaitInv
<1> QED
  BY <1>1, Invariance, PTL

\* Steps never block on each other in a circle, however many connections there
\* are: step returns the SQLITE_LOCKED of sqlite3_unlock_notify instead of
\* waiting, and an interrupted wait leaves no registration that could hide one.
THEOREM NoDeadlockedSteps == Spec => []NoCircularWait
<1>1. IInv => NoCircularWait
  <2> SUFFICES ASSUME IInv, NEW S \in SUBSET Conns, S # {}
               PROVE  \E c \in S : ~( /\ pc[c] = "blocked"
                                      /\ waitLocked[c]
                                      /\ blocking[c] \in S )
      BY Zenon DEF NoCircularWait
  <2>1. PICK c \in S : unlockOn[c] \notin S
    BY Zenon DEF IInv, AcyclicInv
  <2> QED
    BY Zenon, <2>1, ConnsAssumption DEF IInv, RegisteredInv, Waiting
<1> QED
  BY <1>1, Invariance, PTL

\* Conn.Close frees the unlockNote only when neither the watcher goroutine nor
\* a callback of another connection's transaction can still touch it.
THEOREM NoUseAfterFree == Spec => []FreedNoteUntouched
<1>1. IInv => FreedNoteUntouched
  BY ConnsAssumption DEF IInv, MutexInv, NoteInv, FreedNoteUntouched
<1> QED
  BY <1>1, Invariance, PTL

\* SetInterrupt joins the watcher of the old doneCh before it returns, so a
\* connection is interrupted only for the doneCh that is installed now.
THEOREM InterruptIsCurrent == Spec => []NoStaleInterrupt
<1>1. IInv => NoStaleInterrupt
  BY Zenon DEF IInv
<1> QED
  BY <1>1, Invariance, PTL

\* When no application installs a doneCh, unlockNote.wait is held whenever
\* fired is false: the unsynchronised accesses of waitForUnlockNotify never
\* meet a callback.
THEOREM NoteProtocol ==
    ASSUME Interruptible = {}
    PROVE  Spec => []WaitHeldWhileUnfired
<1>1. IInv => WaitHeldWhileUnfired
  BY Zenon DEF IInv, PlainInv, WaitHeldWhileUnfired
<1> QED
  BY <1>1, Invariance, PTL
=============================================================================
