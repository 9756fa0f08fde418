---------------------------- MODULE BlockingStep ----------------------------
(***************************************************************************)
(* Connections that share one cache in one process, as Stmt.Step,          *)
(* Conn.SetInterrupt, Conn.Close and the unlockNote condition variable     *)
(* drive them (sqlite.go, blocking_step.go).                               *)
(*                                                                         *)
(* Every connection has one goroutine that uses it (its location is pc)    *)
(* and, while a doneCh is installed, one watcher goroutine (its location   *)
(* is watcher).  A step of the model is the code between two points where  *)
(* another goroutine can observe or change the shared state.  The fields   *)
(* of an unlockNote are read and written one at a time, because            *)
(* waitForUnlockNotify touches `fired` without holding `mu`.               *)
(*                                                                         *)
(* The shared-cache lock table and sqlite3_unlock_notify are SQLite's own. *)
(* They are modelled from what the code relies on: a blocked step records  *)
(* which connection blocks it; the end of that connection's transaction    *)
(* calls back whoever registered; both happen under one global mutex.      *)
(***************************************************************************)
EXTENDS Naturals, FiniteSets

CONSTANTS
    Conns,          \* connections to the shared cache
    Tables,         \* things the cache locks
    Interruptible,  \* connections on which a non-nil doneCh is ever installed
    None            \* no connection

ASSUME ConnsAssumption ==
    /\ Interruptible \subseteq Conns
    /\ None \notin Conns

VARIABLES
    pc,           \* where the goroutine that uses the connection is
    want,         \* the table the current Step needs
    after,        \* where the goroutine goes when it leaves the global mutex
    fired,        \* unlockNote.fired
    waitLocked,   \* unlockNote.wait is locked
    mu,           \* unlockNote.mu is locked
    freed,        \* the unlockNote has been freed
    watcher,      \* where the goroutine started by SetInterrupt is
    done,         \* Conn.doneCh: nil, open or closed
    isInterrupted,\* SQLite's interrupt flag
    holder,       \* which connection's transaction has locked a table
    blocking,     \* the connection that made this one's last step fail
    unlockOn,     \* the connection whose end this one is registered for
    mutex,        \* owner of SQLite's global mutex
    todo,         \* notes the owner of the global mutex has still to fire
    firing,       \* the note whose wait it is about to unlock
    crashed       \* the Go runtime has aborted the process

noteVars == <<fired, waitLocked, mu, freed>>
watchVars == <<watcher, done, isInterrupted>>
sqliteVars == <<holder, blocking, unlockOn>>
mutexVars == <<mutex, todo, firing, after>>
vars == <<pc, want, noteVars, watchVars, sqliteVars, mutexVars, crashed>>

Locations == {"idle", "test", "step", "run", "read", "relock", "clear",
              "register", "check", "blocked", "unlocking", "notifying",
              "freeing", "closed"}

WatcherLocations == {"none", "select", "interrupt", "fire", "release", "await"}

\* The state every field of the model has its type in.
TypeOK ==
    /\ pc \in [Conns -> Locations]
    /\ want \in [Conns -> Tables]
    /\ after \in [Conns -> Locations]
    /\ fired \in [Conns -> BOOLEAN]
    /\ waitLocked \in [Conns -> BOOLEAN]
    /\ mu \in [Conns -> BOOLEAN]
    /\ freed \in [Conns -> BOOLEAN]
    /\ watcher \in [Conns -> WatcherLocations]
    /\ done \in [Conns -> {"nil", "open", "closed"}]
    /\ isInterrupted \in [Conns -> BOOLEAN]
    /\ holder \in [Tables -> Conns \cup {None}]
    /\ blocking \in [Conns -> Conns \cup {None}]
    /\ unlockOn \in [Conns -> Conns \cup {None}]
    /\ mutex \in Conns \cup {None}
    /\ todo \in SUBSET Conns
    /\ firing \in Conns \cup {None}
    /\ crashed \in BOOLEAN

\* Connections freshly opened: allocUnlockNote has locked wait.
Init ==
    /\ pc = [c \in Conns |-> "idle"]
    /\ want \in {[c \in Conns |-> t] : t \in Tables}
    /\ after = [c \in Conns |-> "idle"]
    /\ fired = [c \in Conns |-> FALSE]
    /\ waitLocked = [c \in Conns |-> TRUE]
    /\ mu = [c \in Conns |-> FALSE]
    /\ freed = [c \in Conns |-> FALSE]
    /\ watcher = [c \in Conns |-> "none"]
    /\ done = [c \in Conns |-> "nil"]
    /\ isInterrupted = [c \in Conns |-> FALSE]
    /\ holder = [t \in Tables |-> None]
    /\ blocking = [c \in Conns |-> None]
    /\ unlockOn = [c \in Conns |-> None]
    /\ mutex = None
    /\ todo = {}
    /\ firing = None
    /\ crashed = FALSE

Held(c) == {t \in Tables : holder[t] = c}

Goto(c, l) == pc' = [pc EXCEPT ![c] = l]

\* A step that only looks.
Move(c, l) ==
    /\ Goto(c, l)
    /\ UNCHANGED <<want, noteVars, watchVars, sqliteVars, mutexVars>>
-----------------------------------------------------------------------------
(***************************************************************************)
(* Stmt.step: the loop of sqlite3_step and waitForUnlockNotify.            *)
(***************************************************************************)

\* Step is called for a statement that needs table t.
StepCall(c, t) ==
    /\ pc[c] = "idle"
    /\ Goto(c, "test")
    /\ want' = [want EXCEPT ![c] = t]
    /\ UNCHANGED <<noteVars, watchVars, sqliteVars, mutexVars>>

\* stmt.interrupted(): a closed doneCh ends the Step with SQLITE_INTERRUPT.
StepTest(c) ==
    /\ pc[c] = "test"
    /\ Move(c, IF done[c] = "closed" THEN "idle" ELSE "step")

\* sqlite3_step: starting the only statement of a connection drops an earlier
\* interrupt; then the statement gets its lock and runs, or is refused with
\* SQLITE_LOCKED_SHAREDCACHE and SQLite notes who blocks it.
SqliteStep(c) ==
    /\ pc[c] = "step"
    /\ isInterrupted' = [isInterrupted EXCEPT ![c] = FALSE]
    /\ \/ /\ holder[want[c]] \in {None, c}
          /\ holder' = [holder EXCEPT ![want[c]] = c]
          /\ Goto(c, "run")
          /\ UNCHANGED <<blocking, unlockOn>>
       \/ /\ holder[want[c]] \notin {None, c}
          /\ mutex = None
          /\ blocking' = [blocking EXCEPT ![c] = holder[want[c]]]
          /\ Goto(c, "read")
          /\ UNCHANGED <<holder, unlockOn>>
    /\ UNCHANGED <<want, noteVars, watcher, done, mutexVars>>

\* The query runs until it is done, or until it sees the interrupt flag.
RunDone(c) ==
    /\ pc[c] = "run"
    /\ Move(c, "idle")

RunInterrupted(c) ==
    /\ pc[c] = "run"
    /\ isInterrupted[c]
    /\ Move(c, "idle")
-----------------------------------------------------------------------------
(***************************************************************************)
(* waitForUnlockNotify, one shared access at a time.                       *)
(***************************************************************************)

\* Mutant: the wait that fireUnlockNote unlocked is not locked again.
ReadFiredForgetsWait(c) ==
    /\ pc[c] = "read"
    /\ Move(c, "clear")

\* if un.fired ... (without mu)
ReadFired(c) ==
    /\ pc[c] = "read"
    /\ Move(c, IF fired[c] THEN "relock" ELSE "clear")

\* ... { un.wait.Lock() }
Relock(c) ==
    /\ pc[c] = "relock"
    /\ ~waitLocked[c]
    /\ waitLocked' = [waitLocked EXCEPT ![c] = TRUE]
    /\ Goto(c, "clear")
    /\ UNCHANGED <<want, fired, mu, freed, watchVars, sqliteVars, mutexVars>>

\* un.fired = false (without mu)
ClearFired(c) ==
    /\ pc[c] = "clear"
    /\ fired' = [fired EXCEPT ![c] = FALSE]
    /\ Goto(c, "register")
    /\ UNCHANGED <<want, waitLocked, mu, freed, watchVars, sqliteVars,
                   mutexVars>>

\* Following the registrations from d leads back to c.
Reaches(d, c) ==
    \A S \in SUBSET Conns :
        (d \in S /\ \A p \in S : unlockOn[p] # None => unlockOn[p] \in S)
            => c \in S

\* Mutant: the result of sqlite3_unlock_notify is ignored.
UnlockNotifyIgnoresResult(c) ==
    /\ pc[c] = "register"
    /\ blocking[c] # None
    /\ mutex = None
    /\ unlockOn' = [unlockOn EXCEPT ![c] =
                       IF Reaches(blocking[c], c) THEN None ELSE blocking[c]]
    /\ Goto(c, "check")
    /\ UNCHANGED <<want, noteVars, watchVars, holder, blocking, mutexVars>>

\* sqlite3_unlock_notify: calls back at once when the blocker is gone, refuses
\* with SQLITE_LOCKED when waiting would close a cycle, registers otherwise.
UnlockNotify(c) ==
    /\ pc[c] = "register"
    /\ mutex = None
    /\ \/ /\ blocking[c] = None
          /\ mutex' = c
          /\ todo' = {c}
          /\ after' = [after EXCEPT ![c] = "check"]
          /\ Goto(c, "notifying")
          /\ UNCHANGED <<unlockOn, firing>>
       \/ /\ blocking[c] # None
          /\ Reaches(blocking[c], c)
          /\ Goto(c, "idle")
          /\ UNCHANGED <<unlockOn, mutexVars>>
       \/ /\ blocking[c] # None
          /\ ~Reaches(blocking[c], c)
          /\ unlockOn' = [unlockOn EXCEPT ![c] = blocking[c]]
          /\ Goto(c, "check")
          /\ UNCHANGED mutexVars
    /\ UNCHANGED <<want, noteVars, watchVars, holder, blocking>>

\* un.mu.Lock(); fired := un.fired; un.mu.Unlock()
CheckFired(c) ==
    /\ pc[c] = "check"
    /\ ~mu[c]
    /\ Move(c, IF fired[c] THEN "test" ELSE "blocked")

\* un.wait.Lock(); un.wait.Unlock(), then sqlite3_reset and around the loop.
Wake(c) ==
    /\ pc[c] = "blocked"
    /\ ~waitLocked[c]
    /\ Move(c, "test")
-----------------------------------------------------------------------------
(***************************************************************************)
(* The end of a transaction calls unlockNotifyCallback, which fires the    *)
(* notes of all the connections registered for it.                         *)
(***************************************************************************)

\* The application runs COMMIT or ROLLBACK.  It is a Step of its own, so a
\* closed doneCh refuses it.
EndTransaction(c) ==
    /\ pc[c] = "idle"
    /\ Held(c) # {}
    /\ done[c] # "closed"
    /\ holder' = [t \in Tables |-> IF holder[t] = c THEN None ELSE holder[t]]
    /\ after' = [after EXCEPT ![c] = "idle"]
    /\ Goto(c, "unlocking")
    /\ UNCHANGED <<want, noteVars, watchVars, blocking, unlockOn, mutex,
                   todo, firing>>

\* SQLite takes its global mutex, forgets c as a blocker and collects the
\* arguments of the callbacks registered for c.
ConnectionUnlocked(c) ==
    /\ pc[c] = "unlocking"
    /\ mutex = None
    /\ mutex' = c
    /\ todo' = {d \in Conns : unlockOn[d] = c}
    /\ blocking' = [d \in Conns |->
                       IF blocking[d] = c THEN None ELSE blocking[d]]
    /\ unlockOn' = [d \in Conns |->
                       IF unlockOn[d] = c THEN None ELSE unlockOn[d]]
    /\ Goto(c, "notifying")
    /\ UNCHANGED <<want, noteVars, watchVars, holder, firing, after>>

\* fireUnlockNote up to `un.fired = true`, for the next note of the array.  A
\* note that has fired already is left alone.
CallbackFire(c, d) ==
    /\ pc[c] = "notifying"
    /\ firing = None
    /\ d \in todo
    /\ ~mu[d]
    /\ IF fired[d]
         THEN /\ todo' = todo \ {d}
              /\ UNCHANGED <<fired, mu, firing>>
         ELSE /\ fired' = [fired EXCEPT ![d] = TRUE]
              /\ mu' = [mu EXCEPT ![d] = TRUE]
              /\ firing' = d
              /\ UNCHANGED todo
    /\ UNCHANGED <<pc, want, waitLocked, freed, watchVars, sqliteVars, mutex,
                   after>>

\* Mutant: fired is set and wait stays locked.
CallbackReleaseKeepsWait(c) ==
    /\ pc[c] = "notifying"
    /\ firing # None
    /\ mu' = [mu EXCEPT ![firing] = FALSE]
    /\ todo' = todo \ {firing}
    /\ firing' = None
    /\ UNCHANGED <<pc, want, fired, waitLocked, freed, watchVars, sqliteVars,
                   mutex, after>>

\* un.wait.Unlock(); un.mu.Unlock()
CallbackRelease(c) ==
    /\ pc[c] = "notifying"
    /\ firing # None
    /\ waitLocked[firing]
    /\ waitLocked' = [waitLocked EXCEPT ![firing] = FALSE]
    /\ mu' = [mu EXCEPT ![firing] = FALSE]
    /\ todo' = todo \ {firing}
    /\ firing' = None
    /\ UNCHANGED <<pc, want, fired, freed, watchVars, sqliteVars, mutex, after>>

\* SQLite leaves its global mutex when every callback has returned.
LeaveMutex(c) ==
    /\ pc[c] = "notifying"
    /\ todo = {}
    /\ mutex' = None
    /\ Goto(c, after[c])
    /\ UNCHANGED <<want, noteVars, watchVars, sqliteVars, todo, firing,
                   after>>
-----------------------------------------------------------------------------
(***************************************************************************)
(* Conn.SetInterrupt, its watcher goroutine, and Conn.Close.               *)
(***************************************************************************)

\* cancelInterrupt can complete: there is no watcher, or it is at a receive
\* from cancelCh.
Joinable(c) == watcher[c] \in {"none", "select", "await"}

\* Mutant: the old watcher is not joined and goes on.
SetInterruptWithoutJoin(c, ch) ==
    /\ pc[c] = "idle"
    /\ ch # "nil" => c \in Interruptible
    /\ done' = [done EXCEPT ![c] = ch]
    /\ watcher' = [watcher EXCEPT
                      ![c] = IF @ = "none" /\ ch # "nil" THEN "select" ELSE @]
    /\ UNCHANGED <<pc, want, noteVars, isInterrupted, sqliteVars, mutexVars>>

\* SetInterrupt joins the old watcher, stores doneCh and starts a new watcher
\* unless doneCh is nil.  The channel may be closed already.
SetInterrupt(c, ch) ==
    /\ pc[c] = "idle"
    /\ Joinable(c)
    /\ ch # "nil" => c \in Interruptible
    /\ done' = [done EXCEPT ![c] = ch]
    /\ watcher' = [watcher EXCEPT
                      ![c] = IF ch = "nil" THEN "none" ELSE "select"]
    /\ UNCHANGED <<pc, want, noteVars, isInterrupted, sqliteVars, mutexVars>>

\* Somebody closes the channel: a context is cancelled or its deadline passes.
CloseDoneCh(c) ==
    /\ done[c] = "open"
    /\ done' = [done EXCEPT ![c] = "closed"]
    /\ UNCHANGED <<pc, want, noteVars, watcher, isInterrupted, sqliteVars,
                   mutexVars>>

\* The watcher's select takes the doneCh case.
WatcherSelect(c) ==
    /\ watcher[c] = "select"
    /\ done[c] = "closed"
    /\ watcher' = [watcher EXCEPT ![c] = "interrupt"]
    /\ UNCHANGED <<pc, want, noteVars, done, isInterrupted, sqliteVars,
                   mutexVars>>

\* lib.Xsqlite3_interrupt
WatcherInterrupt(c) ==
    /\ watcher[c] = "interrupt"
    /\ isInterrupted' = [isInterrupted EXCEPT ![c] = TRUE]
    /\ watcher' = [watcher EXCEPT ![c] = "fire"]
    /\ UNCHANGED <<pc, want, noteVars, done, sqliteVars, mutexVars>>

\* Mutant: fireUnlockNote returns early with mu locked.
WatcherFireKeepsMu(c) ==
    /\ watcher[c] = "fire"
    /\ ~mu[c]
    /\ mu' = [mu EXCEPT ![c] = TRUE]
    /\ fired' = [fired EXCEPT ![c] = TRUE]
    /\ watcher' = [watcher EXCEPT ![c] = IF fired[c] THEN "fire" ELSE "release"]
    /\ UNCHANGED <<pc, want, waitLocked, freed, done, isInterrupted,
                   sqliteVars, mutexVars>>

\* fireUnlockNote up to `un.fired = true`
WatcherFire(c) ==
    /\ watcher[c] = "fire"
    /\ ~mu[c]
    /\ IF fired[c]
         THEN /\ watcher' = [watcher EXCEPT ![c] = "await"]
              /\ UNCHANGED <<fired, mu>>
         ELSE /\ fired' = [fired EXCEPT ![c] = TRUE]
              /\ mu' = [mu EXCEPT ![c] = TRUE]
              /\ watcher' = [watcher EXCEPT ![c] = "release"]
    /\ UNCHANGED <<pc, want, waitLocked, freed, done, isInterrupted,
                   sqliteVars, mutexVars>>

\* un.wait.Unlock(); un.mu.Unlock()
WatcherRelease(c) ==
    /\ watcher[c] = "release"
    /\ waitLocked[c]
    /\ waitLocked' = [waitLocked EXCEPT ![c] = FALSE]
    /\ mu' = [mu EXCEPT ![c] = FALSE]
    /\ watcher' = [watcher EXCEPT ![c] = "await"]
    /\ UNCHANGED <<pc, want, fired, freed, done, isInterrupted, sqliteVars,
                   mutexVars>>

\* Mutant: Close does not join the watcher.
CloseWithoutJoin(c) ==
    /\ pc[c] = "idle"
    /\ holder' = [t \in Tables |-> IF holder[t] = c THEN None ELSE holder[t]]
    /\ after' = [after EXCEPT ![c] = "freeing"]
    /\ Goto(c, "unlocking")
    /\ UNCHANGED <<want, noteVars, watchVars, blocking, unlockOn, mutex, todo,
                   firing>>

\* Close joins the watcher; sqlite3_close ends the transaction ...
Close(c) ==
    /\ pc[c] = "idle"
    /\ Joinable(c)
    /\ watcher' = [watcher EXCEPT ![c] = "none"]
    /\ holder' = [t \in Tables |-> IF holder[t] = c THEN None ELSE holder[t]]
    /\ after' = [after EXCEPT ![c] = "freeing"]
    /\ Goto(c, "unlocking")
    /\ UNCHANGED <<want, noteVars, done, isInterrupted, blocking, unlockOn,
                   mutex, todo, firing>>

\* ... and takes the connection off SQLite's list; then the note is freed.
FreeNote(c) ==
    /\ pc[c] = "freeing"
    /\ mutex = None
    /\ blocking' = [blocking EXCEPT ![c] = None]
    /\ unlockOn' = [unlockOn EXCEPT ![c] = None]
    /\ freed' = [freed EXCEPT ![c] = TRUE]
    /\ Goto(c, "closed")
    /\ UNCHANGED <<want, fired, waitLocked, mu, watchVars, holder, mutexVars>>

\* openConn makes a new connection with a new note, whose wait
\* allocUnlockNote has locked.
OpenConn(c) ==
    /\ pc[c] = "closed"
    /\ fired' = [fired EXCEPT ![c] = FALSE]
    /\ waitLocked' = [waitLocked EXCEPT ![c] = TRUE]
    /\ freed' = [freed EXCEPT ![c] = FALSE]
    /\ done' = [done EXCEPT ![c] = "nil"]
    /\ isInterrupted' = [isInterrupted EXCEPT ![c] = FALSE]
    /\ Goto(c, "idle")
    /\ UNCHANGED <<want, mu, watcher, sqliteVars, mutexVars>>

\* Unlocking a sync.Mutex that is not locked aborts the program.
FatalUnlock ==
    /\ \/ \E c \in Conns : watcher[c] = "release" /\ ~waitLocked[c]
       \/ firing # None /\ ~waitLocked[firing]
    /\ crashed' = TRUE
    /\ UNCHANGED <<pc, want, noteVars, watchVars, sqliteVars, mutexVars>>

\* After such an abort nothing of the process runs any more.
Aborted == crashed /\ UNCHANGED vars
-----------------------------------------------------------------------------
App(c) ==
    \/ \E t \in Tables : StepCall(c, t)
    \/ EndTransaction(c)
    \/ \E ch \in {"nil", "open", "closed"} : SetInterrupt(c, ch)
    \/ Close(c)
    \/ OpenConn(c)

\* What a goroutine does by itself once it is inside a call.
Inside(c) ==
    \/ StepTest(c)
    \/ SqliteStep(c)
    \/ ReadFired(c)
    \/ Relock(c)
    \/ ClearFired(c)
    \/ UnlockNotify(c)
    \/ CheckFired(c)
    \/ Wake(c)
    \/ ConnectionUnlocked(c)
    \/ \E d \in Conns : CallbackFire(c, d)
    \/ CallbackRelease(c)
    \/ LeaveMutex(c)
    \/ FreeNote(c)

Watcher(c) ==
    \/ WatcherSelect(c)
    \/ WatcherInterrupt(c)
    \/ WatcherFire(c)
    \/ WatcherRelease(c)

ConnNext(c) ==
    \/ App(c)
    \/ Inside(c)
    \/ RunDone(c)
    \/ RunInterrupted(c)
    \/ CloseDoneCh(c)
    \/ Watcher(c)

Next ==
    \/ ~crashed /\ UNCHANGED crashed /\ \E c \in Conns : ConnNext(c)
    \/ ~crashed /\ FatalUnlock
    \/ Aborted

Spec == Init /\ [][Next]_vars
-----------------------------------------------------------------------------
(***************************************************************************)
(* Fairness.  Once inside a call a goroutine waits only for mutexes, and   *)
(* Go's sync.Mutex hands itself to a waiter that has starved; so what it   *)
(* can do again and again it does.  Nothing makes an application call      *)
(* Step, end a transaction or cancel a context, and a query may run for as *)
(* long as it likes.                                                       *)
(***************************************************************************)

Alive(A) == ~crashed /\ A /\ UNCHANGED crashed

CallFairness ==
    /\ WF_vars(~crashed /\ FatalUnlock)
    /\ \A c \in Conns :
        /\ SF_vars(Alive(Inside(c)))
        /\ SF_vars(Alive(Watcher(c)))
        /\ WF_vars(Alive(RunInterrupted(c)))

\* Applications that finish their queries and, given the chance again and
\* again, end their transactions.
AppFairness ==
    \A c \in Conns :
        /\ WF_vars(Alive(RunDone(c)))
        /\ SF_vars(Alive(EndTransaction(c)))

FairSpec == Spec /\ CallFairness

FairAppSpec == Spec /\ CallFairness /\ AppFairness
-----------------------------------------------------------------------------
\* The comment on unlockNote.wait: it is "held while fired == false".  Then the
\* Unlock in fireUnlockNote always finds it locked.
WaitHeldWhileUnfired == \A c \in Conns : ~fired[c] => waitLocked[c]

\* No wakeup is lost: a Step that is blocked in waitForUnlockNotify is
\* registered with a connection whose transaction is still open or is ending,
\* or somebody is about to fire its note.
BlockedIsAwaited ==
    \A c \in Conns :
        (pc[c] = "blocked" /\ waitLocked[c]) =>
            \/ c \in todo
            \/ watcher[c] = "release"
            \/ /\ unlockOn[c] # None
               /\ \/ Held(unlockOn[c]) # {}
                  \/ pc[unlockOn[c]] = "unlocking"

\* Steps never block on each other in a circle: step returns the SQLITE_LOCKED
\* of sqlite3_unlock_notify instead of waiting.
NoCircularWait ==
    \A S \in SUBSET Conns :
        S # {} => \E c \in S : ~( /\ pc[c] = "blocked"
                                  /\ waitLocked[c]
                                  /\ blocking[c] \in S )

\* Close frees the unlockNote only when neither the watcher nor a callback can
\* touch it any more.
FreedNoteUntouched ==
    \A c \in Conns :
        freed[c] => c \notin todo /\ firing # c /\ watcher[c] = "none"

\* A watcher interrupts the connection only for the doneCh that is installed
\* now: SetInterrupt joins the watcher of the old channel before it returns.
NoStaleInterrupt ==
    \A c \in Conns :
        watcher[c] \notin {"none", "select"} => done[c] = "closed"

\* The handshake of cancelInterrupt never hangs: a watcher that is busy firing
\* the note comes back to its receive, so SetInterrupt and Close return, unless
\* the process is aborted first.
JoinNeverHangs == \A c \in Conns : ~Joinable(c) ~> (Joinable(c) \/ crashed)

\* A Step blocked on another transaction continues once that transaction ends.
BlockedStepWakes == \A c \in Conns : pc[c] = "blocked" ~> pc[c] # "blocked"

\* The doc of SetInterrupt: closing doneCh cancels Step calls that are blocked.
InterruptCancelsBlockedStep ==
    \A c \in Conns :
        (pc[c] = "blocked" /\ done[c] = "closed") ~> pc[c] # "blocked"
=============================================================================
