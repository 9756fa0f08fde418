--------------------------- MODULE MigrationPool ----------------------------
(***************************************************************************)
(* sqlitemigration.Pool: a pool that opens and migrates its database in    *)
(* the background (sqlitemigration.go).  NewPool starts a goroutine, the   *)
(* opener, that runs Pool.open; Take waits for it and tells it through a   *)
(* channel of capacity one to try again; Close cancels it and waits.       *)
(*                                                                         *)
(* The sqlitex.Pool inside is used through what it promises, PoolLease,    *)
(* and migrateDB is reduced to its outcome; Pool and Migrate model them.   *)
(***************************************************************************)
EXTENDS Naturals

CONSTANTS
    Clients,  \* goroutines that take connections
    Closers,  \* goroutines that call Close
    Opener,   \* the goroutine of NewPool
    Conns     \* the connections of the sqlitex.Pool

ASSUME MigrationPoolAssumption ==
    /\ Opener \notin Clients
    /\ (Clients \cup {Opener}) \cap {"unopened", "free", "closed"} = {}
    /\ Conns # {}

VARIABLES
    opener,    \* where Pool.open is
    migrated,  \* migrateDB has succeeded
    outcome,   \* p.pool and p.err: "none" yet, a "pool", or an "error"
    ready,     \* p.ready is closed
    retry,     \* elements in p.retry, a channel of capacity 1
    cancelled, \* p.cancel was called
    owner,     \* who has each connection of the sqlitex.Pool
    shut,      \* its Close was called
    client,    \* where each client is
    closed,    \* p.closed
    closer,    \* where each call of Close is
    health,    \* CheckHealth: "idle", "select", or what it returned
    onStart,   \* calls of OnStartMigrate
    onReady    \* calls of OnReady

poolVars == <<owner, shut>>
openVars == <<opener, migrated, outcome, ready, onStart, onReady>>
mpvars == <<openVars, retry, cancelled, poolVars, client, closed, closer, health>>

Lease == INSTANCE PoolLease WITH Clients <- Clients \cup {Opener}

\* The variables have their types; p.retry never exceeds its capacity.
MigrationPoolTypeOK ==
    /\ opener \in {"open", "select", "take", "ensure", "migrate", "putOk",
                   "putErr", "close", "closing", "publish", "done"}
    /\ migrated \in BOOLEAN
    /\ outcome \in {"none", "pool", "error"}
    /\ ready \in BOOLEAN
    /\ retry \in 0 .. 1
    /\ cancelled \in BOOLEAN
    /\ owner \in [Conns -> Clients \cup {Opener, "unopened", "free", "closed"}]
    /\ shut \in BOOLEAN
    /\ client \in [Clients -> {"idle", "signal", "wait", "take", "holding"}]
    /\ closed \in BOOLEAN
    /\ closer \in [Closers -> {"idle", "cancel", "await", "shut", "retire",
                               "returned", "refused"}]
    /\ health \in {"idle", "select", "healthy", "unhealthy"}
    /\ onStart \in Nat
    /\ onReady \in Nat

\* NewPool has returned.
MigrationPoolInit ==
    /\ opener = "open"
    /\ migrated = FALSE
    /\ outcome = "none"
    /\ ready = FALSE
    /\ retry = 0
    /\ cancelled = FALSE
    /\ Lease!Init
    /\ client = [g \in Clients |-> "idle"]
    /\ closed = FALSE
    /\ closer = [k \in Closers |-> "idle"]
    /\ health = "idle"
    /\ onStart = 0
    /\ onReady = 0
-----------------------------------------------------------------------------
(***************************************************************************)
(* Pool.open and the goroutine around it.                                  *)
(***************************************************************************)

\* sqlitex.NewPool opens all its connections ...
OpenSucceeds ==
    /\ opener = "open"
    /\ opener' = "take"
    /\ owner' = [c \in Conns |-> "free"]
    /\ shut' = FALSE
    /\ UNCHANGED <<migrated, outcome, ready, onStart, onReady, retry, cancelled,
                   client, closed, closer, health>>

\* ... or none: OnError, and the next round of the loop.
OpenFails ==
    /\ opener = "open"
    /\ opener' = "select"
    /\ UNCHANGED <<migrated, outcome, ready, onStart, onReady, retry, cancelled,
                   poolVars, client, closed, closer, health>>

Retry ==
    /\ opener = "select"
    /\ retry > 0
    /\ retry' = retry - 1
    /\ opener' = "open"
    /\ UNCHANGED <<migrated, outcome, ready, onStart, onReady, cancelled,
                   poolVars, client, closed, closer, health>>

Cancelled ==
    /\ opener = "select"
    /\ cancelled
    /\ opener' = "publish"
    /\ outcome' = "error"
    /\ UNCHANGED <<migrated, ready, onStart, onReady, retry, cancelled, poolVars,
                   client, closed, closer, health>>

\* pool.Take chooses freely between a connection and an ended context.
OpenerTakes ==
    /\ opener = "take"
    /\ \E c \in Conns : Lease!Lend(c, Opener)
    /\ opener' = "ensure"
    /\ UNCHANGED <<migrated, outcome, ready, onStart, onReady, retry, cancelled,
                   client, closed, closer, health>>

\* The context has ended, or PrepareConn fails.
OpenerTakeFails ==
    /\ opener = "take"
    /\ opener' = "close"
    /\ UNCHANGED <<migrated, outcome, ready, onStart, onReady, retry, cancelled,
                   poolVars, client, closed, closer, health>>

\* ensureAppID succeeds and migrateDB calls OnStartMigrate.
MigrateStarts ==
    /\ opener = "ensure"
    /\ ~cancelled
    /\ onStart' = onStart + 1
    /\ opener' = "migrate"
    /\ UNCHANGED <<migrated, outcome, ready, onReady, retry, cancelled, poolVars,
                   client, closed, closer, health>>

MigrateSucceeds ==
    /\ opener = "migrate"
    /\ ~cancelled
    /\ migrated' = TRUE
    /\ opener' = "putOk"
    /\ UNCHANGED <<outcome, ready, onStart, onReady, retry, cancelled, poolVars,
                   client, closed, closer, health>>

MigrateFails ==
    /\ opener \in {"ensure", "migrate"}
    /\ opener' = "putErr"
    /\ UNCHANGED <<migrated, outcome, ready, onStart, onReady, retry, cancelled,
                   poolVars, client, closed, closer, health>>

\* pool.Put, OnReady, and the assignment to p.pool.
OpenerPuts ==
    /\ opener = "putOk"
    /\ \E c \in Conns : Lease!Return(c, Opener)
    /\ onReady' = onReady + 1
    /\ outcome' = "pool"
    /\ opener' = "publish"
    /\ UNCHANGED <<migrated, ready, onStart, retry, cancelled, client, closed,
                   closer, health>>

\* Mutant: the pool is not closed after a failed migration.
OpenerForgetsPool ==
    /\ opener = "putErr"
    /\ \E c \in Conns : Lease!Return(c, Opener)
    /\ outcome' = "error"
    /\ opener' = "publish"
    /\ UNCHANGED <<migrated, ready, onStart, onReady, retry, cancelled, client,
                   closed, closer, health>>

\* pool.Put after a failed migration ...
OpenerPutsBack ==
    /\ opener = "putErr"
    /\ \E c \in Conns : Lease!Return(c, Opener)
    /\ opener' = "close"
    /\ UNCHANGED <<migrated, outcome, ready, onStart, onReady, retry, cancelled,
                   client, closed, closer, health>>

\* ... and pool.Close, whose last step is the assignment to p.err.
OpenerShuts ==
    /\ opener = "close"
    /\ Lease!Shut
    /\ opener' = "closing"
    /\ UNCHANGED <<migrated, outcome, ready, onStart, onReady, retry, cancelled,
                   client, closed, closer, health>>

OpenerRetires ==
    /\ opener = "closing"
    /\ \E c \in Conns : Lease!Retire(c)
    /\ UNCHANGED <<openVars, retry, cancelled, client, closed, closer, health>>

OpenerClosed ==
    /\ opener = "closing"
    /\ \A c \in Conns : owner[c] = "closed"
    /\ outcome' = "error"
    /\ opener' = "publish"
    /\ UNCHANGED <<migrated, ready, onStart, onReady, retry, cancelled, poolVars,
                   client, closed, closer, health>>

\* OnError, and the deferred cancel() and close(ready).
Publish ==
    /\ opener = "publish"
    /\ opener' = "done"
    /\ cancelled' = TRUE
    /\ ready' = TRUE
    /\ UNCHANGED <<migrated, outcome, onStart, onReady, retry, poolVars, client,
                   closed, closer, health>>

OpenerStep ==
    \/ OpenSucceeds
    \/ OpenFails
    \/ Retry
    \/ Cancelled
    \/ OpenerTakes
    \/ OpenerTakeFails
    \/ MigrateStarts
    \/ MigrateSucceeds
    \/ MigrateFails
    \/ OpenerPuts
    \/ OpenerPutsBack
    \/ OpenerShuts
    \/ OpenerRetires
    \/ OpenerClosed
    \/ Publish
-----------------------------------------------------------------------------
(***************************************************************************)
(* Take and Put.                                                           *)
(***************************************************************************)

TakeCall(g) ==
    /\ client[g] = "idle"
    /\ client' = [client EXCEPT ![g] = "signal"]
    /\ UNCHANGED <<openVars, retry, cancelled, poolVars, closed, closer, health>>

\* "Inform Pool.open to keep trying."  A full channel is left as it is.
Signal(g) ==
    /\ client[g] = "signal"
    /\ retry' = 1
    /\ client' = [client EXCEPT ![g] = "wait"]
    /\ UNCHANGED <<openVars, cancelled, poolVars, closed, closer, health>>

\* Mutant: a tick does not signal again.
TickWaits(g) ==
    /\ client[g] = "wait"
    /\ UNCHANGED mpvars

\* The ticker of 5 seconds: another try.
Tick(g) ==
    /\ client[g] = "wait"
    /\ client' = [client EXCEPT ![g] = "signal"]
    /\ UNCHANGED <<openVars, retry, cancelled, poolVars, closed, closer, health>>

\* Mutant: Take does not wait for the migration.
TakeUnready(g) ==
    /\ client[g] = "wait"
    /\ client' = [client EXCEPT ![g] = IF outcome = "error" THEN "idle" ELSE "take"]
    /\ UNCHANGED <<openVars, retry, cancelled, poolVars, closed, closer, health>>

\* p.ready is closed: p.err is returned, or the sqlitex.Pool used.
TakeReady(g) ==
    /\ client[g] = "wait"
    /\ ready
    /\ client' = [client EXCEPT ![g] = IF outcome = "error" THEN "idle" ELSE "take"]
    /\ UNCHANGED <<openVars, retry, cancelled, poolVars, closed, closer, health>>

\* The client's context ends while Take waits.
TakeCtxDone(g) ==
    /\ client[g] = "wait"
    /\ client' = [client EXCEPT ![g] = "idle"]
    /\ UNCHANGED <<openVars, retry, cancelled, poolVars, closed, closer, health>>

\* p.pool.Take succeeds ...
InnerTake(g) ==
    /\ client[g] = "take"
    /\ \E c \in Conns : Lease!Lend(c, g)
    /\ client' = [client EXCEPT ![g] = "holding"]
    /\ UNCHANGED <<openVars, retry, cancelled, closed, closer, health>>

\* ... or fails: closed, context ended, or PrepareConn failed.
InnerTakeFails(g) ==
    /\ client[g] = "take"
    /\ client' = [client EXCEPT ![g] = "idle"]
    /\ UNCHANGED <<openVars, retry, cancelled, poolVars, closed, closer, health>>

\* Put panics before the pool is ready and on a failed pool: neither happens
\* to a client that has a connection (UsedAfterMigration).
Put(g) ==
    /\ client[g] = "holding"
    /\ ready /\ outcome = "pool"
    /\ \E c \in Conns : Lease!Return(c, g)
    /\ client' = [client EXCEPT ![g] = "idle"]
    /\ UNCHANGED <<openVars, retry, cancelled, closed, closer, health>>

ClientStep(g) ==
    \/ TakeCall(g)
    \/ Signal(g)
    \/ Tick(g)
    \/ TakeReady(g)
    \/ TakeCtxDone(g)
    \/ InnerTake(g)
    \/ InnerTakeFails(g)
    \/ Put(g)
-----------------------------------------------------------------------------
(***************************************************************************)
(* Close and CheckHealth.                                                  *)
(***************************************************************************)

At(k, l) == closer' = [closer EXCEPT ![k] = l]

CloseCall(k) ==
    /\ closer[k] = "idle"
    /\ closed' = TRUE
    /\ At(k, IF closed THEN "refused" ELSE "cancel")
    /\ UNCHANGED <<openVars, retry, cancelled, poolVars, client, health>>

\* Mutant: Close waits for the opener without cancelling it.
CloseWithoutCancel(k) ==
    /\ closer[k] = "cancel"
    /\ At(k, "await")
    /\ UNCHANGED <<openVars, retry, cancelled, poolVars, client, closed, health>>

CloseCancel(k) ==
    /\ closer[k] = "cancel"
    /\ cancelled' = TRUE
    /\ At(k, "await")
    /\ UNCHANGED <<openVars, retry, poolVars, client, closed, health>>

\* <-p.ready; with no pool there is nothing to close.
CloseAwaits(k) ==
    /\ closer[k] = "await"
    /\ ready
    /\ At(k, IF outcome = "pool" THEN "shut" ELSE "returned")
    /\ UNCHANGED <<openVars, retry, cancelled, poolVars, client, closed, health>>

\* p.pool.Close
CloseShuts(k) ==
    /\ closer[k] = "shut"
    /\ Lease!Shut
    /\ At(k, "retire")
    /\ UNCHANGED <<openVars, retry, cancelled, client, closed, health>>

CloseRetires(k) ==
    /\ closer[k] = "retire"
    /\ \E c \in Conns : Lease!Retire(c)
    /\ UNCHANGED <<openVars, retry, cancelled, client, closed, closer, health>>

CloseReturns(k) ==
    /\ closer[k] = "retire"
    /\ \A c \in Conns : owner[c] = "closed"
    /\ At(k, "returned")
    /\ UNCHANGED <<openVars, retry, cancelled, poolVars, client, closed, health>>

CloserStep(k) ==
    \/ CloseCall(k)
    \/ CloseCancel(k)
    \/ CloseAwaits(k)
    \/ CloseShuts(k)
    \/ CloseRetires(k)
    \/ CloseReturns(k)

\* CheckHealth reads p.closed under its lock ...
HealthCall ==
    /\ health # "select"
    /\ health' = IF closed THEN "unhealthy" ELSE "select"
    /\ UNCHANGED <<openVars, retry, cancelled, poolVars, client, closed, closer>>

\* ... and then p.ready and p.err.
HealthReport ==
    /\ health = "select"
    /\ health' = IF ready /\ outcome # "error" THEN "healthy" ELSE "unhealthy"
    /\ UNCHANGED <<openVars, retry, cancelled, poolVars, client, closed, closer>>
-----------------------------------------------------------------------------
MigrationPoolNext ==
    \/ OpenerStep
    \/ \E g \in Clients : ClientStep(g)
    \/ \E k \in Closers : CloserStep(k)
    \/ HealthCall
    \/ HealthReport

MigrationPoolSpec == MigrationPoolInit /\ [][MigrationPoolNext]_mpvars

\* Goroutines that can run do; a client gives back what it took.  The select
\* of Pool.open picks at random among the ready cases, so a context that has
\* ended is not passed over forever: Cancelled is strongly fair.  So is the
\* receive of sqlitex.Pool.Close: receivers of a channel are served in order.
Fairness ==
    /\ WF_mpvars(OpenerStep)
    /\ SF_mpvars(Cancelled)
    /\ \A g \in Clients :
          /\ WF_mpvars(Signal(g) \/ Tick(g))
          /\ WF_mpvars(TakeReady(g))
          /\ WF_mpvars(InnerTake(g) \/ InnerTakeFails(g))
          /\ WF_mpvars(Put(g))
    /\ \A k \in Closers :
          /\ WF_mpvars(CloseCancel(k) \/ CloseAwaits(k) \/ CloseShuts(k)
                     \/ CloseReturns(k))
          /\ SF_mpvars(CloseRetires(k))

MigrationPoolFairSpec == MigrationPoolSpec /\ Fairness
-----------------------------------------------------------------------------
(***************************************************************************)
(* Properties.                                                             *)
(***************************************************************************)

\* Nobody has a connection of a database that is not migrated, and a client
\* that has one meets neither panic of Put.
UsedAfterMigration ==
    \A g \in Clients :
        (\E c \in Conns : owner[c] = g) => migrated /\ ready /\ outcome = "pool"

\* OnStartMigrate and OnReady are called at most once, in that order, whatever
\* is retried; the pool is ready only if both were.
SignalsOnce ==
    /\ onStart <= 1
    /\ onReady <= 1
    /\ onReady <= onStart
    /\ outcome = "pool" => onReady = 1

\* Every path on which Pool.open gives up closes the sqlitex.Pool it opened.
FailedPoolIsClosed ==
    outcome = "error" => \A c \in Conns : owner[c] \in {"unopened", "closed"}

\* When Close has returned, the opener has ended and no connection is open.
ClosedForGood ==
    \A k \in Closers :
        closer[k] = "returned" =>
            /\ opener = "done"
            /\ \A c \in Conns : owner[c] \in {"unopened", "closed"}

\* No connection outlives the migration pool, whichever of Pool.open and Close
\* is responsible for it and however the two race.
NothingLeftOpen == FailedPoolIsClosed /\ ClosedForGood

\* CheckHealth reports a pool healthy only if its database was migrated.
HealthyIsMigrated == health = "healthy" => migrated

\* Close returns, whatever the opener is doing: it leaves its select, gives up
\* the migration or finishes it.
CloseTerminates ==
    \A k \in Closers :
        closer[k] = "cancel" ~> closer[k] = "returned"

\* While a Take waits, a failed attempt to open the database is followed by
\* another one: the signal is neither lost nor needed at the right moment.
KeepsTrying ==
    \A g \in Clients :
        opener = "select" /\ client[g] = "wait"
            ~> opener # "select" \/ client[g] = "idle"
=============================================================================
