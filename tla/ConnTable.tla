----------------------------- MODULE ConnTable ------------------------------
(***************************************************************************)
(* The tables of package sqlite that are keyed by the address of a         *)
(* connection (the sqlite3 pointer): allConns.table, busyHandlers and      *)
(* authorizers.  Goroutines open, use and close a connection each.         *)
(* sqlite3_close frees the address in the middle of Conn.Close, and        *)
(* sqlite3_open_v2 of another goroutine may get it again.                  *)
(***************************************************************************)
EXTENDS Naturals, FiniteSets

CONSTANTS
    Openers,    \* goroutines, each with at most one connection at a time
    Addrs,      \* addresses that malloc hands out
    MaxOpens,   \* calls of OpenConn per goroutine
    NoConn      \* no entry in a table

ASSUME ConnTableAssumption ==
    MaxOpens \in Nat /\ NoConn \notin Openers \X Nat /\ Addrs # {}

VARIABLES
    cpc,           \* where each goroutine is in OpenConn, Close or between
    gen,           \* how many connections it has opened
    addr,          \* Conn.conn, as long as Close needs it
    inUse,         \* addresses that are allocated
    table,         \* allConns.table
    busyHandlers,
    authorizers,
    xBusy,         \* the busy handler SQLite has for the connection
    xAuth,         \* whether SQLite has an authorizer for it
    blockOnBusy,   \* the application has not replaced SetBlockOnBusy
    done,          \* doneCh is closed
    outcome        \* how the last statement of the goroutine ended

ctvars == <<cpc, gen, addr, inUse, table, busyHandlers, authorizers, xBusy,
            xAuth, blockOnBusy, done, outcome>>

Id(g) == <<g, gen[g]>>

\* Between the return of OpenConn and the call of Close.
IsOpen(g) == cpc[g] = "open"

ConnTableTypeOK ==
    /\ cpc \in [Openers -> {"none", "opened", "config", "wal", "busy", "open",
                            "closing", "auth", "handler", "table"}]
    /\ gen \in [Openers -> 0 .. MaxOpens]
    /\ inUse \subseteq Addrs
    /\ \A m \in {table, busyHandlers, authorizers} :
          m \in [Addrs -> (Openers \X (1 .. MaxOpens)) \cup {NoConn}]
    /\ xBusy \in [Openers -> {"none", "timeout", "callback"}]
    /\ outcome \in [Openers -> {"ok", "busy", "panic"}]

ConnTableInit ==
    /\ cpc = [g \in Openers |-> "none"]
    /\ gen = [g \in Openers |-> 0]
    /\ addr = [g \in Openers |-> CHOOSE a \in Addrs : TRUE]
    /\ inUse = {}
    /\ table = [a \in Addrs |-> NoConn]
    /\ busyHandlers = [a \in Addrs |-> NoConn]
    /\ authorizers = [a \in Addrs |-> NoConn]
    /\ xBusy = [g \in Openers |-> "none"]
    /\ xAuth = [g \in Openers |-> FALSE]
    /\ blockOnBusy = [g \in Openers |-> FALSE]
    /\ done = [g \in Openers |-> FALSE]
    /\ outcome = [g \in Openers |-> "ok"]

At(g, l) == cpc[g] = l
To(g, l) == cpc' = [cpc EXCEPT ![g] = l]
-----------------------------------------------------------------------------
(***************************************************************************)
(* OpenConn and openConn.                                                  *)
(***************************************************************************)

\* sqlite3_open_v2 (when it fails, openConn frees all it has allocated).
OpenV2(g) ==
    /\ At(g, "none")
    /\ gen[g] < MaxOpens
    /\ \E a \in Addrs \ inUse :
          /\ inUse' = inUse \cup {a}
          /\ addr' = [addr EXCEPT ![g] = a]
    /\ gen' = [gen EXCEPT ![g] = @ + 1]
    /\ xBusy' = [xBusy EXCEPT ![g] = "none"]
    /\ xAuth' = [xAuth EXCEPT ![g] = FALSE]
    /\ done' = [done EXCEPT ![g] = FALSE]
    /\ blockOnBusy' = [blockOnBusy EXCEPT ![g] = TRUE]
    /\ outcome' = [outcome EXCEPT ![g] = "ok"]
    /\ To(g, "opened")
    /\ UNCHANGED <<table, busyHandlers, authorizers>>

\* Mutant: openConn keeps an entry that is there already.
RegisterKeeps(g) ==
    /\ At(g, "opened")
    /\ table' = [table EXCEPT ![addr[g]] = IF @ = NoConn THEN Id(g) ELSE @]
    /\ To(g, "config")
    /\ UNCHANGED <<gen, addr, inUse, busyHandlers, authorizers, xBusy, xAuth,
                   blockOnBusy, done, outcome>>

Register(g) ==
    /\ At(g, "opened")
    /\ table' = [table EXCEPT ![addr[g]] = Id(g)]
    /\ To(g, "config")
    /\ UNCHANGED <<gen, addr, inUse, busyHandlers, authorizers, xBusy, xAuth,
                   blockOnBusy, done, outcome>>

\* The two calls of sqlite3_db_config; without OpenWAL the next step is
\* SetBlockOnBusy.  A failure closes the connection.
Configure(g) ==
    /\ At(g, "config")
    /\ \E l \in {"wal", "busy", "closing"} : To(g, l)
    /\ UNCHANGED <<gen, addr, inUse, table, busyHandlers, authorizers, xBusy,
                   xAuth, blockOnBusy, done, outcome>>

\* SetBusyTimeout.
SetBusyTimeout(g) ==
    /\ xBusy' = [xBusy EXCEPT ![g] = "timeout"]
    /\ busyHandlers' = [busyHandlers EXCEPT ![addr[g]] = NoConn]

\* OpenWAL: SetBusyTimeout and PRAGMA journal_mode=wal, which may fail.
SetWal(g) ==
    /\ At(g, "wal")
    /\ SetBusyTimeout(g)
    /\ \E l \in {"busy", "closing"} : To(g, l)
    /\ UNCHANGED <<gen, addr, inUse, table, authorizers, xAuth, blockOnBusy,
                   done, outcome>>

\* SetBlockOnBusy and setBusyHandler.
SetBlockOnBusy(g) ==
    /\ busyHandlers' = [busyHandlers EXCEPT ![addr[g]] = Id(g)]
    /\ xBusy' = [xBusy EXCEPT ![g] = "callback"]

OpenReturns(g) ==
    /\ At(g, "busy")
    /\ SetBlockOnBusy(g)
    /\ To(g, "open")
    /\ UNCHANGED <<gen, addr, inUse, table, authorizers, xAuth, blockOnBusy,
                   done, outcome>>
-----------------------------------------------------------------------------
(***************************************************************************)
(* Conn.Close after cancelInterrupt: sqlite3_close, releaseAuthorizer,     *)
(* busyHandlers.Delete and the deletion from allConns.table.               *)
(***************************************************************************)

CloseConn(g) ==
    /\ IsOpen(g)
    /\ To(g, "closing")
    /\ UNCHANGED <<gen, addr, inUse, table, busyHandlers, authorizers, xBusy,
                   xAuth, blockOnBusy, done, outcome>>

\* With a statement that nobody finalized sqlite3_close returns BUSY and the
\* address stays in use for good; Close goes on all the same.
SqliteClose(g) ==
    /\ At(g, "closing")
    /\ inUse' \in {inUse, inUse \ {addr[g]}}
    /\ To(g, "auth")
    /\ UNCHANGED <<gen, addr, table, busyHandlers, authorizers, xBusy, xAuth,
                   blockOnBusy, done, outcome>>

ReleaseAuthorizer(g) ==
    /\ At(g, "auth")
    /\ authorizers' = [authorizers EXCEPT ![addr[g]] = NoConn]
    /\ To(g, "handler")
    /\ UNCHANGED <<gen, addr, inUse, table, busyHandlers, xBusy, xAuth,
                   blockOnBusy, done, outcome>>

DeleteHandler(g) ==
    /\ At(g, "handler")
    /\ busyHandlers' = [busyHandlers EXCEPT ![addr[g]] = NoConn]
    /\ To(g, "table")
    /\ UNCHANGED <<gen, addr, inUse, table, authorizers, xBusy, xAuth,
                   blockOnBusy, done, outcome>>

Unregister(g) ==
    /\ At(g, "table")
    /\ table' = [table EXCEPT ![addr[g]] = NoConn]
    /\ To(g, "none")
    /\ UNCHANGED <<gen, addr, inUse, busyHandlers, authorizers, xBusy, xAuth,
                   blockOnBusy, done, outcome>>
-----------------------------------------------------------------------------
(***************************************************************************)
(* The application, and the callbacks.                                     *)
(***************************************************************************)

\* SetAuthorizer, also with nil.
SetAuthorizer(g) ==
    /\ IsOpen(g)
    /\ \E on \in BOOLEAN :
          /\ authorizers' = [authorizers EXCEPT ![addr[g]] =
                                IF on THEN Id(g) ELSE NoConn]
          /\ xAuth' = [xAuth EXCEPT ![g] = on]
    /\ UNCHANGED <<cpc, gen, addr, inUse, table, busyHandlers, xBusy,
                   blockOnBusy, done, outcome>>

\* SetBusyTimeout or SetBlockOnBusy of the application.
SetBusy(g) ==
    /\ IsOpen(g)
    /\ \/ SetBusyTimeout(g) /\ blockOnBusy' = [blockOnBusy EXCEPT ![g] = FALSE]
       \/ SetBlockOnBusy(g) /\ blockOnBusy' = [blockOnBusy EXCEPT ![g] = TRUE]
    /\ UNCHANGED <<cpc, gen, addr, inUse, table, authorizers, xAuth, done,
                   outcome>>

CloseDoneCh(g) ==
    /\ IsOpen(g)
    /\ done' = [done EXCEPT ![g] = TRUE]
    /\ UNCHANGED <<cpc, gen, addr, inUse, table, busyHandlers, authorizers,
                   xBusy, xAuth, blockOnBusy, outcome>>

\* busyHandlerCallback: the handler of the connection it finds waits for the
\* timer, again and again, or until the doneCh of that connection is closed.
GivesUp(g) ==
    LET c == busyHandlers[addr[g]] IN
    (xBusy[g] = "callback" /\ c # NoConn) => done[c[1]]

\* A statement that finds the database locked.
StepBusy(g) ==
    /\ IsOpen(g)
    /\ GivesUp(g) = TRUE
    /\ outcome' = [outcome EXCEPT ![g] = "busy"]
    /\ UNCHANGED <<cpc, gen, addr, inUse, table, busyHandlers, authorizers,
                   xBusy, xAuth, blockOnBusy, done>>

\* authTrampoline: the preparation of a statement calls the authorizer of the
\* connection it finds, which is the nil interface when there is none.
Authorize(g) ==
    /\ IsOpen(g)
    /\ outcome' = [outcome EXCEPT ![g] =
                      IF xAuth[g] /\ authorizers[addr[g]] = NoConn
                      THEN "panic" ELSE "ok"]
    /\ UNCHANGED <<cpc, gen, addr, inUse, table, busyHandlers, authorizers,
                   xBusy, xAuth, blockOnBusy, done>>

ConnTableNext ==
    \E g \in Openers :
       \/ OpenV2(g) \/ Register(g) \/ Configure(g) \/ SetWal(g) \/ OpenReturns(g)
       \/ CloseConn(g) \/ SqliteClose(g) \/ ReleaseAuthorizer(g)
       \/ DeleteHandler(g) \/ Unregister(g)
       \/ SetAuthorizer(g) \/ SetBusy(g) \/ CloseDoneCh(g)
       \/ StepBusy(g) \/ Authorize(g)

ConnTableSpec == ConnTableInit /\ [][ConnTableNext]_ctvars
-----------------------------------------------------------------------------
\* A callback never acts for another connection: Context.Conn, callConnectFunc,
\* busyHandlerCallback and authTrampoline find the connection that SQLite calls
\* them for, or nothing, although addresses are used again.
NeverAnothersConn ==
    \A g \in Openers :
       cpc[g] \notin {"none", "opened", "auth", "handler", "table"} =>
          /\ table[addr[g]] \in {Id(g), NoConn}
          /\ xBusy[g] = "callback" => busyHandlers[addr[g]] \in {Id(g), NoConn}
          /\ xAuth[g] => authorizers[addr[g]] \in {Id(g), NoConn}

\* "SetBlockOnBusy sets a busy handler that waits to acquire a lock until the
\* connection is interrupted" (sqlite.go:330), and it is what OpenConn sets.
BlocksOnBusy ==
    [][\A g \in Openers :
          (StepBusy(g) /\ outcome' # outcome) => (done[g] \/ ~blockOnBusy[g])]_ctvars
=============================================================================
