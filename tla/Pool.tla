-------------------------------- MODULE Pool --------------------------------
(***************************************************************************)
(* sqlitex.Pool: a fixed set of connections handed out by Take, given back *)
(* by Put and shut down by Close (sqlitex/pool.go), together with the      *)
(* watcher goroutine that Conn.SetInterrupt starts for each of them        *)
(* (sqlite.go).                                                            *)
(*                                                                         *)
(* p.mu protects short critical sections only, so each of them is one step *)
(* of the model; between them every interleaving of the clients, of the    *)
(* goroutine that opens or closes the pool, of the watchers and of ending  *)
(* contexts is allowed.  A context derived by Take is a number; 0 is both  *)
(* the cancel function that does nothing and the nil doneCh.               *)
(***************************************************************************)
EXTENDS Naturals, Sequences, FiniteSets

CONSTANTS
    Clients,     \* goroutines that use the pool
    PoolSize,    \* PoolOptions.PoolSize
    HasPrepare,  \* whether PoolOptions.PrepareConn is set
    MaxTakes     \* bound: successful receives of Take

ASSUME PoolAssumption ==
    /\ PoolSize \in Nat \ {0}
    /\ HasPrepare \in BOOLEAN
    /\ MaxTakes \in Nat

ASSUME ClientsAssumption == Clients \cap {"unopened", "free", "closed"} = {}

VARIABLES
    stage,       \* the goroutine that runs NewPool, then the one that runs Close
    opened,      \* connections opened so far: p.all has the keys 1 .. opened
    free,        \* p.free, a buffered channel
    all,         \* p.all: the cancel function of each connection
    inited,      \* p.inited
    toCancel,    \* what is left of Close's cancelList
    nClosed,     \* Close's loop variable closed
    connClosed,  \* connections on which Conn.Close has run
    doneCh,      \* Conn.doneCh
    watchers,    \* goroutines started by SetInterrupt
    activeRow,   \* connections with a cached statement whose lastHasRow is set
    cancelled,   \* contexts whose cancel function has been called
    nextCtx,     \* contexts made so far
    pc,          \* where each client is
    conn,        \* the connection it has received
    ctx,         \* the context Take has derived for it
    cancel,      \* local variable of put
    parentDone   \* whether the context given to Take has ended

connVars == <<connClosed, doneCh, watchers, activeRow>>
ctxVars == <<cancelled, nextCtx>>
clientVars == <<pc, conn, ctx, cancel, parentDone>>
poolVars == <<stage, opened, free, all, inited, toCancel, nClosed>>
vars == <<poolVars, connVars, ctxVars, clientVars>>

Conns == 1 .. PoolSize
Ctxs == 1 .. nextCtx

WatcherType == [conn : Conns, ctx : Nat, at : {"select", "fire", "await"}]

\* Every field of the pool, its connections and its clients has its type.
TypeOK ==
    /\ stage \in {"opening", "open", "snapshot", "cancelling", "draining",
                  "done"}
    /\ opened \in 0 .. PoolSize
    /\ free \in Seq(Conns)
    /\ all \in [Conns -> Nat]
    /\ inited \subseteq Conns
    /\ toCancel \subseteq Nat
    /\ nClosed \in Nat
    /\ connClosed \subseteq Conns
    /\ doneCh \in [Conns -> Nat]
    /\ watchers \subseteq WatcherType
    /\ activeRow \subseteq Conns
    /\ cancelled \subseteq Nat
    /\ nextCtx \in Nat
    /\ pc \in [Clients -> {"idle", "taking", "interrupt", "record", "prepare",
                           "hold", "put", "unset", "cancel", "send"}]
    /\ conn \in [Clients -> Conns]
    /\ ctx \in [Clients -> Nat]
    /\ cancel \in [Clients -> Nat]
    /\ parentDone \in [Clients -> BOOLEAN]

Init ==
    /\ stage = "opening"
    /\ opened = 0
    /\ free = <<>>
    /\ all = [c \in Conns |-> 0]
    /\ inited = {}
    /\ toCancel = {}
    /\ nClosed = 0
    /\ connClosed = {}
    /\ doneCh = [c \in Conns |-> 0]
    /\ watchers = {}
    /\ activeRow = {}
    /\ cancelled = {}
    /\ nextCtx = 0
    /\ pc = [g \in Clients |-> "idle"]
    /\ conn = [g \in Clients |-> 1]
    /\ ctx = [g \in Clients |-> 0]
    /\ cancel = [g \in Clients |-> 0]
    /\ parentDone = [g \in Clients |-> FALSE]

\* p.closed has been closed.
Closed == stage \in {"snapshot", "cancelling", "draining", "done"}

\* The client has a connection, from the receive in Take to the send in put.
Using(g) == pc[g] \notin {"idle", "taking"}

\* A derived context ends when it is cancelled or when its parent ends.
CtxDone(k) ==
    k \in cancelled \/ \E g \in Clients : Using(g) /\ ctx[g] = k /\ parentDone[g]

Goto(g, l) == pc' = [pc EXCEPT ![g] = l]
-----------------------------------------------------------------------------
(***************************************************************************)
(* NewPool.                                                                *)
(***************************************************************************)

OpenConn ==
    /\ stage = "opening"
    /\ opened < PoolSize
    /\ opened' = opened + 1
    /\ free' = Append(free, opened + 1)
    /\ all' = [all EXCEPT ![opened + 1] = 0]
    /\ UNCHANGED <<stage, inited, toCancel, nClosed, connVars, ctxVars,
                   clientVars>>

\* sqlite.OpenConn fails: the deferred function closes the pool, which is
\* never handed to a client.
OpenFails ==
    /\ stage = "opening"
    /\ opened < PoolSize
    /\ stage' = "snapshot"
    /\ UNCHANGED <<opened, free, all, inited, toCancel, nClosed, connVars,
                   ctxVars, clientVars>>

NewPoolReturns ==
    /\ stage = "opening"
    /\ opened = PoolSize
    /\ stage' = "open"
    /\ UNCHANGED <<opened, free, all, inited, toCancel, nClosed, connVars,
                   ctxVars, clientVars>>
-----------------------------------------------------------------------------
(***************************************************************************)
(* Conn.SetInterrupt and its watcher.                                      *)
(***************************************************************************)

\* cancelInterrupt can complete: the watcher of c is at a receive from
\* cancelCh.
Joinable(c) == \A w \in watchers : w.conn = c => w.at # "fire"

\* Mutant: the watcher of the previous context is not joined.
SetInterruptWithoutJoin(c, k) ==
    /\ doneCh' = [doneCh EXCEPT ![c] = k]
    /\ activeRow' = activeRow \ {c}
    /\ watchers' = watchers \cup
                   (IF k = 0 THEN {}
                    ELSE {[conn |-> c, ctx |-> k, at |-> "select"]})

\* SetInterrupt(k): join the watcher, store the channel, reset statements that
\* were returning rows, start a watcher for a non-nil channel.
SetInterrupt(c, k) ==
    /\ Joinable(c)
    /\ doneCh' = [doneCh EXCEPT ![c] = k]
    /\ activeRow' = activeRow \ {c}
    /\ watchers' = {w \in watchers : w.conn # c} \cup
                   (IF k = 0 THEN {}
                    ELSE {[conn |-> c, ctx |-> k, at |-> "select"]})

\* The watcher's context has ended: it is about to call sqlite3_interrupt and
\* fireUnlockNote ...
WatcherWakes(w) ==
    /\ w.at = "select"
    /\ CtxDone(w.ctx)
    /\ watchers' = (watchers \ {w}) \cup {[w EXCEPT !.at = "fire"]}
    /\ UNCHANGED <<poolVars, connClosed, doneCh, activeRow, ctxVars,
                   clientVars>>

\* ... and has called them.
WatcherInterrupts(w) ==
    /\ w.at = "fire"
    /\ watchers' = (watchers \ {w}) \cup {[w EXCEPT !.at = "await"]}
    /\ UNCHANGED <<poolVars, connClosed, doneCh, activeRow, ctxVars,
                   clientVars>>
-----------------------------------------------------------------------------
(***************************************************************************)
(* Take.                                                                   *)
(***************************************************************************)

\* A client that NewPool's result has reached calls Take with a live context.
TakeCall(g) ==
    /\ pc[g] = "idle"
    /\ stage # "opening"
    /\ opened = PoolSize
    /\ parentDone' = [parentDone EXCEPT ![g] = FALSE]
    /\ Goto(g, "taking")
    /\ UNCHANGED <<poolVars, connVars, ctxVars, conn, ctx, cancel>>

\* The context given to Take ends.
ParentEnds(g) ==
    /\ pc[g] # "idle"
    /\ ~parentDone[g]
    /\ parentDone' = [parentDone EXCEPT ![g] = TRUE]
    /\ UNCHANGED <<poolVars, connVars, ctxVars, pc, conn, ctx, cancel>>

\* The select receives a connection; context.WithCancel makes its context.
TakeReceives(g) ==
    /\ pc[g] = "taking"
    /\ free # <<>>
    /\ nextCtx < MaxTakes
    /\ nextCtx' = nextCtx + 1
    /\ conn' = [conn EXCEPT ![g] = Head(free)]
    /\ ctx' = [ctx EXCEPT ![g] = nextCtx + 1]
    /\ free' = Tail(free)
    /\ Goto(g, "interrupt")
    /\ UNCHANGED <<stage, opened, all, inited, toCancel, nClosed, connVars,
                   cancelled, cancel, parentDone>>

\* Mutant: the select has no case for the closed pool.
TakeIgnoresClosed(g) ==
    /\ pc[g] = "taking"
    /\ parentDone[g]
    /\ Goto(g, "idle")
    /\ UNCHANGED <<poolVars, connVars, ctxVars, conn, ctx, cancel, parentDone>>

\* The select sees the end of the context, or the closed pool.
TakeFails(g) ==
    /\ pc[g] = "taking"
    /\ parentDone[g] \/ Closed
    /\ Goto(g, "idle")
    /\ UNCHANGED <<poolVars, connVars, ctxVars, conn, ctx, cancel, parentDone>>

\* conn.SetInterrupt(ctx.Done())
TakeInterrupt(g) ==
    /\ pc[g] = "interrupt"
    /\ SetInterrupt(conn[g], ctx[g])
    /\ Goto(g, "record")
    /\ UNCHANGED <<poolVars, connClosed, ctxVars, conn, ctx, cancel,
                   parentDone>>

\* Under p.mu: store the cancel function, look up whether the connection has
\* been prepared.
TakeRecord(g) ==
    /\ pc[g] = "record"
    /\ all' = [all EXCEPT ![conn[g]] = ctx[g]]
    /\ Goto(g, IF HasPrepare /\ conn[g] \notin inited THEN "prepare" ELSE "hold")
    /\ UNCHANGED <<stage, opened, free, inited, toCancel, nClosed, connVars,
                   ctxVars, conn, ctx, cancel, parentDone>>

PrepareSucceeds(g) ==
    /\ pc[g] = "prepare"
    /\ inited' = inited \cup {conn[g]}
    /\ Goto(g, "hold")
    /\ UNCHANGED <<stage, opened, free, all, toCancel, nClosed, connVars,
                   ctxVars, conn, ctx, cancel, parentDone>>

\* Mutant: Take returns the error of prepare without calling put.
PrepareFailsWithoutPut(g) ==
    /\ pc[g] = "prepare"
    /\ Goto(g, "idle")
    /\ UNCHANGED <<poolVars, connVars, ctxVars, conn, ctx, cancel, parentDone>>

\* The prepare function fails, possibly in the middle of a query.
PrepareFails(g) ==
    /\ pc[g] = "prepare"
    /\ activeRow' \in {activeRow, activeRow \cup {conn[g]}}
    /\ Goto(g, "put")
    /\ UNCHANGED <<poolVars, connClosed, doneCh, watchers, ctxVars, conn, ctx,
                   cancel, parentDone>>
-----------------------------------------------------------------------------
(***************************************************************************)
(* What the application does with a connection, and Put.                   *)
(***************************************************************************)

\* Step on a cached statement returns a row.
StepRow(g) ==
    /\ pc[g] = "hold"
    /\ activeRow' = activeRow \cup {conn[g]}
    /\ UNCHANGED <<poolVars, connClosed, doneCh, watchers, ctxVars, clientVars>>

\* The statement is reset, or its last Step returns no row.
ResetRow(g) ==
    /\ pc[g] = "hold"
    /\ conn[g] \in activeRow
    /\ activeRow' = activeRow \ {conn[g]}
    /\ UNCHANGED <<poolVars, connClosed, doneCh, watchers, ctxVars, clientVars>>

\* Put.  With an active statement CheckReset makes it panic and nothing
\* changes.
PutCall(g) ==
    /\ pc[g] = "hold"
    /\ conn[g] \notin activeRow
    /\ Goto(g, "put")
    /\ UNCHANGED <<poolVars, connVars, ctxVars, conn, ctx, cancel, parentDone>>

\* Mutant: p.all keeps the cancel function of the Take that has ended.
PutKeepsCancel(g) ==
    /\ pc[g] = "put"
    /\ cancel' = [cancel EXCEPT ![g] = all[conn[g]]]
    /\ Goto(g, "unset")
    /\ UNCHANGED <<poolVars, connVars, ctxVars, conn, ctx, parentDone>>

\* put, under p.mu: swap the cancel function for one that does nothing.
PutSwap(g) ==
    /\ pc[g] = "put"
    /\ cancel' = [cancel EXCEPT ![g] = all[conn[g]]]
    /\ all' = [all EXCEPT ![conn[g]] = 0]
    /\ Goto(g, "unset")
    /\ UNCHANGED <<stage, opened, free, inited, toCancel, nClosed, connVars,
                   ctxVars, conn, ctx, parentDone>>

\* conn.SetInterrupt(nil)
PutInterrupt(g) ==
    /\ pc[g] = "unset"
    /\ SetInterrupt(conn[g], 0)
    /\ Goto(g, "cancel")
    /\ UNCHANGED <<poolVars, connClosed, ctxVars, conn, ctx, cancel,
                   parentDone>>

\* Mutant: put does not call cancel.
PutWithoutCancel(g) ==
    /\ pc[g] = "cancel"
    /\ Goto(g, "send")
    /\ UNCHANGED <<poolVars, connVars, ctxVars, conn, ctx, cancel, parentDone>>

\* cancel()
PutCancel(g) ==
    /\ pc[g] = "cancel"
    /\ cancelled' = cancelled \cup ({cancel[g]} \ {0})
    /\ Goto(g, "send")
    /\ UNCHANGED <<poolVars, connVars, nextCtx, conn, ctx, cancel, parentDone>>

\* p.free <- conn
PutSend(g) ==
    /\ pc[g] = "send"
    /\ Len(free) < PoolSize
    /\ free' = Append(free, conn[g])
    /\ Goto(g, "idle")
    /\ UNCHANGED <<stage, opened, all, inited, toCancel, nClosed, connVars,
                   ctxVars, conn, ctx, cancel, parentDone>>
-----------------------------------------------------------------------------
(***************************************************************************)
(* Close, called once by the owner of the pool (a second call panics on    *)
(* the closed channel).                                                    *)
(***************************************************************************)

\* close(p.closed)
CloseCall ==
    /\ stage = "open"
    /\ stage' = "snapshot"
    /\ UNCHANGED <<opened, free, all, inited, toCancel, nClosed, connVars,
                   ctxVars, clientVars>>

\* Under p.mu: collect the cancel functions and replace them.
CloseSnapshot ==
    /\ stage = "snapshot"
    /\ toCancel' = {all[c] : c \in 1 .. opened} \ {0}
    /\ all' = [c \in Conns |-> 0]
    /\ stage' = "cancelling"
    /\ UNCHANGED <<opened, free, inited, nClosed, connVars, ctxVars,
                   clientVars>>

CloseCancel ==
    /\ stage = "cancelling"
    /\ \E k \in toCancel :
          /\ cancelled' = cancelled \cup {k}
          /\ toCancel' = toCancel \ {k}
    /\ UNCHANGED <<stage, opened, free, all, inited, nClosed, connVars,
                   nextCtx, clientVars>>

CloseCancelled ==
    /\ stage = "cancelling"
    /\ toCancel = {}
    /\ stage' = "draining"
    /\ UNCHANGED <<opened, free, all, inited, toCancel, nClosed, connVars,
                   ctxVars, clientVars>>

\* Mutant: Close takes a connection from the client that has it.
CloseSteals ==
    /\ stage = "draining"
    /\ nClosed < opened
    /\ nClosed' = nClosed + 1
    /\ connClosed' = connClosed \cup {nClosed + 1}
    /\ UNCHANGED <<stage, opened, free, all, inited, toCancel, doneCh, watchers,
                   activeRow, ctxVars, clientVars>>

\* conn := <-p.free; conn.Close(), which joins the watcher
CloseConn ==
    /\ stage = "draining"
    /\ nClosed < opened
    /\ free # <<>>
    /\ Joinable(Head(free))
    /\ nClosed' = nClosed + 1
    /\ free' = Tail(free)
    /\ connClosed' = connClosed \cup {Head(free)}
    /\ watchers' = {w \in watchers : w.conn # Head(free)}
    /\ UNCHANGED <<stage, opened, all, inited, toCancel, doneCh, activeRow,
                   ctxVars, clientVars>>

\* The loop has received as many connections as p.all has.
CloseReturns ==
    /\ stage = "draining"
    /\ nClosed = opened
    /\ stage' = "done"
    /\ UNCHANGED <<opened, free, all, inited, toCancel, nClosed, connVars,
                   ctxVars, clientVars>>
-----------------------------------------------------------------------------
Open == OpenConn \/ OpenFails \/ NewPoolReturns

Closing == CloseSnapshot \/ CloseCancel \/ CloseCancelled \/ CloseConn
           \/ CloseReturns

Watcher == \E w \in watchers : WatcherWakes(w) \/ WatcherInterrupts(w)

\* What a client does inside Take and Put.
InTake(g) ==
    \/ TakeReceives(g)
    \/ TakeFails(g)
    \/ TakeInterrupt(g)
    \/ TakeRecord(g)
    \/ PrepareSucceeds(g)
    \/ PrepareFails(g)

InPut(g) == PutSwap(g) \/ PutInterrupt(g) \/ PutCancel(g) \/ PutSend(g)

Client(g) ==
    \/ TakeCall(g)
    \/ ParentEnds(g)
    \/ InTake(g)
    \/ StepRow(g)
    \/ ResetRow(g)
    \/ PutCall(g)
    \/ InPut(g)

\* NewPool has returned an error: there is no pool to use.
NewPoolFailed ==
    /\ stage = "done"
    /\ opened < PoolSize
    /\ UNCHANGED vars

Next ==
    \/ Open
    \/ CloseCall
    \/ Closing
    \/ Watcher
    \/ \E g \in Clients : Client(g)
    \/ NewPoolFailed

Spec == Init /\ [][Next]_vars

(***************************************************************************)
(* Goroutines inside the pool's functions and watchers are scheduled.  The *)
(* prepare function returns, and a client that has a connection ends its   *)
(* queries and gives it back: "Applications must ensure that all non-nil   *)
(* Conns returned from Take are returned to the same Pool"                 *)
(* (pool.go:142-143).  It may run any number of queries before that, hence *)
(* SF.  Nobody has to call Take or Close, and no context has to end.       *)
(***************************************************************************)
WatcherOf(c) ==
    \E w \in watchers : w.conn = c /\ (WatcherWakes(w) \/ WatcherInterrupts(w))

Fairness ==
    /\ WF_vars(Open)
    /\ WF_vars(Closing)
    /\ \A c \in Conns : WF_vars(WatcherOf(c))
    /\ \A g \in Clients :
          /\ WF_vars(InTake(g))
          /\ WF_vars(InPut(g))
          /\ WF_vars(ResetRow(g))
          /\ SF_vars(PutCall(g))

FairSpec == Spec /\ Fairness
-----------------------------------------------------------------------------
(***************************************************************************)
(* Properties.                                                             *)
(***************************************************************************)

\* Where connection c is: a slot of p.free, a client, or closed.
Places(c) ==
    {<<"free", i>> : i \in {j \in 1 .. Len(free) : free[j] = c}} \cup
    {<<"client", g>> : g \in {h \in Clients : Using(h) /\ conn[h] = c}} \cup
    {<<"closed", d>> : d \in connClosed \cap {c}}

\* No connection is lost, shared, or used after its Close: at every moment of
\* Take, put, Close and the failure paths of NewPool and prepare, an opened
\* connection is in exactly one place.
OneOwner ==
    \A c \in 1 .. opened : \E p \in Places(c) : Places(c) = {p}

\* Put leaves nothing behind for the next taker: a connection in p.free has no
\* doneCh, no watcher, no cancel function and no statement returning rows,
\* even when Close or an ending context runs in the middle of put.
IdleIsClean ==
    \A i \in 1 .. Len(free) :
        /\ doneCh[free[i]] = 0
        /\ all[free[i]] = 0
        /\ free[i] \notin activeRow
        /\ \A w \in watchers : w.conn # free[i]

\* A watcher, and so an interrupt, belongs to the Take that has the connection
\* now: it waits for that Take's context and for no earlier one, and no
\* watcher outlives put's SetInterrupt(nil) or Conn.Close.
InterruptFollowsTaker ==
    \A w \in watchers :
        \E g \in Clients :
            /\ pc[g] \in {"record", "prepare", "hold", "put", "unset"}
            /\ conn[g] = w.conn
            /\ ctx[g] = w.ctx
            /\ w.conn \notin connClosed

\* "Once ConnPrepareFunc returns nil for a given connection, it will not be
\* called on that connection again" (pool.go:250-251), and no client gets a
\* connection on which it has not succeeded.
PreparedOnce ==
    \A g \in Clients :
        /\ pc[g] = "prepare" => conn[g] \notin inited
        /\ pc[g] = "hold" /\ HasPrepare => conn[g] \in inited

\* No context leaks: one that Take has derived belongs to a client that still
\* has to call put, is about to be cancelled by Close, or has been cancelled,
\* however put and Close race for the cancel function in p.all.
ContextsReleased ==
    \A k \in Ctxs :
        \/ k \in cancelled
        \/ k \in toCancel
        \/ \E g \in Clients : Using(g) /\ ctx[g] = k

\* When Close returns, every connection is closed and in nobody's hands, no
\* watcher runs and p.free is empty.
ClosedForGood ==
    stage = "done" =>
        /\ connClosed = 1 .. opened
        /\ free = <<>>
        /\ watchers = {}
        /\ \A g \in Clients : ~Using(g)

\* "Close interrupts and closes all the connections in the Pool"
\* (pool.go:218): once it has called every cancel function, a client that has
\* a connection has an ended context.
CloseInterruptsAll ==
    stage = "draining" =>
        \A g \in Clients : pc[g] = "hold" => CtxDone(ctx[g])

\* Close returns, if the clients give their connections back: it waits for
\* exactly as many connections as will come.
CloseTerminates == stage = "snapshot" ~> stage = "done"

\* A Take whose context ends or whose pool is closed does not stay blocked.
TakeUnblocks ==
    \A g \in Clients :
        pc[g] = "taking" /\ (parentDone[g] \/ Closed) ~> pc[g] \in {"hold", "idle"}
-----------------------------------------------------------------------------
(***************************************************************************)
(* Pool implements PoolLease: who may use a connection, without channels,  *)
(* contexts or watchers.                                                   *)
(***************************************************************************)

holder == [c \in Conns |->
    IF c > opened THEN "unopened"
    ELSE IF c \in connClosed THEN "closed"
    ELSE IF \E g \in Clients : Using(g) /\ conn[g] = c
         THEN CHOOSE g \in Clients : Using(g) /\ conn[g] = c
    ELSE "free"]

Lease == INSTANCE PoolLease WITH owner <- holder, shut <- Closed

\* Every step of the pool is a step of PoolLease, or changes nothing there.
ImplementsLease == Lease!Spec
=============================================================================
