----------------------------- MODULE Statements -----------------------------
(***************************************************************************)
(* The statements of one Conn, which one goroutine uses: the cache of      *)
(* persistent statements, Prep, Prepare, PrepareTransient, Bind, Set, Step,*)
(* Reset, ClearBindings, Finalize, SetInterrupt and Close (sqlite.go), and *)
(* the helpers of sqlitex that step statements: Execute, ExecuteTransient, *)
(* Result and InsertRandID.  A ResultFunc may use the connection again,    *)
(* the statement of Execute included.                                      *)
(***************************************************************************)
EXTENDS Naturals, Sequences, FiniteSets

CONSTANTS
    Queries,    \* query strings
    Stmts,      \* Stmt objects
    NoStmt,     \* a nil *Stmt
    Params,     \* values an application binds; every statement has a parameter
    MaxFrames,  \* helpers on the call stack
    MaxTries    \* attempts of InsertRandID (101)

ASSUME StatementsAssumption ==
    /\ NoStmt \notin Stmts
    /\ "null" \notin Params
    /\ MaxFrames \in Nat /\ MaxTries \in Nat

VARIABLES
    stmts,     \* Conn.stmts: query -> Stmt
    st,        \* every Stmt
    done,      \* doneCh is closed
    connClosed, \* Conn.closed
    dbOpen,    \* sqlite3_close has not succeeded
    closeErr,  \* Close has returned an error
    frames     \* helpers that run, the innermost last

stvars == <<stmts, st, done, connClosed, dbOpen, closeErr, frames>>

Free == [phase |-> "free", query |-> "", cached |-> FALSE, vm |-> "ready",
         lastHasRow |-> FALSE, bindErr |-> FALSE, bound |-> "null", wanted |-> "null"]

\* phase "stub": the Stmt that Prep returns when it is interrupted.
\* vm: "row" and "done" are what sqlite3_step returned last, until the reset.
\* bound, wanted: the parameter's value in SQLite, and what the application
\* passed last, as far as no Step has told it otherwise.
StmtRecord == [phase : {"free", "live", "stub"}, query : Queries \cup {""},
               cached : BOOLEAN, vm : {"ready", "row", "done"},
               lastHasRow : BOOLEAN, bindErr : BOOLEAN,
               bound : Params \cup {"null"}, wanted : Params \cup {"null"}]

Frame == [op : {"execute", "transient", "result", "insert"}, s : Stmts,
          pc : {"bind", "step", "callback", "teardown", "reset"}, try : 0 .. MaxTries]

StatementsTypeOK ==
    /\ stmts \in [Queries -> Stmts \cup {NoStmt}]
    /\ st \in [Stmts -> StmtRecord]
    /\ done \in BOOLEAN /\ connClosed \in BOOLEAN /\ dbOpen \in BOOLEAN
    /\ closeErr \in BOOLEAN
    /\ frames \in Seq(Frame)

StatementsInit ==
    /\ stmts = [q \in Queries |-> NoStmt]
    /\ st = [s \in Stmts |-> Free]
    /\ done = FALSE /\ connClosed = FALSE /\ dbOpen = TRUE /\ closeErr = FALSE
    /\ frames = <<>>

Live(s) == st[s].phase = "live"
InFrame(s) == \E i \in DOMAIN frames : frames[i].s = s
TopFrame == frames[Len(frames)]

\* The application runs: outside of every helper, or in a ResultFunc.
App == ~connClosed /\ (frames # <<>> => TopFrame.pc = "callback")
At(op, pc) == frames # <<>> /\ TopFrame.op \in op /\ TopFrame.pc = pc
-----------------------------------------------------------------------------
(***************************************************************************)
(* What the methods of a Stmt do to it.                                    *)
(***************************************************************************)

\* Mutant: Reset drops the error of a Bind.
ResetStmtDropsErr(r) == [r EXCEPT !.lastHasRow = FALSE, !.vm = "ready", !.bindErr = FALSE]

\* Reset; sqlite3_reset resets also when it returns an error.
ResetStmt(r) == [r EXCEPT !.lastHasRow = FALSE, !.vm = "ready"]

ClearBindings(r) == [r EXCEPT !.bound = "null", !.wanted = "null"]

\* Bind and Set: nothing for a stub, but Set records that it does not know the
\* name.  SQLite refuses a statement that has not been reset, an index out of
\* range, a value too large.
Bind(r, v) ==
    IF r.phase = "stub" THEN {r, [r EXCEPT !.bindErr = TRUE]}
    ELSE {[r EXCEPT !.bindErr = TRUE, !.wanted = v]}
         \cup {x \in {[r EXCEPT !.bound = v, !.wanted = v]} : r.vm = "ready"}

\* sqlite3_step returned res.  On an error Step resets the statement.
Stepped(r, res) ==
    [r EXCEPT !.lastHasRow = res = "row",
              !.vm = IF res \in {"row", "done"} THEN res ELSE "ready"]

\* Mutant: Step notes a row only when there is no error.
StepForgetsRow(r) ==
    IF r.bindErr
    THEN {[r |-> ResetStmt([r EXCEPT !.bindErr = FALSE, !.wanted = r.bound]), res |-> "error"]}
    ELSE IF done \/ r.phase = "stub" THEN {[r |-> [r EXCEPT !.vm = "ready"], res |-> "interrupt"]}
    ELSE {[r |-> Stepped(r, x), res |-> x] : x \in {"row", "done", "error"}}

\* Step: the error of a Bind comes first, then an interrupt.
Step(r) ==
    IF r.bindErr
    THEN {[r |-> ResetStmt([r EXCEPT !.bindErr = FALSE, !.wanted = r.bound]), res |-> "error"]}
    ELSE IF done \/ r.phase = "stub" THEN {[r |-> Stepped(r, "interrupt"), res |-> "interrupt"]}
    ELSE {[r |-> Stepped(r, x), res |-> x] : x \in {"row", "done", "error"}}

NewStmt(q, c) == [Free EXCEPT !.phase = "live", !.query = q, !.cached = c]
Unused == {s \in Stmts : st[s].phase = "free"}

\* Prepare: the statements afterwards, the cache, and the result.  A failed
\* preparation (interrupt, syntax, trailing bytes) changes nothing; a cached
\* statement has been reset when ClearBindings is interrupted.
Prepare(q) ==
    LET s == stmts[q] IN
    IF s # NoStmt
    THEN {[st |-> [st EXCEPT ![s] = ResetStmt(@)], stmts |-> stmts, s |-> NoStmt]}
         \cup {x \in {[st |-> [st EXCEPT ![s] = ClearBindings(ResetStmt(@))],
                       stmts |-> stmts, s |-> s]} : ~done}
    ELSE {[st |-> st, stmts |-> stmts, s |-> NoStmt]}
         \cup {[st |-> [st EXCEPT ![n] = NewStmt(q, TRUE)],
                stmts |-> [stmts EXCEPT ![q] = n], s |-> n] : n \in IF done THEN {} ELSE Unused}

\* Finalize.
Finalized(s) == [st EXCEPT ![s] = Free]
CacheWithout(s) ==
    [q \in Queries |-> IF stmts[q] = s /\ st[s].query = q THEN NoStmt ELSE stmts[q]]
-----------------------------------------------------------------------------
(***************************************************************************)
(* The application.                                                        *)
(***************************************************************************)

AppPrepare(q) ==
    /\ App = TRUE
    /\ \E o \in Prepare(q) : st' = o.st /\ stmts' = o.stmts
    /\ UNCHANGED <<done, connClosed, dbOpen, closeErr, frames>>

\* Prep, interrupted: a Stmt without a statement, and not in the cache.
AppPrepStub(q) ==
    /\ App = TRUE /\ done
    /\ \E n \in Unused :
          st' = [s \in Stmts |-> IF s = n THEN [Free EXCEPT !.phase = "stub", !.query = q]
                                 ELSE IF s = stmts[q] THEN ResetStmt(st[s]) ELSE st[s]]
    /\ UNCHANGED <<stmts, done, connClosed, dbOpen, closeErr, frames>>

AppPrepareTransient(q) ==
    /\ App = TRUE /\ ~done
    /\ \E n \in Unused : st' = [st EXCEPT ![n] = NewStmt(q, FALSE)]
    /\ UNCHANGED <<stmts, done, connClosed, dbOpen, closeErr, frames>>

Usable(s) == App /\ st[s].phase # "free"

AppBind(s) ==
    /\ Usable(s) = TRUE
    /\ \E v \in Params : \E r \in Bind(st[s], v) : st' = [st EXCEPT ![s] = r]
    /\ UNCHANGED <<stmts, done, connClosed, dbOpen, closeErr, frames>>

AppStep(s) ==
    /\ Usable(s) = TRUE
    /\ \E o \in Step(st[s]) : st' = [st EXCEPT ![s] = o.r]
    /\ UNCHANGED <<stmts, done, connClosed, dbOpen, closeErr, frames>>

AppReset(s) ==
    /\ Usable(s) = TRUE
    /\ st' = [st EXCEPT ![s] = ResetStmt(@)]
    /\ UNCHANGED <<stmts, done, connClosed, dbOpen, closeErr, frames>>

AppClearBindings(s) ==
    /\ Usable(s) = TRUE /\ ~done /\ Live(s)
    /\ st' = [st EXCEPT ![s] = ClearBindings(@)]
    /\ UNCHANGED <<stmts, done, connClosed, dbOpen, closeErr, frames>>

\* Not of a statement that a helper on the stack still uses.
AppFinalize(s) ==
    /\ Usable(s) = TRUE /\ ~InFrame(s)
    /\ st' = Finalized(s) /\ stmts' = CacheWithout(s)
    /\ UNCHANGED <<done, connClosed, dbOpen, closeErr, frames>>

CloseDoneCh ==
    /\ ~done /\ done' = TRUE
    /\ UNCHANGED <<stmts, st, connClosed, dbOpen, closeErr, frames>>

\* SetInterrupt with a new channel resets the busy statements of the cache.
SetInterrupt ==
    /\ App = TRUE
    /\ done' = FALSE
    /\ st' = [s \in Stmts |-> IF s \in {stmts[q] : q \in Queries} /\ st[s].lastHasRow
                              THEN ResetStmt(st[s]) ELSE st[s]]
    /\ UNCHANGED <<stmts, connClosed, dbOpen, closeErr, frames>>

\* Close finalizes the cached statements; sqlite3_close refuses with BUSY while
\* another statement is left.
CloseConn ==
    /\ App = TRUE /\ frames = <<>>
    /\ connClosed' = TRUE
    /\ st' = [s \in Stmts |-> IF s \in {stmts[q] : q \in Queries} THEN Free ELSE st[s]]
    /\ stmts' = [q \in Queries |-> NoStmt]
    /\ dbOpen' = \E s \in Stmts : st'[s].phase = "live"
    /\ closeErr' = dbOpen'
    /\ UNCHANGED <<done, frames>>
-----------------------------------------------------------------------------
(***************************************************************************)
(* The helpers of sqlitex.                                                 *)
(***************************************************************************)

Push(op, s, pc) == frames' = Append(frames, [op |-> op, s |-> s, pc |-> pc, try |-> 0])
Goto(pc) == frames' = [frames EXCEPT ![Len(frames)].pc = pc]
Return == frames' = SubSeq(frames, 1, Len(frames) - 1)
CanCall == App /\ Len(frames) < MaxFrames

\* Exec, Execute, ExecuteFS: Prepare, and exec.
Execute(q) ==
    /\ CanCall = TRUE
    /\ \E o \in Prepare(q) :
          /\ st' = o.st /\ stmts' = o.stmts
          /\ IF o.s = NoStmt THEN UNCHANGED frames ELSE Push("execute", o.s, "bind")
    /\ UNCHANGED <<done, connClosed, dbOpen, closeErr>>

\* ExecTransient, ExecuteTransient, ExecuteTransientFS, and a statement of
\* ExecuteScript.  With trailing bytes it returns after the deferred Finalize.
ExecuteTransient(q) ==
    /\ CanCall = TRUE /\ ~done
    /\ \E n \in Unused, pc \in {"bind", "reset"} :
          /\ st' = [st EXCEPT ![n] = NewStmt(q, FALSE)]
          /\ Push("transient", n, pc)
    /\ UNCHANGED <<stmts, done, connClosed, dbOpen, closeErr>>

\* resultSetup, and a try of InsertRandID, begin with a statement of the
\* application.
CallWithStmt(op, s) ==
    /\ CanCall = TRUE /\ st[s].phase # "free"
    /\ Push(op, s, IF op = "insert" THEN "bind" ELSE "step")
    /\ UNCHANGED <<stmts, st, done, connClosed, dbOpen, closeErr>>

\* exec binds the arguments (missing or unknown ones end it).
ExecBind ==
    /\ At({"execute", "transient"}, "bind")
    /\ \/ /\ \E v \in Params : \E r \in Bind(st[TopFrame.s], v) :
                st' = [st EXCEPT ![TopFrame.s] = r]
          /\ Goto("step")
       \/ UNCHANGED st /\ Goto("reset")
    /\ UNCHANGED <<stmts, done, connClosed, dbOpen, closeErr>>

\* A step of exec's loop: after a row the ResultFunc runs.
ExecStep ==
    /\ At({"execute", "transient"}, "step")
    /\ \E o \in Step(st[TopFrame.s]) :
          /\ st' = [st EXCEPT ![TopFrame.s] = o.r]
          /\ Goto(IF o.res = "row" THEN "callback" ELSE "reset")
    /\ UNCHANGED <<stmts, done, connClosed, dbOpen, closeErr>>

\* ResultFunc returns nil, or an error that ends the loop.
ResultFuncReturns ==
    /\ frames # <<>> /\ TopFrame.pc = "callback"
    /\ \E pc \in {"step", "reset"} : Goto(pc)
    /\ UNCHANGED <<stmts, st, done, connClosed, dbOpen, closeErr>>

\* Mutant: Execute resets only after an error of the ResultFunc.
ExecReturnNoReset ==
    /\ At({"execute", "transient"}, "reset")
    /\ IF TopFrame.op = "execute" THEN UNCHANGED <<st, stmts>>
       ELSE st' = Finalized(TopFrame.s) /\ stmts' = CacheWithout(TopFrame.s)
    /\ Return
    /\ UNCHANGED <<done, connClosed, dbOpen, closeErr>>

\* Execute resets the statement, ExecuteTransient finalizes it, however exec
\* ended.
ExecReturn ==
    /\ At({"execute", "transient"}, "reset")
    /\ IF TopFrame.op = "execute"
       THEN st' = [st EXCEPT ![TopFrame.s] = ResetStmt(@)] /\ UNCHANGED stmts
       ELSE st' = Finalized(TopFrame.s) /\ stmts' = CacheWithout(TopFrame.s)
    /\ Return
    /\ UNCHANGED <<done, connClosed, dbOpen, closeErr>>

\* resultSetup: anything but a row resets and returns.
ResultSetup ==
    /\ At({"result"}, "step")
    /\ \E o \in Step(st[TopFrame.s]) :
          IF o.res = "row"
          THEN st' = [st EXCEPT ![TopFrame.s] = o.r] /\ Goto("teardown")
          ELSE st' = [st EXCEPT ![TopFrame.s] = ResetStmt(o.r)] /\ Return
    /\ UNCHANGED <<stmts, done, connClosed, dbOpen, closeErr>>

\* resultTeardown resets in every case.
ResultTeardown ==
    /\ At({"result"}, "teardown")
    /\ \E o \in Step(st[TopFrame.s]) : st' = [st EXCEPT ![TopFrame.s] = ResetStmt(o.r)]
    /\ Return
    /\ UNCHANGED <<stmts, done, connClosed, dbOpen, closeErr>>

\* A try of InsertRandID: Reset, SetInt64, Step; another one after a primary
\* key conflict.
InsertTry ==
    /\ At({"insert"}, "bind")
    /\ \E v \in Params : \E r \in Bind(ResetStmt(st[TopFrame.s]), v) : \E o \in Step(r) :
          /\ st' = [st EXCEPT ![TopFrame.s] = o.r]
          /\ \/ Return
             \/ /\ o.res = "error" /\ TopFrame.try < MaxTries
                /\ frames' = [frames EXCEPT ![Len(frames)].try = @ + 1]
    /\ UNCHANGED <<stmts, done, connClosed, dbOpen, closeErr>>

StatementsNext ==
    \/ \E q \in Queries : \/ AppPrepare(q) \/ AppPrepStub(q) \/ AppPrepareTransient(q)
                          \/ Execute(q) \/ ExecuteTransient(q)
    \/ \E s \in Stmts : \/ AppBind(s) \/ AppStep(s) \/ AppReset(s) \/ AppClearBindings(s)
                        \/ AppFinalize(s)
                        \/ CallWithStmt("result", s) \/ CallWithStmt("insert", s)
    \/ CloseDoneCh \/ SetInterrupt \/ CloseConn
    \/ ExecBind \/ ExecStep \/ ResultFuncReturns \/ ExecReturn
    \/ ResultSetup \/ ResultTeardown \/ InsertTry

StatementsSpec == StatementsInit /\ [][StatementsNext]_stvars
-----------------------------------------------------------------------------
\* Conn and SQLite agree on the statements: lastHasRow, which CheckReset and
\* SetInterrupt go by, says exactly whether SQLite is in the middle of the
\* results; the cache has only live persistent statements, each under its own
\* query; after Close none of them is left, and the database handle is open
\* only if Close has returned the error.
StmtsAgree ==
    /\ \A s \in Stmts : st[s].lastHasRow = (st[s].vm = "row")
    /\ \A q \in Queries : stmts[q] # NoStmt =>
          /\ st[stmts[q]].phase = "live"
          /\ st[stmts[q]].cached
          /\ st[stmts[q]].query = q
    /\ \A s \in Stmts : st[s].cached => stmts[st[s].query] = s
    /\ connClosed => (\A s \in Stmts : ~st[s].cached) /\ (dbOpen => closeErr)

\* A Bind or Set that fails returns nothing; the next Step reports it.  So a
\* statement that Step would let run has the value that the application passed
\* last, through every Reset, ClearBindings, Prepare and helper in between.
BindErrorsSurface ==
    \A s \in Stmts : (Live(s) /\ ~st[s].bindErr) => st[s].bound = st[s].wanted

\* When Execute, ExecuteTransient or Result return, with or without an error,
\* the statement they stepped is reset or finalized: SQLite holds no lock for it.
HelpersReset ==
    [][\A s \in Stmts :
          (Len(frames') < Len(frames) /\ TopFrame.s = s /\ TopFrame.op # "insert")
             => st'[s].vm = "ready"]_stvars
=============================================================================
