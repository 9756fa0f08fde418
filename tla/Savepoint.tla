----------------------------- MODULE Savepoint ------------------------------
(***************************************************************************)
(* sqlitex.Save, Transaction, ImmediateTransaction, ExclusiveTransaction   *)
(* and ExecuteScript: a function opens a scope, its body runs statements   *)
(* and further scopes, and the deferred release function ends the scope by *)
(* the error or the panic of the body.  doneCh may be closed at any time,  *)
(* and SQLite may roll the transaction back by itself.                     *)
(***************************************************************************)
EXTENDS Integers, Sequences, FiniteSets, FiniteSetsExt

CONSTANTS
    Names,       \* savepoint names (names of the calling functions)
    MaxScopes,   \* scopes opened in a run
    MaxWrites    \* writes in a run

ASSUME SavepointAssumption == MaxScopes \in Nat /\ MaxWrites \in Nat

VARIABLES
    sps,       \* SQLite's stack: savepoints and "BEGIN", with Len(pending) then
    pending,   \* writes of the open transaction, each with the scopes around it
    durable,   \* committed writes
    scopes,    \* scopes that are open, the innermost last
    opened,    \* scopes opened so far
    doneCh,    \* "nil" or "ch", what SetInterrupt set
    chClosed   \* the channel is closed

spvars == <<sps, pending, durable, scopes, opened, doneCh, chClosed>>

Autocommit == sps = <<>>
Interrupted == doneCh = "ch" /\ chClosed
Top == scopes[Len(scopes)]
\* Go code runs, and not the loop of ExecuteScript.
InGo == scopes # <<>> => Top.pc = "body" /\ Top.kind # "script"
Around == {scopes[i].id : i \in DOMAIN scopes}

SavepointTypeOK ==
    /\ \A w \in Range(pending) \cup durable : w.scopes \subseteq 1 .. MaxScopes
    /\ \A i \in DOMAIN scopes : scopes[i].pc \in {"body", "release", "rollback", "ret"}
    /\ \A i \in DOMAIN sps : sps[i].mark \in 0 .. MaxWrites
    /\ opened \in 0 .. MaxScopes
    /\ doneCh \in {"nil", "ch"}

SavepointInit ==
    /\ sps = <<>> /\ pending = <<>> /\ durable = {}
    /\ scopes = <<>> /\ opened = 0
    /\ doneCh = "ch" /\ chClosed = FALSE
-----------------------------------------------------------------------------
(***************************************************************************)
(* SQLite.                                                                 *)
(***************************************************************************)

Commit == /\ durable' = durable \cup Range(pending)
          /\ pending' = <<>> /\ sps' = <<>>
RollbackAll == pending' = <<>> /\ sps' = <<>> /\ UNCHANGED durable

Matching(name) == {i \in DOMAIN sps : sps[i].name = name}

\* RELEASE of the innermost savepoint of that name; the outermost one commits.
Release(name) ==
    LET i == Max(Matching(name))
    IN  IF i = 1 THEN Commit
        ELSE sps' = SubSeq(sps, 1, i - 1) /\ UNCHANGED <<pending, durable>>

\* ROLLBACK TO and RELEASE of the same savepoint.
RollbackTo(name) ==
    LET i == Max(Matching(name))
    IN  /\ sps' = SubSeq(sps, 1, i - 1)
        /\ pending' = SubSeq(pending, 1, sps[i].mark)
        /\ UNCHANGED durable

\* An error that rolls the transaction back: an interrupted write, a full
\* disk.  What the scopes around it promise is then up to the body.
Forgive(ss) == [i \in DOMAIN ss |-> [ss[i] EXCEPT !.forgiven = TRUE]]
-----------------------------------------------------------------------------
(***************************************************************************)
(* The application.                                                        *)
(***************************************************************************)

CloseSaved ==
    /\ ~chClosed
    /\ chClosed' = TRUE
    /\ UNCHANGED <<sps, pending, durable, scopes, opened, doneCh>>

\* SetInterrupt, between scopes.
NewDoneCh ==
    /\ scopes = <<>> /\ chClosed
    /\ chClosed' = FALSE
    /\ UNCHANGED <<sps, pending, durable, scopes, opened, doneCh>>

Scope(kind, name, begun) ==
    [id |-> opened + 1, kind |-> kind, name |-> name, pc |-> "body", begun |-> begun,
     err |-> FALSE, panic |-> FALSE, old |-> "none", ch |-> doneCh,
     outermost |-> Autocommit, forgiven |-> FALSE, own |-> 0]

\* A panic of Save or Transaction goes through the function around it.
PanicAround ==
    /\ scopes' = IF scopes = <<>> THEN scopes
                 ELSE [scopes EXCEPT ![Len(scopes)].panic = TRUE,
                                     ![Len(scopes)].pc = "release"]
    /\ UNCHANGED <<sps, pending, durable, opened>>

\* Save, and the first line of ExecuteScript.  Interrupted, it opens nothing,
\* and the function it returns only passes the error on.
Save(kind, name) ==
    /\ InGo = TRUE /\ opened < MaxScopes
    /\ \/ /\ ~Interrupted
          /\ sps' = Append(sps, [name |-> name, mark |-> Len(pending)])
          /\ scopes' = Append(scopes, Scope(kind, name, TRUE))
          /\ opened' = opened + 1
          /\ UNCHANGED <<pending, durable>>
       \/ /\ Interrupted
          /\ scopes' = Append(scopes, Scope(kind, name, FALSE))
          /\ opened' = opened + 1
          /\ UNCHANGED <<sps, pending, durable>>
       \/ PanicAround
    /\ UNCHANGED <<doneCh, chClosed>>

\* Transaction.  BEGIN fails within a transaction, which is a panic.
\* ImmediateTransaction and ExclusiveTransaction return the error instead, and
\* the scope is not opened.
Transaction(mode) ==
    /\ InGo = TRUE /\ opened < MaxScopes
    /\ \/ /\ ~Interrupted /\ Autocommit
          /\ sps' = <<[name |-> "BEGIN", mark |-> 0]>>
          /\ scopes' = Append(scopes, Scope("txn", "BEGIN", TRUE))
          /\ opened' = opened + 1
          /\ UNCHANGED <<pending, durable>>
       \/ /\ Interrupted /\ mode = "DEFERRED"
          /\ scopes' = Append(scopes, Scope("txn", "BEGIN", FALSE))
          /\ opened' = opened + 1
          /\ UNCHANGED <<sps, pending, durable>>
       \/ mode = "DEFERRED" /\ ~Interrupted /\ PanicAround
    /\ UNCHANGED <<doneCh, chClosed>>

NumWrites == Len(pending) + Cardinality(durable)

\* A statement of the body, or of the script, that writes.  Outside of a
\* transaction it commits at once, for itself.
WriteRow ==
    /\ scopes # <<>> /\ Top.pc = "body" /\ ~Interrupted /\ NumWrites < MaxWrites
    /\ LET w == [n |-> Top.own + 1, by |-> Top.id,
                 scopes |-> IF Autocommit THEN {} ELSE Around]
       IN  IF Autocommit THEN durable' = durable \cup {w} /\ UNCHANGED pending
                         ELSE pending' = Append(pending, w) /\ UNCHANGED durable
    /\ scopes' = [scopes EXCEPT ![Len(scopes)].own = @ + 1]
    /\ UNCHANGED <<sps, opened, doneCh, chClosed>>

\* A statement fails and SQLite rolls back; a script returns the error.
WriteRollsBack ==
    /\ scopes # <<>> /\ Top.pc = "body" /\ ~Autocommit
    /\ RollbackAll
    /\ scopes' = [Forgive(scopes) EXCEPT
                    ![Len(scopes)].pc = IF Top.kind = "script" THEN "release" ELSE @,
                    ![Len(scopes)].err = Top.kind = "script"]
    /\ UNCHANGED <<opened, doneCh, chClosed>>

\* "if a user exec'd COMMIT or ROLLBACK"
UserEnds ==
    /\ scopes # <<>> /\ Top.pc = "body" /\ ~Autocommit /\ ~Interrupted
    /\ Commit \/ RollbackAll
    /\ scopes' = Forgive(scopes)
    /\ UNCHANGED <<opened, doneCh, chClosed>>

\* The body returns nil or an error, or panics; the deferred function runs.
\* A script returns nil at its end, and an error for an argument that no
\* statement used or a statement that failed.
BodyEnds ==
    /\ scopes # <<>> /\ Top.pc = "body"
    /\ \E e, p \in BOOLEAN :
          /\ p => ~e /\ Top.kind # "script"
          /\ scopes' = [scopes EXCEPT ![Len(scopes)].pc = "release",
                                      ![Len(scopes)].err = e,
                                      ![Len(scopes)].panic = p]
    /\ UNCHANGED <<sps, pending, durable, opened, doneCh, chClosed>>
-----------------------------------------------------------------------------
(***************************************************************************)
(* releaseFn of savepoint and endFn of transaction.                        *)
(***************************************************************************)

ToPhase(l) == scopes' = [scopes EXCEPT ![Len(scopes)].pc = l]
GotoErr(l) == scopes' = [scopes EXCEPT ![Len(scopes)].pc = l,
                                       ![Len(scopes)].err = ~Top.panic]
FailAndForgive == scopes' = [Forgive(scopes) EXCEPT
    ![Len(scopes)] = [Top EXCEPT !.pc = "ret", !.err = TRUE]]

\* Mutant: after a RELEASE or COMMIT that fails there is no error path.
EndScopeLate ==
    /\ scopes # <<>> /\ Top.pc = "release"
    /\ CASE ~Top.begun -> GotoErr("ret") /\ UNCHANGED <<sps, pending, durable>>
         [] ~Autocommit /\ (Top.err \/ Top.panic) ->
              ToPhase("rollback") /\ UNCHANGED <<sps, pending, durable>>
         [] ~Autocommit /\ ~(Top.err \/ Top.panic) ->
              \/ /\ ~Interrupted
                 /\ IF Top.kind = "txn" THEN Commit ELSE Release(Top.name)
                 /\ ToPhase("ret")
              \/ GotoErr("ret") /\ UNCHANGED <<sps, pending, durable>>
              \/ FailAndForgive /\ RollbackAll
         [] OTHER -> ToPhase("ret") /\ UNCHANGED <<sps, pending, durable>>
    /\ UNCHANGED <<opened, doneCh, chClosed>>

\* Up to the error path: nothing was begun; autocommit; the success path, where
\* RELEASE or COMMIT succeeds, fails and leaves the transaction, or fails and
\* rolls it back.
EndScope ==
    /\ scopes # <<>> /\ Top.pc = "release"
    /\ CASE ~Top.begun -> GotoErr("ret") /\ UNCHANGED <<sps, pending, durable>>
         [] Top.begun /\ Autocommit -> ToPhase("ret") /\ UNCHANGED <<sps, pending, durable>>
         [] Top.begun /\ ~Autocommit /\ (Top.err \/ Top.panic) ->
              ToPhase("rollback") /\ UNCHANGED <<sps, pending, durable>>
         [] OTHER ->
              \/ /\ ~Interrupted
                 /\ IF Top.kind = "txn" THEN Commit ELSE Release(Top.name)
                 /\ ToPhase("ret")
              \/ GotoErr("rollback") /\ UNCHANGED <<sps, pending, durable>>
              \/ FailAndForgive /\ RollbackAll
    /\ UNCHANGED <<opened, doneCh, chClosed>>

\* Mutant: the error path leaves doneCh in place.
TakeDoneChNot ==
    /\ scopes # <<>> /\ Top.pc = "rollback" /\ Top.old = "none"
    /\ scopes' = [scopes EXCEPT ![Len(scopes)].old = doneCh]
    /\ UNCHANGED <<sps, pending, durable, opened, doneCh, chClosed>>

\* oldDoneCh := conn.SetInterrupt(nil)
TakeDoneCh ==
    /\ scopes # <<>> /\ Top.pc = "rollback" /\ Top.old = "none"
    /\ doneCh' = "nil"
    /\ scopes' = [scopes EXCEPT ![Len(scopes)].old = doneCh]
    /\ UNCHANGED <<sps, pending, durable, opened, chClosed>>

\* ROLLBACK TO and RELEASE, or ROLLBACK; the deferred call puts doneCh back.
\* A savepoint that is not there, or an interrupt, is a panic.
Rollback ==
    /\ scopes # <<>> /\ Top.pc = "rollback" /\ Top.old # "none"
    /\ CASE Interrupted \/ Matching(Top.name) = {} ->
              /\ scopes' = [scopes EXCEPT ![Len(scopes)].pc = "ret",
                                          ![Len(scopes)].panic = TRUE]
              /\ UNCHANGED <<sps, pending, durable>>
         [] OTHER ->
              /\ IF Top.kind = "txn" THEN RollbackAll ELSE RollbackTo(Top.name)
              /\ ToPhase("ret")
    /\ doneCh' = Top.old
    /\ UNCHANGED <<opened, chClosed>>

\* The release function returns, or panics through the function around it.
ScopeReturns ==
    /\ scopes # <<>> /\ Top.pc = "ret"
    /\ LET rest == SubSeq(scopes, 1, Len(scopes) - 1)
       IN  scopes' = IF Top.panic /\ rest # <<>>
                     THEN [rest EXCEPT ![Len(rest)].pc = "release",
                                       ![Len(rest)].panic = TRUE]
                     ELSE rest
    /\ UNCHANGED <<sps, pending, durable, opened, doneCh, chClosed>>

SavepointNext ==
    \/ CloseSaved \/ NewDoneCh
    \/ \E n \in Names : Save("save", n) \/ Save("script", n)
    \/ \E m \in {"DEFERRED", "IMMEDIATE", "EXCLUSIVE"} : Transaction(m)
    \/ WriteRow \/ WriteRollsBack \/ UserEnds \/ BodyEnds
    \/ EndScope \/ TakeDoneCh \/ Rollback \/ ScopeReturns

SavepointSpec == SavepointInit /\ [][SavepointNext]_spvars
-----------------------------------------------------------------------------
WritesOf(id, ws) == {w \in ws : id \in w.scopes}
AllWrites == Range(pending) \cup durable
\* The first k writes that the body of a scope itself has made are there.
Written(id, k, ws) == \A n \in 1 .. k : \E w \in ws : w.by = id /\ w.n = n

\* Save and Transaction are atomic: when the release function of a scope
\* returns an error or panics, none of the writes of its body and of the scopes
\* within is left, whenever doneCh was closed; when it returns nil, all that the
\* body itself has written is there, and durable if the scope is the outermost.
\* Excepted are transactions that SQLite or the body itself has ended.  The
\* outermost release leaves no transaction open.
ScopeIsAtomic ==
    [][ScopeReturns =>
         /\ Len(scopes) = 1 => Autocommit
         /\ ~Top.forgiven =>
              IF Top.err \/ Top.panic THEN WritesOf(Top.id, AllWrites) = {}
              ELSE /\ Written(Top.id, Top.own, AllWrites)
                   /\ Top.outermost => WritesOf(Top.id, Range(pending)) = {}]_spvars

\* The release function gives the connection its doneCh back ("Always run
\* ROLLBACK even if the connection has been interrupted", savepoint.go:109), and
\* ROLLBACK itself never fails for an interrupt or a missing savepoint.
InterruptRestored ==
    [][/\ ScopeReturns => doneCh = Top.ch
       /\ Rollback => ~Interrupted /\ Matching(Top.name) # {}]_spvars
=============================================================================
