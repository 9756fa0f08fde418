-------------------------- MODULE StatementsProofs --------------------------
(***************************************************************************)
(* Proofs about Statements, for any queries, statements and depth of       *)
(* helpers: Go and SQLite agree about every statement, a refused value is  *)
(* not forgotten, and a helper leaves its statement reset; and about       *)
(* ExecArgs, for any number of parameters and width of a word: a statement *)
(* is stepped only with all its parameters bound.                          *)
(***************************************************************************)
EXTENDS Statements, ExecArgs, WellFoundedInduction, TLAPS

\* What holds of every Stmt on its own: lastHasRow is SQLite's state, and with
\* no error of a Bind to report SQLite has the value the application passed.
Sound(r) ==
    /\ r.lastHasRow <=> r.vm = "row"
    /\ r.phase = "live" /\ ~r.bindErr => r.bound = r.wanted

\* What a method other than Finalize leaves alone.
SameStmt(r, x) ==
    /\ x \in StmtRecord /\ Sound(x)
    /\ x.phase = r.phase /\ x.query = r.query /\ x.cached = r.cached

\* The cache and the statements point at each other.
Cache ==
    /\ \A q \in Queries : stmts[q] # NoStmt =>
          /\ st[stmts[q]].phase = "live"
          /\ st[stmts[q]].cached
          /\ st[stmts[q]].query = q
    /\ \A s \in Stmts : st[s].cached => st[s].query \in Queries /\ stmts[st[s].query] = s
    /\ connClosed => (\A s \in Stmts : ~st[s].cached) /\ (dbOpen => closeErr)

StmtsInv ==
    /\ stmts \in [Queries -> Stmts \cup {NoStmt}]
    /\ st \in [Stmts -> StmtRecord]
    /\ done \in BOOLEAN /\ connClosed \in BOOLEAN /\ dbOpen \in BOOLEAN
    /\ closeErr \in BOOLEAN
    /\ Cache
    /\ \A s \in Stmts : Sound(st[s])

StatementsInv == StmtsInv /\ frames \in Seq(Frame)
-----------------------------------------------------------------------------
(***************************************************************************)
(* The methods of a Stmt.                                                  *)
(***************************************************************************)

\* A part of a sequence.
LEMMA Slice ==
  ASSUME NEW S, NEW s, NEW lo \in Int, NEW hi \in Int, \A j \in lo .. hi : s[j] \in S
  PROVE  /\ SubSeq(s, lo, hi) \in Seq(S)
         /\ Len(SubSeq(s, lo, hi)) = IF lo <= hi THEN hi - lo + 1 ELSE 0
         /\ \A j \in 1 .. hi - lo + 1 : SubSeq(s, lo, hi)[j] = s[lo + j - 1]
  OBVIOUS

\* A sequence with one more element.
LEMMA Longer ==
  ASSUME NEW S, NEW s \in Seq(S), NEW e \in S
  PROVE  /\ Append(s, e) \in Seq(S) /\ Append(s, e) # <<>>
         /\ Len(Append(s, e)) = Len(s) + 1 /\ Append(s, e)[Len(s) + 1] = e
         /\ \A j \in 1 .. Len(s) : Append(s, e)[j] = s[j]
  OBVIOUS

\* The empty sequence, and those that are not empty.
LEMMA Nonempty ==
  ASSUME NEW S
  PROVE  /\ <<>> \in Seq(S) /\ Len(<<>>) = 0
         /\ \A s \in Seq(S) : s # <<>> => Len(s) \in Nat \ {0}
  OBVIOUS

\* A sequence as a function.
LEMMA Lengths ==
  ASSUME NEW S, NEW s \in Seq(S)
  PROVE  Len(s) \in Nat /\ s \in [1 .. Len(s) -> S] /\ DOMAIN s = 1 .. Len(s)
  OBVIOUS

\* A sequence with another element in one place.
LEMMA Altered ==
  ASSUME NEW S, NEW s \in Seq(S), NEW i \in 1 .. Len(s), NEW e \in S
  PROVE  /\ [s EXCEPT ![i] = e] \in Seq(S) /\ Len([s EXCEPT ![i] = e]) = Len(s)
         /\ \A j \in 1 .. Len(s) : [s EXCEPT ![i] = e][j] = IF j = i THEN e ELSE s[j]
  OBVIOUS

\* The elements of a sequence.
LEMMA Element == ASSUME NEW S, NEW s \in Seq(S), NEW n \in 1 .. Len(s)  PROVE s[n] \in S
  OBVIOUS

\* One method after the other.
LEMMA SameTrans ==
  ASSUME NEW r, NEW x, NEW y, SameStmt(r, x), SameStmt(x, y)
  PROVE  SameStmt(r, y)
BY Zenon DEF SameStmt

\* Reset and ClearBindings.
LEMMA ResetSound ==
  ASSUME NEW r \in StmtRecord, Sound(r)
  PROVE  /\ SameStmt(r, ResetStmt(r)) /\ ResetStmt(r).vm = "ready"
         /\ SameStmt(r, ClearBindings(ResetStmt(r))) /\ SameStmt(r, ClearBindings(r))
<1>1. SameStmt(r, ResetStmt(r)) /\ ResetStmt(r).vm = "ready"
  BY ZenonT(40) DEF StmtRecord, Sound, SameStmt, ResetStmt
<1>2. ASSUME NEW x \in StmtRecord, Sound(x) PROVE SameStmt(x, ClearBindings(x))
  BY ZenonT(40), <1>2 DEF StmtRecord, Sound, SameStmt, ClearBindings
<1>3. SameStmt(ResetStmt(r), ClearBindings(ResetStmt(r)))
  BY Zenon, <1>1, <1>2 DEF SameStmt
<1> QED BY Zenon, <1>1, <1>2, <1>3, SameTrans

\* Bind and Set, whether SQLite takes the value or not.
LEMMA BindSound ==
  ASSUME NEW r \in StmtRecord, Sound(r), NEW v \in Params, NEW x \in Bind(r, v)
  PROVE  SameStmt(r, x)
<1>1. CASE x = r BY Zenon, <1>1 DEF SameStmt
<1>2. CASE r.phase = "stub" /\ x = [r EXCEPT !.bindErr = TRUE]
  BY Zenon, <1>2 DEF StmtRecord, Sound, SameStmt
<1>3. CASE x = [r EXCEPT !.bindErr = TRUE, !.wanted = v]
  BY Zenon, <1>3 DEF StmtRecord, Sound, SameStmt
<1>4. CASE x = [r EXCEPT !.bound = v, !.wanted = v]
  BY Zenon, <1>4 DEF StmtRecord, Sound, SameStmt
<1> QED BY Zenon, <1>1, <1>2, <1>3, <1>4 DEF Bind

\* Step, with every result.
LEMMA StepSound ==
  ASSUME NEW r \in StmtRecord, Sound(r), NEW o \in Step(r)
  PROVE  SameStmt(r, o.r)
<1>1. CASE r.bindErr
  <2>1. o.r = ResetStmt([r EXCEPT !.bindErr = FALSE, !.wanted = r.bound])
    BY <1>1 DEF Step
  <2> DEFINE x == [r EXCEPT !.bindErr = FALSE, !.wanted = r.bound]
  <2>2. SameStmt(r, x) BY Zenon DEF StmtRecord, Sound, SameStmt
  <2> HIDE DEF x
  <2>3. SameStmt(x, ResetStmt(x)) BY Zenon, <2>2, ResetSound DEF SameStmt
  <2>4. o.r = ResetStmt(x) BY Zenon, <2>1 DEF x
  <2> QED BY Zenon, <2>2, <2>3, <2>4, SameTrans
<1>2. CASE ~r.bindErr
  <2>1. \E res \in {"row", "done", "error", "interrupt"} : o.r = Stepped(r, res)
    BY <1>2 DEF Step
  <2>2. ASSUME NEW res \in {"row", "done", "error", "interrupt"}
        PROVE  SameStmt(r, Stepped(r, res))
    <3>1. CASE res = "row" BY Zenon, <3>1 DEF StmtRecord, Sound, SameStmt, Stepped
    <3>2. CASE res = "done" BY Zenon, <3>2 DEF StmtRecord, Sound, SameStmt, Stepped
    <3>3. CASE res \notin {"row", "done"}
      BY Zenon, <3>3 DEF StmtRecord, Sound, SameStmt, Stepped
    <3> QED BY Zenon, <3>1, <3>2, <3>3
  <2> QED BY Zenon, <2>1, <2>2
<1> QED BY Zenon, <1>1, <1>2

\* A new statement, and the stub of Prep.
LEMMA NewSound ==
  ASSUME NEW q \in Queries, NEW c \in BOOLEAN
  PROVE  /\ NewStmt(q, c) \in StmtRecord /\ Sound(NewStmt(q, c))
         /\ NewStmt(q, c).phase = "live" /\ NewStmt(q, c).query = q
         /\ NewStmt(q, c).cached = c
         /\ [Free EXCEPT !.phase = "stub", !.query = q] \in StmtRecord
         /\ Sound([Free EXCEPT !.phase = "stub", !.query = q])
         /\ ~[Free EXCEPT !.phase = "stub", !.query = q].cached
BY Zenon DEF StmtRecord, Sound, NewStmt, Free

\* A statement that has been finalized.
LEMMA FreeSound ==
  Free \in StmtRecord /\ Sound(Free) /\ ~Free.cached /\ Free.vm = "ready"
BY Zenon DEF StmtRecord, Sound, Free
-----------------------------------------------------------------------------
(***************************************************************************)
(* How the statements and the cache change together.                       *)
(***************************************************************************)

\* A step that only runs methods of statements.
LEMMA Methods ==
  ASSUME StmtsInv, st' \in [Stmts -> StmtRecord],
         \A s \in Stmts : SameStmt(st[s], st'[s]),
         UNCHANGED <<stmts, connClosed, dbOpen, closeErr>>, done' \in BOOLEAN
  PROVE  StmtsInv'
<1>1. \A s \in Stmts : Sound(st'[s]) /\ st'[s].phase = st[s].phase
                       /\ st'[s].query = st[s].query /\ st'[s].cached = st[s].cached
  BY Zenon DEF SameStmt
<1>2. Cache' BY <1>1 DEF StmtsInv, Cache
<1> QED BY Zenon, <1>1, <1>2 DEF StmtsInv

\* Of one statement.
LEMMA Method ==
  ASSUME StmtsInv, NEW s \in Stmts, NEW x, SameStmt(st[s], x),
         st' = [st EXCEPT ![s] = x],
         UNCHANGED <<stmts, done, connClosed, dbOpen, closeErr>>
  PROVE  StmtsInv'
<1>1. st \in [Stmts -> StmtRecord] /\ \A u \in Stmts : Sound(st[u])
  BY Zenon DEF StmtsInv
<1>2. x \in StmtRecord BY Zenon DEF SameStmt
<1>3. st' \in [Stmts -> StmtRecord] BY Zenon, <1>1, <1>2
<1>4. \A u \in Stmts : SameStmt(st[u], st'[u])
  <2> TAKE u \in Stmts
  <2>1. CASE u = s BY Zenon, <1>1, <2>1
  <2>2. CASE u # s
    <3>1. st'[u] = st[u] BY Zenon, <1>1, <2>2
    <3> QED BY Zenon, <1>1, <3>1 DEF SameStmt
  <2> QED BY Zenon, <2>1, <2>2
<1>5. done' \in BOOLEAN BY Zenon DEF StmtsInv
<1> QED BY Zenon, <1>3, <1>4, <1>5, Methods

\* A preparation outside of the cache.
LEMMA Transient ==
  ASSUME StmtsInv, NEW n \in Unused, NEW x \in StmtRecord, Sound(x), ~x.cached,
         st' = [st EXCEPT ![n] = x],
         UNCHANGED <<stmts, done, connClosed, dbOpen, closeErr>>
  PROVE  StmtsInv'
<1>1. n \in Stmts /\ st[n].phase = "free" BY Zenon DEF Unused
<1>2. st' \in [Stmts -> StmtRecord] BY Zenon, <1>1 DEF StmtsInv
<1>3. st'[n] = x /\ \A s \in Stmts \ {n} : st'[s] = st[s]
  BY Zenon, <1>1 DEF StmtsInv
<1>4. \A q \in Queries : stmts[q] # n
  BY <1>1, StatementsAssumption DEF StmtsInv, Cache
<1>5. Cache' BY <1>1, <1>3, <1>4 DEF StmtsInv, Cache
<1>6. \A s \in Stmts : Sound(st'[s]) BY Zenon, <1>3 DEF StmtsInv
<1> QED BY Zenon, <1>2, <1>5, <1>6 DEF StmtsInv

\* A preparation that enters the statement in the cache.
LEMMA Cached ==
  ASSUME StmtsInv, NEW q \in Queries, stmts[q] = NoStmt, NEW n \in Unused,
         ~connClosed,
         st' = [st EXCEPT ![n] = NewStmt(q, TRUE)], stmts' = [stmts EXCEPT ![q] = n],
         UNCHANGED <<done, connClosed, dbOpen, closeErr>>
  PROVE  StmtsInv'
<1> DEFINE x == NewStmt(q, TRUE)
<1>1. n \in Stmts /\ st[n].phase = "free" BY Zenon DEF Unused
<1>2. x \in StmtRecord /\ Sound(x) /\ x.phase = "live" /\ x.query = q /\ x.cached
  BY Zenon, NewSound
<1>3. st' = [st EXCEPT ![n] = x] BY Zenon
<1> HIDE DEF x
<1>4. st' \in [Stmts -> StmtRecord] BY Zenon, <1>1, <1>2, <1>3 DEF StmtsInv
<1>5. st'[n] = x /\ \A s \in Stmts \ {n} : st'[s] = st[s] BY Zenon, <1>1, <1>3 DEF StmtsInv
<1>6. stmts' \in [Queries -> Stmts \cup {NoStmt}] /\ stmts'[q] = n
      /\ \A k \in Queries \ {q} : stmts'[k] = stmts[k]
  BY Zenon, <1>1 DEF StmtsInv
<1>7. \A k \in Queries : stmts[k] # n
  BY <1>1, StatementsAssumption DEF StmtsInv, Cache
<1>8. \A s \in Stmts : st[s].cached => st[s].query \in Queries \ {q}
  BY StatementsAssumption DEF StmtsInv, Cache
<1>9. Cache'
  <2>1. \A k \in Queries : stmts'[k] # NoStmt =>
           /\ st'[stmts'[k]].phase = "live" /\ st'[stmts'[k]].cached
           /\ st'[stmts'[k]].query = k
    <3> TAKE k \in Queries
    <3>1. CASE k = q BY Zenon, <1>1, <1>2, <1>5, <1>6, <3>1
    <3>2. CASE k # q /\ stmts[k] # NoStmt
      <4>1. stmts'[k] = stmts[k] /\ stmts[k] \in Stmts \ {n}
        BY Zenon, <1>6, <1>7, <3>2 DEF StmtsInv
      <4>2. st'[stmts'[k]] = st[stmts[k]] BY Zenon, <1>5, <4>1
      <4> QED BY Zenon, <3>2, <4>2 DEF StmtsInv, Cache
    <3> QED BY Zenon, <1>6, <3>1, <3>2
  <2>2. \A s \in Stmts : st'[s].cached =>
           st'[s].query \in Queries /\ stmts'[st'[s].query] = s
    <3> TAKE s \in Stmts
    <3>1. CASE s = n BY Zenon, <1>2, <1>5, <1>6, <3>1
    <3>2. CASE s # n /\ st[s].cached
      <4>1. st'[s] = st[s] BY Zenon, <1>5, <3>2
      <4>2. st[s].query \in Queries \ {q} /\ stmts[st[s].query] = s
        BY Zenon, <1>8, <3>2 DEF StmtsInv, Cache
      <4> QED BY Zenon, <1>6, <4>1, <4>2
    <3> QED BY Zenon, <1>5, <3>1, <3>2
  <2> QED BY Zenon, <2>1, <2>2 DEF Cache
<1>10. \A s \in Stmts : Sound(st'[s]) BY Zenon, <1>2, <1>5 DEF StmtsInv
<1> QED BY Zenon, <1>4, <1>6, <1>9, <1>10 DEF StmtsInv

\* Finalize, and the deletion from the cache.
LEMMA Finalizes ==
  ASSUME StmtsInv, NEW s \in Stmts, st' = Finalized(s), stmts' = CacheWithout(s),
         UNCHANGED <<done, connClosed, dbOpen, closeErr>>
  PROVE  StmtsInv'
<1> DEFINE x == Free
<1>1. x \in StmtRecord /\ Sound(x) /\ ~x.cached BY Zenon, FreeSound
<1>2. st' = [st EXCEPT ![s] = x] BY Zenon DEF Finalized
<1> HIDE DEF x
<1>3. st' \in [Stmts -> StmtRecord] BY Zenon, <1>1, <1>2 DEF StmtsInv
<1>4. st'[s] = x /\ \A u \in Stmts \ {s} : st'[u] = st[u]
  BY Zenon, <1>2 DEF StmtsInv
<1>5. stmts' \in [Queries -> Stmts \cup {NoStmt}]
  BY Zenon DEF StmtsInv, CacheWithout
<1>6. \A q \in Queries : stmts'[q] = IF stmts[q] = s THEN NoStmt ELSE stmts[q]
  BY Zenon, StatementsAssumption DEF StmtsInv, Cache, CacheWithout
<1>7. Cache' BY <1>1, <1>4, <1>6, StatementsAssumption DEF StmtsInv, Cache
<1>8. \A u \in Stmts : Sound(st'[u]) BY Zenon, <1>1, <1>4 DEF StmtsInv
<1> QED BY Zenon, <1>3, <1>5, <1>7, <1>8 DEF StmtsInv
-----------------------------------------------------------------------------
(***************************************************************************)
(* The helpers on the stack.                                               *)
(***************************************************************************)

\* The innermost helper.
LEMMA Top ==
  ASSUME frames \in Seq(Frame), frames # <<>>
  PROVE  /\ TopFrame \in Frame /\ TopFrame.s \in Stmts
         /\ Len(frames) \in Nat \ {0} /\ TopFrame = frames[Len(frames)]
<1>1. Len(frames) \in Nat \ {0} BY Zenon, Nonempty
<1>2. frames[Len(frames)] \in Frame BY <1>1, Element
<1> QED BY Zenon, <1>1, <1>2 DEF TopFrame, Frame

\* A helper that goes on, or returns.
LEMMA Moves ==
  ASSUME frames \in Seq(Frame), frames # <<>>
  PROVE  /\ \A pc \in {"bind", "step", "callback", "teardown", "reset"} :
               Goto(pc) => frames' \in Seq(Frame) /\ Len(frames') = Len(frames)
         /\ Return => frames' \in Seq(Frame)
<1> DEFINE n == Len(frames)
<1>1. n \in Nat \ {0} /\ frames[n] \in Frame BY Zenon, Top
<1>2. DOMAIN frames = 1 .. n BY Zenon, Lengths
<1>3. ASSUME NEW pc \in {"bind", "step", "callback", "teardown", "reset"}, Goto(pc)
      PROVE  frames' \in Seq(Frame) /\ Len(frames') = Len(frames)
  <2>1. [frames[n] EXCEPT !.pc = pc] \in Frame BY Zenon, <1>1 DEF Frame
  <2>2. frames' = [frames EXCEPT ![n] = [frames[n] EXCEPT !.pc = pc]]
    BY Zenon, <1>3 DEF Goto
  <2>3. n \in 1 .. Len(frames) BY <1>1 DEF n
  <2> HIDE DEF n
  <2> QED BY <2>1, <2>2, <2>3, Altered
<1>4. ASSUME Return PROVE frames' \in Seq(Frame)
  <2>1. frames' = SubSeq(frames, 1, n - 1) BY Zenon, <1>4 DEF Return
  <2>2. \A i \in 1 .. n - 1 : frames[i] \in Frame BY <1>1, Element
  <2> HIDE DEF n
  <2> QED BY <1>1, <2>1, <2>2, Slice
<1> QED BY Zenon, <1>3, <1>4

\* A call of a helper.
LEMMA Pushes ==
  ASSUME frames \in Seq(Frame),
         NEW op \in {"execute", "transient", "result", "insert"}, NEW s \in Stmts,
         NEW pc \in {"bind", "step", "callback", "teardown", "reset"},
         Push(op, s, pc)
  PROVE  frames' \in Seq(Frame) /\ Len(frames') = Len(frames) + 1
<1>1. [op |-> op, s |-> s, pc |-> pc, try |-> 0] \in Frame
  BY StatementsAssumption DEF Frame
<1> QED BY Zenon, <1>1, Longer DEF Push
-----------------------------------------------------------------------------
(***************************************************************************)
(* Every step keeps the invariant.                                         *)
(***************************************************************************)

\* Prepare, with every result.
LEMMA Prepares ==
  ASSUME StmtsInv, ~connClosed, NEW q \in Queries, NEW o \in Prepare(q),
         st' = o.st, stmts' = o.stmts, UNCHANGED <<done, connClosed, dbOpen, closeErr>>
  PROVE  StmtsInv' /\ o.s \in Stmts \cup {NoStmt}
<1>1. CASE stmts[q] # NoStmt
  <2> DEFINE s == stmts[q]
  <2>1. s \in Stmts /\ st[s] \in StmtRecord /\ Sound(st[s])
    BY Zenon, <1>1 DEF StmtsInv
  <2>2. \E x \in {ResetStmt(st[s]), ClearBindings(ResetStmt(st[s]))} :
           st' = [st EXCEPT ![s] = x]
    <3> DEFINE A == [st EXCEPT ![s] = ResetStmt(st[s])]
               B == [st EXCEPT ![s] = ClearBindings(ResetStmt(st[s]))]
    <3>1. \/ o = [st |-> A, stmts |-> stmts, s |-> NoStmt]
          \/ o = [st |-> B, stmts |-> stmts, s |-> s]
      BY Zenon, <1>1 DEF Prepare
    <3>2. st' = A \/ st' = B
      <4> HIDE DEF A, B
      <4> QED BY <3>1
    <3> QED BY Zenon, <3>2
  <2>3. stmts' = stmts /\ o.s \in {NoStmt, s} BY <1>1 DEF Prepare
  <2>4. PICK x \in {ResetStmt(st[s]), ClearBindings(ResetStmt(st[s]))} :
           st' = [st EXCEPT ![s] = x]
    BY Zenon, <2>2
  <2>5. SameStmt(st[s], x) BY Zenon, <2>1, <2>4, ResetSound
  <2> HIDE DEF s
  <2>6. StmtsInv' BY Zenon, <2>1, <2>3, <2>4, <2>5, Method
  <2> QED BY Zenon, <2>1, <2>3, <2>6
<1>2. CASE stmts[q] = NoStmt /\ st' = st /\ stmts' = stmts /\ o.s = NoStmt
  BY <1>2 DEF StmtsInv, Cache
<1>3. ASSUME stmts[q] = NoStmt, NEW n \in Unused, o.s = n,
             st' = [st EXCEPT ![n] = NewStmt(q, TRUE)], stmts' = [stmts EXCEPT ![q] = n]
      PROVE  StmtsInv' /\ o.s \in Stmts \cup {NoStmt}
  BY Zenon, <1>3, Cached DEF Unused
<1>4. stmts[q] = NoStmt =>
         \/ st' = st /\ stmts' = stmts /\ o.s = NoStmt
         \/ \E n \in Unused : /\ o.s = n /\ stmts' = [stmts EXCEPT ![q] = n]
                               /\ st' = [st EXCEPT ![n] = NewStmt(q, TRUE)]
  <2> DEFINE A(n) == [st EXCEPT ![n] = NewStmt(q, TRUE)]
             B(n) == [stmts EXCEPT ![q] = n]
  <2>1. stmts[q] = NoStmt =>
           \/ o = [st |-> st, stmts |-> stmts, s |-> NoStmt]
           \/ \E n \in Unused : o = [st |-> A(n), stmts |-> B(n), s |-> n]
    BY Zenon DEF Prepare
  <2>2. ASSUME NEW n \in Unused, o = [st |-> A(n), stmts |-> B(n), s |-> n]
        PROVE  o.s = n /\ stmts' = B(n) /\ st' = A(n)
    <3> HIDE DEF A, B
    <3> QED BY Zenon, <2>2
  <2>3. ASSUME o = [st |-> st, stmts |-> stmts, s |-> NoStmt]
        PROVE  st' = st /\ stmts' = stmts /\ o.s = NoStmt
    BY Zenon, <2>3
  <2> QED BY Zenon, <2>1, <2>2, <2>3
<1> QED BY Zenon, <1>1, <1>2, <1>3, <1>4

\* Prepare, Prep and PrepareTransient of the application.
LEMMA AppPrepares ==
  ASSUME StatementsInv, NEW q \in Queries,
         AppPrepare(q) \/ AppPrepStub(q) \/ AppPrepareTransient(q)
  PROVE  StatementsInv' /\ UNCHANGED frames
<1> USE DEF StatementsInv
<1>1. CASE AppPrepare(q)
  <2>1. ~connClosed /\ \E o \in Prepare(q) : st' = o.st /\ stmts' = o.stmts
    BY Zenon, <1>1 DEF AppPrepare, App
  <2> QED BY Zenon, <1>1, <2>1, Prepares DEF AppPrepare
<1>2. CASE AppPrepareTransient(q)
  BY Zenon, <1>2, NewSound, Transient DEF AppPrepareTransient
<1>3. CASE AppPrepStub(q)
  <2> DEFINE x == [Free EXCEPT !.phase = "stub", !.query = q]
  <2>1. x \in StmtRecord /\ Sound(x) /\ ~x.cached BY Zenon, NewSound
  <2>2. PICK n \in Unused :
           st' = [u \in Stmts |-> IF u = n THEN x
                                  ELSE IF u = stmts[q] THEN ResetStmt(st[u]) ELSE st[u]]
    BY Zenon, <1>3 DEF AppPrepStub
  <2> HIDE DEF x
  <2>3. n \in Stmts /\ st[n].phase = "free" BY Zenon DEF Unused
  <2>4. \A u \in Stmts : st[u] \in StmtRecord /\ Sound(st[u]) BY Zenon DEF StmtsInv
  <2>5. \A u \in Stmts \ {n} : SameStmt(st[u], st'[u])
    <3> TAKE u \in Stmts \ {n}
    <3>1. SameStmt(st[u], ResetStmt(st[u])) /\ SameStmt(st[u], st[u])
      BY Zenon, <2>4, ResetSound DEF SameStmt
    <3>2. st'[u] \in {ResetStmt(st[u]), st[u]} BY Zenon, <2>2
    <3> QED BY Zenon, <3>1, <3>2
  <2>6. st'[n] = x BY Zenon, <2>2, <2>3
  <2>7. \A u \in Stmts : st'[u] \in StmtRecord /\ Sound(st'[u])
    BY Zenon, <2>1, <2>5, <2>6 DEF SameStmt
  <2>8. st' \in [Stmts -> StmtRecord] BY Zenon, <2>2, <2>7
  <2>9. UNCHANGED <<stmts, done, connClosed, dbOpen, closeErr, frames>>
    BY Zenon, <1>3 DEF AppPrepStub
  <2>10. \A k \in Queries : stmts[k] # n
    BY <2>3, StatementsAssumption DEF StmtsInv, Cache
  <2>11. \A u \in Stmts \ {n} : /\ st'[u].phase = st[u].phase
                                 /\ st'[u].query = st[u].query
                                 /\ st'[u].cached = st[u].cached
    BY Zenon, <2>5 DEF SameStmt
  <2>12. Cache' BY <2>1, <2>6, <2>9, <2>10, <2>11 DEF StmtsInv, Cache
  <2> QED BY Zenon, <2>7, <2>8, <2>9, <2>12 DEF StmtsInv
<1> QED BY Zenon, <1>1, <1>2, <1>3

\* The methods of a Stmt that the application calls.
LEMMA AppKeeps ==
  ASSUME StatementsInv, NEW s \in Stmts,
         \/ AppBind(s) \/ AppStep(s) \/ AppReset(s) \/ AppClearBindings(s)
         \/ AppFinalize(s)
  PROVE  StatementsInv' /\ UNCHANGED frames
<1> USE DEF StatementsInv
<1>0. st[s] \in StmtRecord /\ Sound(st[s]) BY Zenon DEF StmtsInv
<1>1. CASE AppBind(s) BY Zenon, <1>0, <1>1, BindSound, Method DEF AppBind
<1>2. CASE AppStep(s) BY Zenon, <1>0, <1>2, StepSound, Method DEF AppStep
<1>3. CASE AppReset(s) BY Zenon, <1>0, <1>3, ResetSound, Method DEF AppReset
<1>4. CASE AppClearBindings(s)
  BY Zenon, <1>0, <1>4, ResetSound, Method DEF AppClearBindings
<1>5. CASE AppFinalize(s) BY Zenon, <1>5, Finalizes DEF AppFinalize
<1> QED BY Zenon, <1>1, <1>2, <1>3, <1>4, <1>5

\* SetInterrupt resets some statements.
LEMMA SetInterruptKeeps ==
  ASSUME StatementsInv, SetInterrupt
  PROVE  StatementsInv' /\ UNCHANGED frames
<1>1. \A s \in Stmts : st[s] \in StmtRecord /\ Sound(st[s])
  BY Zenon DEF StatementsInv, StmtsInv
<1>2. st' = [s \in Stmts |-> IF s \in {stmts[q] : q \in Queries} /\ st[s].lastHasRow
                             THEN ResetStmt(st[s]) ELSE st[s]]
  BY Zenon DEF SetInterrupt
<1>3. \A s \in Stmts : SameStmt(st[s], st'[s])
  <2> TAKE s \in Stmts
  <2>1. SameStmt(st[s], ResetStmt(st[s])) /\ SameStmt(st[s], st[s])
    BY Zenon, <1>1, ResetSound DEF SameStmt
  <2>2. st'[s] \in {ResetStmt(st[s]), st[s]} BY Zenon, <1>2
  <2> QED BY Zenon, <2>1, <2>2
<1>4. \A s \in Stmts : st'[s] \in StmtRecord BY Zenon, <1>3 DEF SameStmt
<1>5. st' \in [Stmts -> StmtRecord] BY Zenon, <1>2, <1>4
<1>6. UNCHANGED <<stmts, connClosed, dbOpen, closeErr, frames>> /\ done' \in BOOLEAN
  BY Zenon DEF SetInterrupt
<1> QED BY Zenon, <1>3, <1>5, <1>6, Methods DEF StatementsInv

\* Close empties the cache; an open handle is an error of Close.
LEMMA CloseKeeps ==
  ASSUME StatementsInv, CloseConn
  PROVE  StatementsInv' /\ UNCHANGED frames
<1> DEFINE x == Free
<1>1. x \in StmtRecord /\ Sound(x) /\ ~x.cached BY Zenon, FreeSound
<1>2. st' = [s \in Stmts |-> IF s \in {stmts[q] : q \in Queries} THEN x ELSE st[s]]
  BY Zenon DEF CloseConn
<1>3. /\ stmts' = [q \in Queries |-> NoStmt] /\ connClosed'
      /\ dbOpen' \in BOOLEAN /\ closeErr' = dbOpen' /\ UNCHANGED <<done, frames>>
  BY Zenon DEF CloseConn
<1> HIDE DEF x
<1>4. \A s \in Stmts : st'[s] \in StmtRecord /\ Sound(st'[s])
  BY Zenon, <1>1, <1>2 DEF StatementsInv, StmtsInv
<1>5. st' \in [Stmts -> StmtRecord] BY Zenon, <1>2, <1>4
<1>6. \A s \in Stmts : ~st'[s].cached
  BY <1>1, <1>2 DEF StatementsInv, StmtsInv, Cache
<1>7. Cache' BY Zenon, <1>3, <1>6 DEF Cache
<1>8. connClosed' = TRUE BY Zenon DEF CloseConn
<1> QED BY Zenon, <1>3, <1>4, <1>5, <1>7, <1>8 DEF StatementsInv, StmtsInv
-----------------------------------------------------------------------------
(***************************************************************************)
(* The helpers: they keep the invariant, and return with the statement     *)
(* reset.                                                                  *)
(***************************************************************************)

\* What HelpersReset says of a step.
LeavesReset ==
    \A s \in Stmts :
       (Len(frames') < Len(frames) /\ TopFrame.s = s /\ TopFrame.op # "insert")
          => st'[s].vm = "ready"

\* No helper returns in a step that keeps or grows the stack.
LEMMA NoReturn ==
  ASSUME frames \in Seq(Frame), frames' \in Seq(Frame), Len(frames') >= Len(frames)
  PROVE  LeavesReset
BY Lengths DEF LeavesReset

\* The calls of Execute and ExecuteTransient.
LEMMA ExecuteKeeps ==
  ASSUME StatementsInv, NEW q \in Queries, Execute(q) \/ ExecuteTransient(q)
  PROVE  StatementsInv' /\ LeavesReset
<1> USE DEF StatementsInv
<1>0. Len(frames) \in Nat BY Zenon, Lengths
<1>1. CASE Execute(q)
  <2>1. ~connClosed /\ UNCHANGED <<done, connClosed, dbOpen, closeErr>>
    BY Zenon, <1>1 DEF Execute, CanCall, App
  <2>2. PICK o \in Prepare(q) :
           /\ st' = o.st /\ stmts' = o.stmts
           /\ IF o.s = NoStmt THEN UNCHANGED frames ELSE Push("execute", o.s, "bind")
    BY Zenon, <1>1 DEF Execute
  <2>3. StmtsInv' /\ o.s \in Stmts \cup {NoStmt} BY Zenon, <2>1, <2>2, Prepares
  <2>4. frames' \in Seq(Frame) /\ Len(frames') >= Len(frames)
    BY <1>0, <2>2, <2>3, Pushes
  <2> QED BY Zenon, <2>3, <2>4, NoReturn
<1>2. CASE ExecuteTransient(q)
  <2>1. PICK n \in Unused, pc \in {"bind", "reset"} :
           st' = [st EXCEPT ![n] = NewStmt(q, FALSE)] /\ Push("transient", n, pc)
    BY Zenon, <1>2 DEF ExecuteTransient
  <2>2. StmtsInv' BY Zenon, <1>2, <2>1, NewSound, Transient DEF ExecuteTransient
  <2>3. frames' \in Seq(Frame) /\ Len(frames') >= Len(frames)
    BY <1>0, <2>1, Pushes DEF Unused
  <2> QED BY Zenon, <2>2, <2>3, NoReturn
<1> QED BY Zenon, <1>1, <1>2

\* The calls of Result and InsertRandID.
LEMMA CallsKeep ==
  ASSUME StatementsInv, NEW s \in Stmts, NEW op \in {"result", "insert"},
         CallWithStmt(op, s)
  PROVE  StatementsInv' /\ LeavesReset
<1> USE DEF StatementsInv
<1>1. StmtsInv' BY Zenon DEF CallWithStmt, StmtsInv, Cache
<1>2. frames' \in Seq(Frame) /\ Len(frames') >= Len(frames)
  BY Lengths, Pushes DEF CallWithStmt
<1> QED BY Zenon, <1>1, <1>2, NoReturn

\* The steps of exec.
LEMMA ExecKeeps ==
  ASSUME StatementsInv, ExecBind \/ ExecStep \/ ResultFuncReturns \/ ExecReturn
  PROVE  StatementsInv' /\ LeavesReset
<1> USE DEF StatementsInv
<1> DEFINE s == TopFrame.s
<1>0. frames # <<>> /\ UNCHANGED <<done, connClosed, dbOpen, closeErr>>
  BY Zenon DEF ExecBind, ExecStep, ResultFuncReturns, ExecReturn, At
<1>1. Len(frames) \in Nat /\ s \in Stmts /\ st[s] \in StmtRecord /\ Sound(st[s])
  BY Zenon, <1>0, Top DEF StmtsInv
<1>2. CASE ExecBind
  <2>1. StmtsInv'
    <3>1. CASE UNCHANGED st
      BY Zenon, <1>2, <3>1 DEF ExecBind, StmtsInv, Cache
    <3>2. CASE \E v \in Params : \E r \in Bind(st[s], v) : st' = [st EXCEPT ![s] = r]
      BY Zenon, <1>1, <1>2, <3>2, BindSound, Method DEF ExecBind
    <3> QED BY Zenon, <1>2, <3>1, <3>2 DEF ExecBind
  <2>2. frames' \in Seq(Frame) /\ Len(frames') = Len(frames)
    BY Zenon, <1>0, <1>2, Moves DEF ExecBind
  <2> QED BY <1>1, <2>1, <2>2, NoReturn
<1>3. CASE ExecStep
  <2>1. PICK o \in Step(st[s]) :
           /\ st' = [st EXCEPT ![s] = o.r]
           /\ Goto(IF o.res = "row" THEN "callback" ELSE "reset")
    BY Zenon, <1>3 DEF ExecStep
  <2>2. StmtsInv'
    <3>1. SameStmt(st[s], o.r) BY Zenon, <1>1, StepSound
    <3>2. UNCHANGED stmts BY Zenon, <1>3 DEF ExecStep
    <3> HIDE DEF s
    <3> QED BY Zenon, <1>0, <1>1, <2>1, <3>1, <3>2, Method
  <2>3. frames' \in Seq(Frame) /\ Len(frames') = Len(frames)
    BY Zenon, <1>0, <2>1, Moves
  <2> QED BY <1>1, <2>2, <2>3, NoReturn
<1>4. CASE ResultFuncReturns
  <2>1. StmtsInv' BY Zenon, <1>4 DEF ResultFuncReturns, StmtsInv, Cache
  <2>2. frames' \in Seq(Frame) /\ Len(frames') = Len(frames)
    BY Zenon, <1>0, <1>4, Moves DEF ResultFuncReturns
  <2> QED BY <1>1, <2>1, <2>2, NoReturn
<1>5. CASE ExecReturn
  <2>1. frames' \in Seq(Frame) BY Zenon, <1>0, <1>5, Moves DEF ExecReturn
  <2>2. CASE st' = [st EXCEPT ![s] = ResetStmt(st[s])] /\ UNCHANGED stmts
    <3>1. SameStmt(st[s], ResetStmt(st[s])) /\ ResetStmt(st[s]).vm = "ready"
      BY Zenon, <1>1, ResetSound
    <3>2. StmtsInv' BY Zenon, <1>0, <1>1, <2>2, <3>1, Method
    <3>3. st'[s] = ResetStmt(st[s]) BY Zenon, <1>1, <2>2 DEF StmtsInv
    <3> QED BY Zenon, <2>1, <3>1, <3>2, <3>3 DEF LeavesReset
  <2>3. CASE st' = Finalized(s) /\ stmts' = CacheWithout(s)
    <3>1. StmtsInv' BY Zenon, <1>0, <1>1, <2>3, Finalizes
    <3>2. st'[s].vm = "ready"
      BY Zenon, <1>1, <2>3, FreeSound DEF Finalized, StmtsInv
    <3> QED BY Zenon, <2>1, <3>1, <3>2 DEF LeavesReset
  <2> QED BY Zenon, <1>5, <2>2, <2>3 DEF ExecReturn
<1> QED BY Zenon, <1>2, <1>3, <1>4, <1>5

\* Result, and a try of InsertRandID.
LEMMA ResultKeeps ==
  ASSUME StatementsInv, ResultSetup \/ ResultTeardown \/ InsertTry
  PROVE  StatementsInv' /\ LeavesReset
<1> USE DEF StatementsInv
<1> DEFINE s == TopFrame.s
<1>0. frames # <<>> /\ UNCHANGED <<stmts, done, connClosed, dbOpen, closeErr>>
  BY Zenon DEF ResultSetup, ResultTeardown, InsertTry, At
<1>1. Len(frames) \in Nat /\ s \in Stmts /\ st[s] \in StmtRecord /\ Sound(st[s])
  BY Zenon, <1>0, Top DEF StmtsInv
<1>2. ASSUME NEW o \in Step(st[s]) PROVE SameStmt(st[s], o.r)
  BY Zenon, <1>1, StepSound
<1>3. ASSUME NEW o \in Step(st[s]), st' = [st EXCEPT ![s] = ResetStmt(o.r)], Return
      PROVE  StatementsInv' /\ LeavesReset
  <2>1. o.r \in StmtRecord /\ Sound(o.r) BY Zenon, <1>2 DEF SameStmt
  <2>2. SameStmt(o.r, ResetStmt(o.r)) /\ ResetStmt(o.r).vm = "ready"
    BY Zenon, <2>1, ResetSound
  <2>3. SameStmt(st[s], ResetStmt(o.r)) BY Zenon, <1>2, <2>2, SameTrans
  <2>4. StmtsInv' BY Zenon, <1>0, <1>1, <1>3, <2>3, Method
  <2>5. st'[s] = ResetStmt(o.r) BY Zenon, <1>1, <1>3 DEF StmtsInv
  <2>6. frames' \in Seq(Frame) BY Zenon, <1>0, <1>3, Moves
  <2> QED BY Zenon, <2>2, <2>4, <2>5, <2>6 DEF LeavesReset
<1>4. ASSUME NEW o \in Step(st[s]), st' = [st EXCEPT ![s] = o.r], Goto("teardown")
      PROVE  StatementsInv' /\ LeavesReset
  <2>1. StmtsInv' BY Zenon, <1>0, <1>1, <1>2, <1>4, Method
  <2>2. frames' \in Seq(Frame) /\ Len(frames') = Len(frames)
    BY Zenon, <1>0, <1>4, Moves
  <2> QED BY <1>1, <2>1, <2>2, NoReturn
<1>5. CASE ResultSetup BY Zenon, <1>3, <1>4, <1>5 DEF ResultSetup
<1>6. CASE ResultTeardown BY Zenon, <1>3, <1>6 DEF ResultTeardown
<1>7. CASE InsertTry
  <2>1. TopFrame.op = "insert" BY Zenon, <1>7 DEF InsertTry, At
  <2>2. PICK v \in Params : \E r \in Bind(ResetStmt(st[s]), v) : \E o \in Step(r) :
           /\ st' = [st EXCEPT ![s] = o.r]
           /\ \/ Return
              \/ /\ o.res = "error" /\ TopFrame.try < MaxTries
                 /\ frames' = [frames EXCEPT ![Len(frames)].try = @ + 1]
    BY Zenon, <1>7 DEF InsertTry
  <2>3. PICK r \in Bind(ResetStmt(st[s]), v) : \E o \in Step(r) :
           /\ st' = [st EXCEPT ![s] = o.r]
           /\ \/ Return
              \/ /\ o.res = "error" /\ TopFrame.try < MaxTries
                 /\ frames' = [frames EXCEPT ![Len(frames)].try = @ + 1]
    BY Zenon, <2>2
  <2>4. PICK o \in Step(r) :
           /\ st' = [st EXCEPT ![s] = o.r]
           /\ \/ Return
              \/ /\ o.res = "error" /\ TopFrame.try < MaxTries
                 /\ frames' = [frames EXCEPT ![Len(frames)].try = @ + 1]
    BY Zenon, <2>3
  <2>5. SameStmt(st[s], ResetStmt(st[s])) BY Zenon, <1>1, ResetSound
  <2>6. SameStmt(ResetStmt(st[s]), r) BY Zenon, <2>5, BindSound DEF SameStmt
  <2>7. SameStmt(r, o.r) BY Zenon, <2>6, StepSound DEF SameStmt
  <2>8. SameStmt(st[s], o.r) BY Zenon, <2>5, <2>6, <2>7, SameTrans
  <2>9. StmtsInv' BY Zenon, <1>0, <1>1, <2>4, <2>8, Method
  <2>10. frames' \in Seq(Frame)
    <3>1. CASE Return BY Zenon, <1>0, <3>1, Moves
    <3>2. CASE /\ TopFrame.try < MaxTries
               /\ frames' = [frames EXCEPT ![Len(frames)].try = @ + 1]
      <4> DEFINE n == Len(frames)
                 f == [frames[n] EXCEPT !.try = @ + 1]
      <4>1. n \in 1 .. Len(frames) /\ frames[n] \in Frame /\ frames[n].try < MaxTries
        BY <1>0, <3>2, Top
      <4>2. f \in Frame
        <5>1. frames[n].try \in 0 .. MaxTries BY Zenon, <4>1 DEF Frame
        <5>2. frames[n].try + 1 \in 0 .. MaxTries BY <4>1, <5>1, StatementsAssumption
        <5> HIDE DEF n
        <5> QED BY Zenon, <4>1, <5>2 DEF Frame
      <4>3. frames' = [frames EXCEPT ![n] = f] BY Zenon, <3>2
      <4> HIDE DEF n, f
      <4> QED BY Zenon, <4>1, <4>2, <4>3, Altered
    <3> QED BY Zenon, <2>4, <3>1, <3>2
  <2> QED BY Zenon, <2>1, <2>9, <2>10 DEF LeavesReset
<1> QED BY Zenon, <1>5, <1>6, <1>7

\* Every step of the application and of the helpers.
LEMMA StatementsStep ==
  ASSUME StatementsInv, [StatementsNext]_stvars
  PROVE  StatementsInv' /\ LeavesReset
<1>0. frames \in Seq(Frame) /\ Len(frames) \in Nat
  BY Zenon, Lengths DEF StatementsInv
<1>1. UNCHANGED frames => LeavesReset BY <1>0 DEF LeavesReset
<1>2. CASE UNCHANGED stvars
  BY Zenon, <1>1, <1>2 DEF stvars, StatementsInv, StmtsInv, Cache
<1>3. ASSUME NEW q \in Queries,
             \/ AppPrepare(q) \/ AppPrepStub(q) \/ AppPrepareTransient(q)
             \/ Execute(q) \/ ExecuteTransient(q)
      PROVE  StatementsInv' /\ LeavesReset
  BY Zenon, <1>1, <1>3, AppPrepares, ExecuteKeeps
<1>4. ASSUME NEW s \in Stmts,
             \/ AppBind(s) \/ AppStep(s) \/ AppReset(s) \/ AppClearBindings(s)
             \/ AppFinalize(s)
             \/ CallWithStmt("result", s) \/ CallWithStmt("insert", s)
      PROVE  StatementsInv' /\ LeavesReset
  BY Zenon, <1>1, <1>4, AppKeeps, CallsKeep
<1>5. CASE CloseDoneCh \/ SetInterrupt \/ CloseConn
  <2>1. CASE CloseDoneCh
    BY Zenon, <1>1, <2>1 DEF CloseDoneCh, StatementsInv, StmtsInv, Cache
  <2> QED BY Zenon, <1>1, <1>5, <2>1, SetInterruptKeeps, CloseKeeps
<1>6. CASE \/ ExecBind \/ ExecStep \/ ResultFuncReturns \/ ExecReturn
           \/ ResultSetup \/ ResultTeardown \/ InsertTry
  BY Zenon, <1>6, ExecKeeps, ResultKeeps
<1> QED BY Zenon, <1>2, <1>3, <1>4, <1>5, <1>6 DEF StatementsNext

\* An empty cache, and no helper.
LEMMA StatementsStarts == StatementsInit => StatementsInv
<1> SUFFICES ASSUME StatementsInit PROVE StatementsInv
    BY Zenon
<1> DEFINE x == Free
<1>1. x \in StmtRecord /\ Sound(x) /\ ~x.cached BY Zenon, FreeSound
<1>2. st = [s \in Stmts |-> x] BY Zenon DEF StatementsInit
<1> HIDE DEF x
<1>3. st \in [Stmts -> StmtRecord] /\ \A s \in Stmts : Sound(st[s]) /\ ~st[s].cached
  BY Zenon, <1>1, <1>2
<1>4. Cache BY Zenon, <1>3 DEF Cache, StatementsInit
<1>5. frames \in Seq(Frame) BY Zenon, Nonempty DEF StatementsInit
<1> QED BY Zenon, <1>3, <1>4, <1>5 DEF StatementsInit, StatementsInv, StmtsInv
-----------------------------------------------------------------------------
\* The invariant holds of every behaviour of the statements.
LEMMA StatementsInvHolds == StatementsSpec => []StatementsInv
<1>1. StatementsInv /\ [StatementsNext]_stvars => StatementsInv'
  BY Zenon, StatementsStep
<1> QED BY StatementsStarts, <1>1, PTL DEF StatementsSpec

\* Every field keeps its type, the stack of helpers included.
THEOREM StatementsTypes == StatementsSpec => []StatementsTypeOK
<1>1. StatementsInv => StatementsTypeOK
  BY Zenon DEF StatementsInv, StmtsInv, StatementsTypeOK
<1> QED BY StatementsInvHolds, <1>1, PTL

\* lastHasRow is what SQLite has, the cache has exactly the live persistent
\* statements, and Close finalizes them all or reports an error.
THEOREM StatementsAgree == StatementsSpec => []StmtsAgree
<1>1. StatementsInv => StmtsAgree
  <2> SUFFICES ASSUME StatementsInv PROVE StmtsAgree
      BY Zenon
  <2>1. \A s \in Stmts : st[s].lastHasRow = (st[s].vm = "row")
    BY Zenon DEF StatementsInv, StmtsInv, Sound, StmtRecord
  <2> QED BY Zenon, <2>1 DEF StatementsInv, StmtsInv, Cache, StmtsAgree
<1> QED BY StatementsInvHolds, <1>1, PTL

\* Step runs no statement with a value that the application has replaced: the
\* error of every failed Bind or Set is kept until a Step returns it.
THEOREM BindErrorsAreKept == StatementsSpec => []BindErrorsSurface
<1>1. StatementsInv => BindErrorsSurface
  BY Zenon DEF StatementsInv, StmtsInv, Sound, BindErrorsSurface, Live
<1> QED BY StatementsInvHolds, <1>1, PTL

\* Execute, ExecuteTransient and Result return with their statement reset or
\* finalized, whatever a ResultFunc did with the connection.
THEOREM HelpersLeaveReset == StatementsSpec => HelpersReset
<1>1. StatementsInv /\ [StatementsNext]_stvars => [LeavesReset]_stvars
  BY Zenon, StatementsStep
<1>2. [LeavesReset]_stvars <=>
      [\A s \in Stmts :
          (Len(frames') < Len(frames) /\ TopFrame.s = s /\ TopFrame.op # "insert")
             => st'[s].vm = "ready"]_stvars
  BY Zenon DEF LeavesReset
<1> QED BY StatementsInvHolds, <1>1, <1>2, PTL DEF StatementsSpec, HelpersReset

-----------------------------------------------------------------------------
(*****************************************************************************)
(* The arguments of sqlitex.exec.                                          *)
(*****************************************************************************)

\* A number is its word and its place in the word.
LEMMA DivMod ==
  ASSUME NEW N \in Nat \ {0}, NEW a \in Nat
  PROVE  /\ a \div N \in Nat /\ a % N \in 0 .. N - 1
         /\ a = (a \div N) * N + (a % N)
OBVIOUS

\* One word more is N ids more.
LEMMA Mono ==
  ASSUME NEW N \in Nat \ {0}, NEW k \in Nat, k > 0
  PROVE  k * N >= N
OBVIOUS

\* No two pairs of a word and a place are the same number.
LEMMA Unique ==
  ASSUME NEW N \in Nat \ {0}, NEW q \in Nat, NEW n \in 0 .. N - 1,
         NEW d \in Nat, NEW r \in 0 .. N - 1, q * N + n = d * N + r
  PROVE  q = d /\ n = r
<1>1. CASE q > d
  <2>1. (q - d) * N >= N BY <1>1, Mono
  <2>2. (q - d) * N = q * N - d * N OBVIOUS
  <2> QED BY <2>1, <2>2
<1>2. CASE d > q
  <2>1. (d - q) * N >= N BY <1>2, Mono
  <2>2. (d - q) * N = d * N - q * N OBVIOUS
  <2> QED BY <2>1, <2>2
<1>3. CASE q = d BY <1>3
<1> QED BY <1>1, <1>2, <1>3

\* Every set of natural numbers that is not empty has a least element.
LessThan == {ab \in Nat \X Nat : ab[1] < ab[2]}

\* Every set of natural numbers that is not empty has a least element, the one
\* Min chooses.
LEMMA Least ==
  ASSUME NEW T, T \subseteq Nat, T # {}
  PROVE  Min(T) \in T /\ \A y \in T : Min(T) <= y
<1>1. LessThan = OpToRel(<, Nat)  BY Zenon DEF LessThan, OpToRel
<1>2. IsWellFoundedOn(LessThan, Nat)  BY Zenon, <1>1, NatLessThanWellFounded
<1>3. PICK x \in T : \A y \in T : ~(<<y, x>> \in LessThan)  BY Zenon, <1>2, WFMin
<1>4. \A y \in T : x <= y
  <2> TAKE y \in T
  <2>1. x \in Nat /\ y \in Nat  BY Zenon
  <2>2. ~(<<y, x>> \in LessThan)  BY Zenon, <1>3
  <2>3. ~(y < x)  BY Zenon, <2>1, <2>2 DEF LessThan
  <2> QED  BY <2>1, <2>3
<1> QED  BY Zenon, <1>4 DEF Min

\* The least element is the one that has none below it.
LEMMA IsLeast ==
  ASSUME NEW T, T \subseteq Nat, NEW x \in T, \A y \in T : x <= y
  PROVE  Min(T) = x
<1>1. Min(T) \in T /\ \A y \in T : Min(T) <= y  BY Zenon, Least
<1>2. Min(T) <= x /\ x <= Min(T) /\ Min(T) \in Nat /\ x \in Nat  BY Zenon, <1>1
<1> QED  BY <1>2

\* A word ends before the next one begins.
LEMMA Times ==
  ASSUME NEW N \in Nat \ {0}, NEW u \in Nat, NEW v \in Nat, u < v
  PROVE  u * N + N <= v * N
<1>1. (v - u) * N >= N  BY Mono
<1>2. (v - u) * N = v * N - u * N  OBVIOUS
<1> QED  BY <1>1, <1>2

\* The full words of a bitset of c bits, and the bits of the one after them.
Quo(c) == c \div WordBits
Rem(c) == c % WordBits

\* newBitset makes as many words as n bits need: the full ones, and one for the
\* rest.
LEMMA WordCount ==
  ASSUME NEW c \in Nat
  PROVE  /\ Words(c) \in Nat /\ Quo(c) \in Nat /\ Rem(c) \in 0 .. WordBits - 1
         /\ c = Quo(c) * WordBits + Rem(c)
         /\ Words(c) = (IF Rem(c) = 0 THEN Quo(c) ELSE Quo(c) + 1)
<1> DEFINE N == WordBits
           d == Quo(c)
           e == Rem(c)
           W == (c + N - 1) \div N
           s == (c + N - 1) % N
<1>1. N \in Nat \ {0}  BY ExecArgsAssumption
<1>2. d \in Nat /\ e \in 0 .. N - 1 /\ c = d * N + e  BY Zenon, <1>1, DivMod DEF Quo, Rem
<1>3. W \in Nat /\ s \in 0 .. N - 1 /\ c + N - 1 = W * N + s
  <2>1. c + N - 1 \in Nat  BY <1>1
  <2> QED  BY Zenon, <1>1, <2>1, DivMod
<1>6. Words(c) = W  BY Zenon DEF Words
<1> HIDE DEF d, e, W, s, N
<1>4. e = 0 => W = d
  <2> HAVE e = 0
  <2>1. d * N + (N - 1) = W * N + s /\ N - 1 \in 0 .. N - 1  BY <1>1, <1>2, <1>3
  <2>2. W = d  BY Zenon, <1>1, <1>2, <1>3, <2>1, Unique
  <2> QED  BY Zenon, <2>2
<1>5. e # 0 => W = d + 1
  <2> HAVE e # 0
  <2>1. (d + 1) * N + (e - 1) = W * N + s
    <3>1. (d + 1) * N = d * N + N  BY <1>1, <1>2
    <3> QED  BY <1>1, <1>2, <1>3, <3>1
  <2>2. e - 1 \in 0 .. N - 1 /\ d + 1 \in Nat  BY <1>1, <1>2
  <2>3. W = d + 1  BY <1>1, <1>2, <1>3, <2>1, <2>2, Unique
  <2> QED  BY Zenon, <2>3
<1>7. Words(c) \in Nat /\ Words(c) = (IF e = 0 THEN d ELSE d + 1)
  BY Zenon, <1>3, <1>4, <1>5, <1>6
<1> QED  BY Zenon, <1>2, <1>7 DEF d, e, N

\* The bitset of the parameters B of a statement that has c.
Marked(c, B) == setBits(newBitset(c), {i - 1 : i \in B})
\* The bit b of the word w, counted through all words.
Cell(w, b) == (w - 1) * WordBits + b

\* A bit is set in the bitset just when its parameter was provided.
LEMMA Bits ==
  ASSUME NEW c \in Nat, NEW B, B \subseteq 1 .. c
  PROVE  /\ DOMAIN Marked(c, B) = 1 .. Words(c) /\ Len(Marked(c, B)) = Words(c)
         /\ \A w \in 1 .. Words(c) :
               /\ Marked(c, B)[w] \subseteq AllBits
               /\ \A b \in AllBits : b \in Marked(c, B)[w] <=> Cell(w, b) + 1 \in B
<1> DEFINE N == WordBits
           W == Words(c)
           M == {i - 1 : i \in B}
<1>1. N \in Nat \ {0} /\ W \in Nat  BY Zenon, WordCount, ExecArgsAssumption
<1>2. Marked(c, B) = [w \in 1 .. W |-> {} \cup {n % N : n \in {n \in M : n \div N + 1 = w}}]
  BY Zenon DEF Marked, setBits, newBitset
<1>3. DOMAIN Marked(c, B) = 1 .. W /\ Len(Marked(c, B)) = W
  <2> HIDE DEF M, N, W
  <2> QED  BY <1>1, <1>2
<1>4. M \subseteq Nat  OBVIOUS
<1>5. ASSUME NEW w \in 1 .. W
      PROVE  /\ Marked(c, B)[w] \subseteq AllBits
             /\ \A b \in AllBits : b \in Marked(c, B)[w] <=> Cell(w, b) + 1 \in B
  <2> DEFINE X == {n % N : n \in {n \in M : n \div N + 1 = w}}
  <2>1. Marked(c, B)[w] = X  BY Zenon, <1>2
  <2>2. ASSUME NEW n \in M, n \div N + 1 = w
        PROVE  n % N \in AllBits /\ n = Cell(w, n % N)
    <3>1. n \div N \in Nat /\ n % N \in 0 .. N - 1 /\ n = (n \div N) * N + (n % N)
      BY Zenon, <1>1, <1>4, DivMod
    <3>2. w - 1 = n \div N  BY <2>2, <3>1
    <3> QED  BY Zenon, <3>1, <3>2 DEF AllBits, Cell
  <2>3. X \subseteq AllBits  BY Zenon, <2>2
  <2>4. ASSUME NEW b \in AllBits, b \in X  PROVE Cell(w, b) + 1 \in B
    <3>1. PICK n \in M : n \div N + 1 = w /\ b = n % N  BY Zenon, <2>4
    <3>2. n = Cell(w, b)  BY Zenon, <2>2, <3>1
    <3>3. PICK i \in B : n = i - 1  BY Zenon
    <3>4. i = n + 1
      <4>1. i \in 1 .. c  BY Zenon
      <4> HIDE DEF M, N, X
      <4> QED  BY <3>3, <4>1
    <3> QED  BY Zenon, <3>2, <3>4
  <2>5. ASSUME NEW b \in AllBits, Cell(w, b) + 1 \in B  PROVE b \in X
    <3> DEFINE i == Cell(w, b) + 1
               n == i - 1
    <3>1. n \in M  BY Zenon, <2>5
    <3>2. n = (w - 1) * N + b /\ w - 1 \in Nat /\ b \in 0 .. N - 1
      <4>1. w - 1 \in Nat /\ b \in Nat /\ b \in 0 .. N - 1  BY <1>1 DEF AllBits
      <4>2. Cell(w, b) \in Int  BY <1>1, <4>1 DEF Cell
      <4> QED  BY <4>1, <4>2 DEF Cell
    <3> HIDE DEF n, M
    <3>3. n \in Nat  BY <1>4, <3>1
    <3>4. n \div N \in Nat /\ n % N \in 0 .. N - 1 /\ n = (n \div N) * N + (n % N)
      BY Zenon, <1>1, <3>3, DivMod
    <3>5. n \div N = w - 1 /\ n % N = b
      <4> DEFINE q == n \div N
                 r == n % N
                 v == w - 1
      <4>1. q \in Nat /\ r \in 0 .. N - 1 /\ v \in Nat /\ b \in 0 .. N - 1 /\ q * N + r = v * N + b
        BY Zenon, <3>2, <3>4
      <4> HIDE DEF q, r, v, N
      <4>2. q = v /\ r = b  BY Zenon, <1>1, <4>1, Unique
      <4> QED  BY Zenon, <4>2 DEF q, r, v
    <3>6. n \div N + 1 = w  BY <3>2, <3>5
    <3> QED  BY Zenon, <3>1, <3>5, <3>6
  <2> QED  BY Zenon, <2>1, <2>3, <2>4, <2>5
<1> QED  BY Zenon, <1>3, <1>5

\* bitset.hasAll of the bits that were set.
LEMMA HasAll ==
  ASSUME NEW c \in Nat, NEW B, B \subseteq 1 .. c
  PROVE  hasAll(Marked(c, B), c) <=> B = 1 .. c
<1> DEFINE N == WordBits
           d == Quo(c)
           e == Rem(c)
           W == Words(c)
           P == Marked(c, B)
<1>1. /\ W \in Nat /\ d \in Nat /\ e \in 0 .. N - 1 /\ c = d * N + e
      /\ W = (IF e = 0 THEN d ELSE d + 1)
  BY Zenon, WordCount
<1>2. N \in Nat \ {0}  BY ExecArgsAssumption
<1>3. /\ Len(P) = W
      /\ \A w \in 1 .. W : /\ P[w] \subseteq AllBits
                           /\ \A b \in AllBits : b \in P[w] <=> Cell(w, b) + 1 \in B
  BY Zenon, Bits
<1>4. hasAll(P, c) <=> /\ Len(P) >= W
                       /\ \A w \in 1 .. d : P[w] = AllBits
                       /\ d # W => (0 .. e - 1) \subseteq P[W]
  BY Zenon DEF hasAll, Quo, Rem
<1> HIDE DEF N, d, e, W, P
<1>5. ASSUME B = 1 .. c  PROVE hasAll(P, c)
  <2>1. ASSUME NEW w \in 1 .. d  PROVE P[w] = AllBits
    <3>1. w \in 1 .. W  BY <1>1
    <3>2. ASSUME NEW b \in AllBits  PROVE Cell(w, b) + 1 \in B
      <4>1. b \in Nat /\ b <= N - 1 /\ w - 1 \in Nat /\ w - 1 < d
        BY <1>1, <1>2 DEF AllBits, N
      <4>2. PICK v \in Nat : v = w - 1  BY Zenon, <4>1
      <4>3. v * N + N <= d * N  BY Zenon, <1>1, <1>2, <4>1, <4>2, Times
      <4>4. Cell(w, b) = v * N + b  BY Zenon, <4>2 DEF Cell, N
      <4>5. v * N \in Nat /\ d * N \in Nat  BY <1>1, <1>2
      <4>6. v * N + b + 1 \in 1 .. c  BY <1>1, <1>2, <4>1, <4>3, <4>5
      <4> QED  BY Zenon, <1>5, <4>4, <4>6
    <3> QED  BY Zenon, <1>3, <3>1, <3>2
  <2>2. ASSUME d # W  PROVE (0 .. e - 1) \subseteq P[W]
    <3>1. W = d + 1 /\ W \in 1 .. W /\ W - 1 = d  BY <1>1, <2>2
    <3>2. ASSUME NEW b \in 0 .. e - 1  PROVE b \in P[W]
      <4>1. b \in AllBits /\ b \in Nat /\ b < e  BY <1>1, <1>2 DEF AllBits, N
      <4>2. Cell(W, b) = d * N + b  BY Zenon, <3>1 DEF Cell, N
      <4>3. d * N \in Nat  BY <1>1, <1>2
      <4>4. d * N + b + 1 \in 1 .. c  BY <1>1, <1>2, <4>1, <4>3
      <4> QED  BY Zenon, <1>3, <1>5, <3>1, <4>1, <4>2, <4>4
    <3> QED  BY Zenon, <3>2
  <2> QED  BY <1>1, <1>3, <1>4, <2>1, <2>2
<1>6. ASSUME hasAll(P, c)  PROVE B = 1 .. c
  <2> SUFFICES ASSUME NEW i \in 1 .. c  PROVE i \in B
    BY Zenon
  <2> DEFINE n == i - 1
             q == n \div N
             r == n % N
  <2>1. n \in Nat /\ n + 1 = i /\ n < c  OBVIOUS
  <2>2. q \in Nat /\ r \in 0 .. N - 1 /\ n = q * N + r  BY Zenon, <1>2, <2>1, DivMod
  <2> HIDE DEF n, q, r
  <2>3. q <= d
    <3> SUFFICES ASSUME d < q  PROVE FALSE
      BY <1>1, <2>2
    <3>1. d * N + N <= q * N  BY Zenon, <1>1, <1>2, <2>2, Times
    <3>2. d * N \in Nat /\ q * N \in Nat  BY <1>1, <1>2, <2>2
    <3> QED  BY <1>1, <1>2, <2>1, <2>2, <3>1, <3>2
  <2>4. Cell(q + 1, r) + 1 = i /\ r \in AllBits
    <3>1. q + 1 - 1 = q  BY <2>2
    <3>2. Cell(q + 1, r) = q * N + r  BY <1>2, <2>2, <3>1 DEF Cell, N
    <3> QED  BY Zenon, <2>1, <2>2, <3>2 DEF AllBits, N
  <2>5. CASE q < d
    <3>1. q + 1 \in 1 .. d /\ q + 1 \in 1 .. W  BY <1>1, <2>2, <2>5
    <3>2. r \in P[q + 1]  BY Zenon, <1>4, <1>6, <2>4, <3>1
    <3> QED  BY Zenon, <1>3, <2>4, <3>1, <3>2
  <2>6. CASE q = d
    <3>1. d * N \in Nat  BY <1>1, <1>2
    <3>2. r < e  BY <1>1, <1>2, <2>1, <2>2, <2>6, <3>1
    <3>3. W = q + 1 /\ d # W /\ W \in 1 .. W  BY <1>1, <2>2, <2>6, <3>2
    <3>4. r \in 0 .. e - 1  BY <1>1, <2>2, <3>2
    <3>5. r \in P[W]  BY Zenon, <1>4, <1>6, <3>3, <3>4
    <3> QED  BY Zenon, <1>3, <2>4, <3>3, <3>5
  <2> QED  BY <1>1, <2>2, <2>3, <2>5, <2>6
<1> QED  BY Zenon, <1>5, <1>6 DEF P

\* bitset.firstMissing of the bits that were set.
LEMMA FirstMissing ==
  ASSUME NEW c \in Nat, NEW B, B \subseteq 1 .. c, B # 1 .. c
  PROVE  firstMissing(Marked(c, B)) + 1 = Min((1 .. c) \ B)
<1> DEFINE N == WordBits
           W == Words(c)
           P == Marked(c, B)
           x == Min((1 .. c) \ B)
           n == x - 1
           q == n \div N
           r == n % N
           open == {w \in DOMAIN P : P[w] # AllBits}
<1>1. N \in Nat \ {0} /\ W \in Nat  BY Zenon, ExecArgsAssumption, WordCount
<1>2. x \in (1 .. c) \ B /\ \A y \in (1 .. c) \ B : x <= y
  <2>1. (1 .. c) \ B # {}
    <3> SUFFICES ASSUME (1 .. c) \ B = {}  PROVE FALSE
      BY Zenon
    <3>1. \A i \in 1 .. c : i \in B  BY Zenon
    <3> QED  BY Zenon, <3>1
  <2>2. (1 .. c) \ B \subseteq Nat  OBVIOUS
  <2> QED  BY <2>1, <2>2, Least
<1>3. /\ DOMAIN P = 1 .. W
      /\ \A w \in 1 .. W : /\ P[w] \subseteq AllBits
                           /\ \A b \in AllBits : b \in P[w] <=> Cell(w, b) + 1 \in B
  BY Zenon, Bits
<1> HIDE DEF x
<1>4. n \in Nat /\ n + 1 = x /\ n < c  BY <1>2
<1>5. q \in Nat /\ r \in 0 .. N - 1 /\ n = q * N + r  BY Zenon, <1>1, <1>4, DivMod
<1>6. firstMissing(P) = IF open = {} THEN Len(P) * N
                        ELSE (Min(open) - 1) * N + Min(AllBits \ P[Min(open)])
  BY Zenon DEF firstMissing
<1> HIDE DEF N, W, P, n, q, r
<1>7. \A y \in Nat : y <= n => y + 1 \in B \/ y = n
  <2> TAKE y \in Nat
  <2> HAVE y <= n
  <2>1. CASE y = n  BY Zenon, <2>1
  <2>2. CASE y < n
    <3>1. y + 1 \in 1 .. c /\ y + 1 < x  BY <1>2, <1>4, <2>2
    <3>2. y + 1 \notin (1 .. c) \ B  BY <1>2, <3>1
    <3> QED  BY Zenon, <3>1, <3>2
  <2> QED  BY <1>4, <2>1, <2>2
<1>8. q + 1 \in 1 .. W
  <2> DEFINE d == Quo(c)
             e == Rem(c)
  <2>1. d \in Nat /\ e \in 0 .. N - 1 /\ c = d * N + e /\ W = (IF e = 0 THEN d ELSE d + 1)
    BY Zenon, WordCount DEF N, W
  <2> HIDE DEF d, e
  <2>2. ASSUME d < q  PROVE FALSE
    <3>1. d * N + N <= q * N  BY Zenon, <1>1, <1>5, <2>1, <2>2, Times
    <3>2. d * N \in Nat /\ q * N \in Nat  BY <1>1, <1>5, <2>1
    <3> QED  BY <1>1, <1>4, <1>5, <2>1, <3>1, <3>2
  <2>3. ASSUME d = q, e = 0  PROVE FALSE
    <3>1. q * N \in Nat  BY <1>1, <1>5
    <3> QED  BY <1>4, <1>5, <2>1, <2>3, <3>1
  <2> QED  BY <1>5, <2>1, <2>2, <2>3
<1>9. Cell(q + 1, r) = n /\ r \in AllBits
  <2>1. q + 1 - 1 = q  BY <1>5
  <2> QED  BY <1>5, <2>1 DEF Cell, N, AllBits
<1>10. Min(open) = q + 1
  <2>1. q + 1 \in open
    <3>1. r \notin P[q + 1]  BY Zenon, <1>2, <1>3, <1>4, <1>8, <1>9
    <3> QED  BY Zenon, <1>3, <1>8, <1>9, <3>1
  <2>2. ASSUME NEW w \in open  PROVE q + 1 <= w
    <3> SUFFICES ASSUME w < q + 1  PROVE FALSE
      BY <1>1, <1>3, <1>5
    <3>1. w \in 1 .. W /\ P[w] # AllBits  BY Zenon, <1>3
    <3>2. ASSUME NEW b \in AllBits  PROVE b \in P[w]
      <4>1. PICK v \in Nat : v = w - 1 /\ v < q  BY <1>1, <1>5, <3>1
      <4>2. v * N + N <= q * N  BY Zenon, <1>1, <1>5, <4>1, Times
      <4>3. v * N \in Nat /\ q * N \in Nat  BY <1>1, <1>5, <4>1
      <4>4. b \in Nat /\ b <= N - 1  BY <1>1 DEF AllBits, N
      <4>5. Cell(w, b) = v * N + b  BY Zenon, <4>1 DEF Cell, N
      <4>6. Cell(w, b) \in Nat /\ Cell(w, b) < n  BY <1>1, <1>5, <4>2, <4>3, <4>4, <4>5
      <4>7. Cell(w, b) + 1 \in B  BY <1>4, <1>7, <4>6
      <4> QED  BY Zenon, <1>3, <3>1, <4>7
    <3> QED  BY Zenon, <1>3, <3>1, <3>2
  <2>3. open \subseteq Nat  BY <1>1, <1>3
  <2> QED  BY Zenon, <2>1, <2>2, <2>3, IsLeast
<1>11. Min(AllBits \ P[q + 1]) = r
  <2> DEFINE T == AllBits \ P[q + 1]
  <2>1. r \in T  BY Zenon, <1>2, <1>3, <1>4, <1>8, <1>9
  <2>2. ASSUME NEW b \in T  PROVE r <= b
    <3> SUFFICES ASSUME b < r  PROVE FALSE
      BY <1>1, <1>5 DEF AllBits, N
    <3>1. q + 1 - 1 = q /\ b \in Nat /\ q * N \in Nat  BY <1>1, <1>5 DEF AllBits, N
    <3>2. Cell(q + 1, b) = q * N + b  BY <1>1, <1>5, <3>1 DEF Cell, N
    <3>3. Cell(q + 1, b) \in Nat /\ Cell(q + 1, b) < n  BY <1>1, <1>5, <3>1, <3>2
    <3>4. Cell(q + 1, b) + 1 \in B  BY <1>4, <1>7, <3>3
    <3> QED  BY Zenon, <1>3, <1>8, <3>4
  <2>3. T \subseteq Nat  BY DEF AllBits
  <2> HIDE DEF T
  <2>4. Min(T) = r  BY Zenon, <2>1, <2>2, <2>3, IsLeast
  <2> QED  BY Zenon, <2>4 DEF T
<1>12. open # {}
  <2>1. r \notin P[q + 1]  BY Zenon, <1>2, <1>3, <1>4, <1>8, <1>9
  <2> QED  BY Zenon, <1>3, <1>8, <1>9, <2>1
<1> DEFINE m == Min(open)
<1>15. m = q + 1 /\ firstMissing(P) = (m - 1) * N + Min(AllBits \ P[m])
  BY Zenon, <1>6, <1>10, <1>12
<1> HIDE DEF open, m
<1>13. Min(AllBits \ P[m]) = r  BY Zenon, <1>11, <1>15
<1>14. firstMissing(P) + 1 = x
  <2>1. m - 1 = q  BY <1>5, <1>15
  <2>2. firstMissing(P) = q * N + r  BY Zenon, <1>13, <1>15, <2>1
  <2> QED  BY Zenon, <1>4, <1>5, <2>2
<1> QED  BY Zenon, <1>14 DEF P, x

\* What the caller of exec hands over.
Asked(a) == a \in Asks /\ a.named \subseteq 1 .. a.count /\ a.args <= a.count + 1
\* The named parameters without an argument: where forbidMissing makes setNamed
\* stop.
Lacking(a) == {i \in a.named \cap (1 .. a.count) : i \notin a.given}

\* setNamed reaches every name given, unless it stops at one that lacks.
LEMMA NamesReached ==
  ASSUME NEW a, Asked(a)
  PROVE  /\ Reached(a) \subseteq a.named \cap a.given
         /\ ("missing" \notin a.flags \/ Lacking(a) = {}) => Reached(a) = a.named \cap a.given
<1>1. a.count \in Nat /\ a.named \subseteq 1 .. a.count  BY DEF Asked, Asks
<1> DEFINE stop == IF "missing" \in a.flags /\ Lacking(a) # {} THEN Min(Lacking(a)) ELSE a.count + 1
<1>2. Reached(a) = {i \in a.named \cap (1 .. a.count) : i \in a.given /\ i < stop}
  BY Zenon DEF Reached, Lacking
<1>3. ASSUME "missing" \notin a.flags \/ Lacking(a) = {}  PROVE stop = a.count + 1
  BY Zenon, <1>3
<1> HIDE DEF stop
<1> QED  BY <1>1, <1>2, <1>3

\* The ways exec goes on: out of range, a name missing or unknown, a parameter
\* missing, or the step.
LEMMA ExecAnswers ==
  ASSUME NEW a, Asked(a)
  PROVE  LET all == 1 .. a.count
             given == (1 .. a.args) \cup (a.named \cap a.given)
             strict == "missing" \in a.flags
             byPosition == a.given # {} /\ \E i \in a.named : i \notin a.given
             ans == exec(a)
         IN  /\ ans.res = "step" =>
                  /\ strict => ans.bound = all
                  /\ "extra" \in a.flags => a.given \subseteq a.named
             /\ (ans.res = "missing" /\ ans.at > 0) => ans.at = Min(all \ given)
             /\ (/\ a.args <= a.count
                 /\ strict => given = all /\ ~byPosition
                 /\ "extra" \in a.flags => a.given \subseteq a.named)
                => ans.res = "step"
<1> DEFINE all == 1 .. a.count
           given == (1 .. a.args) \cup (a.named \cap a.given)
           strict == "missing" \in a.flags
           byPosition == a.given # {} /\ \E i \in a.named : i \notin a.given
           B == (1 .. a.args) \cup Reached(a)
           ans == exec(a)
           goal == /\ ans.res = "step" =>
                        /\ strict => ans.bound = all
                        /\ "extra" \in a.flags => a.given \subseteq a.named
                   /\ (ans.res = "missing" /\ ans.at > 0) => ans.at = Min(all \ given)
                   /\ (/\ a.args <= a.count
                       /\ strict => given = all /\ ~byPosition
                       /\ "extra" \in a.flags => a.given \subseteq a.named)
                      => ans.res = "step"
<1>1. a.count \in Nat /\ a.args \in Nat /\ a.named \subseteq 1 .. a.count
  BY DEF Asked, Asks
<1>2. Reached(a) \subseteq a.named \cap a.given  BY Zenon, NamesReached
<1>3. CASE a.args > a.count
  <2>1. ans.res = "range"  BY Zenon, <1>3 DEF exec, NoAnswer
  <2>2. ~(a.args <= a.count)  BY <1>1, <1>3
  <2> QED  BY Zenon, <2>1, <2>2
<1>4. CASE a.args <= a.count /\ setNamed(a) # "ok"
  <2>1. ans = [res |-> setNamed(a), bound |-> B, at |-> 0]  BY <1>1, <1>4 DEF exec
  <2>2. ans.res = setNamed(a) /\ ans.at = 0 /\ ~(ans.at > 0)  BY <2>1
  <2>3. CASE strict /\ a.given # {} /\ Lacking(a) # {}
    <3>1. setNamed(a) = "missing" /\ byPosition
      BY Zenon, <2>3 DEF setNamed, Lacking
    <3> QED  BY Zenon, <2>2, <2>3, <3>1
  <2>4. CASE a.given # {} /\ ~(strict /\ Lacking(a) # {})
    <3>1. Reached(a) = a.named \cap a.given  BY Zenon, <2>4, NamesReached
    <3>2. setNamed(a) = "unknown" /\ "extra" \in a.flags /\ a.given \ Reached(a) # {}
      BY Zenon, <1>4, <2>4 DEF setNamed, Lacking
    <3>3. ~(a.given \subseteq a.named)  BY Zenon, <3>1, <3>2
    <3> QED  BY Zenon, <2>2, <3>2, <3>3
  <2>5. a.given # {}  BY Zenon, <1>4 DEF setNamed
  <2> QED  BY Zenon, <2>3, <2>4, <2>5
<1>5. CASE a.args <= a.count /\ setNamed(a) = "ok"
  <2>1. Reached(a) = a.named \cap a.given /\ ("extra" \in a.flags => a.given \subseteq a.named)
    <3>1. CASE a.given = {}  BY Zenon, <1>2, <3>1
    <3>2. CASE a.given # {}
      <4>1. ~(strict /\ Lacking(a) # {})  BY Zenon, <1>5, <3>2 DEF setNamed, Lacking
      <4>2. Reached(a) = a.named \cap a.given  BY Zenon, <4>1, NamesReached
      <4>3. "extra" \in a.flags => a.given \ Reached(a) = {}
        BY Zenon, <1>5, <3>2 DEF setNamed
      <4> QED  BY Zenon, <4>2, <4>3
    <3> QED  BY Zenon, <3>1, <3>2
  <2>2. B = given /\ B \subseteq all  BY <1>1, <1>5, <2>1
  <2>3. provided(a) = Marked(a.count, B)  BY Zenon DEF provided, Marked
  <2>4. hasAll(provided(a), a.count) <=> B = all  BY Zenon, <1>1, <2>2, <2>3, HasAll
  <2>5. CASE strict /\ B # all
    <3>1. ans = [res |-> "missing", bound |-> B, at |-> firstMissing(provided(a)) + 1]
      BY <1>1, <1>5, <2>4, <2>5 DEF exec
    <3>2. firstMissing(provided(a)) + 1 = Min(all \ B)
      BY Zenon, <1>1, <2>2, <2>3, <2>5, FirstMissing
    <3>4. ans.res = "missing" /\ ans.at = firstMissing(provided(a)) + 1  BY <3>1
    <3>5. Min(all \ B) = Min(all \ given)  BY Zenon, <2>2
    <3>3. ans.res = "missing" /\ ans.at = Min(all \ given)
      BY Zenon, <3>2, <3>4, <3>5
    <3> QED  BY Zenon, <2>2, <2>5, <3>3
  <2>6. CASE ~(strict /\ B # all)
    <3>1. ans = [res |-> "step", bound |-> B, at |-> 0]  BY <1>1, <1>5, <2>4, <2>6 DEF exec
    <3>2. ans.res = "step" /\ ans.bound = B  BY <3>1
    <3> QED  BY Zenon, <2>1, <2>6, <3>2
  <2> QED  BY Zenon, <2>5, <2>6
<1>6. goal  BY SMTT(20), <1>1, <1>3, <1>4, <1>5
<1> QED  BY Zenon, <1>6

\* The invariant: exec is called with a proper request and its answer is the
\* one to that request.
ArgsInv == Asked(ask) /\ answer \in {NoAnswer, exec(ask)}

\* For any number of parameters and any width of the words of the bitset, a
\* statement is only stepped with all that it needs bound, an error names the
\* first parameter that is missing, and a statement that got all it needs is not
\* refused (exec.go:285-375).
THEOREM ArgumentsBound == ArgsSpec => []StepsOnlyBound
<1>1. ArgsInit => ArgsInv
  <2> SUFFICES ASSUME ArgsInit  PROVE ArgsInv
    BY Zenon
  <2>1. Asked(NoAsk)  BY ExecArgsAssumption DEF Asked, Asks, NoAsk
  <2> QED  BY Zenon, <2>1 DEF ArgsInit, ArgsInv
<1>2. ArgsInv /\ [ArgsNext]_argvars => ArgsInv'
  BY Zenon DEF ArgsInv, ArgsNext, Ask, Exec, argvars, Asked
<1>3. ArgsInv => StepsOnlyBound
  <2> SUFFICES ASSUME ArgsInv, answer # NoAnswer  PROVE StepsOnlyBound
    BY DEF StepsOnlyBound, NoAnswer
  <2>1. Asked(ask) /\ answer = exec(ask)  BY Zenon DEF ArgsInv
  <2> QED  BY Zenon, <2>1, ExecAnswers DEF StepsOnlyBound
<1> QED  BY <1>1, <1>2, <1>3, PTL DEF ArgsSpec
=============================================================================
