----------------------------- MODULE PoolProofs -----------------------------
(***************************************************************************)
(* Proofs about Pool, for any number of clients, connections and takes.    *)
(***************************************************************************)
EXTENDS Pool, FiniteSetTheorems, TLAPS

\* A sequence without its first element.
LEMMA Shorter ==
  ASSUME NEW S, NEW s \in Seq(S), s # <<>>
  PROVE  Head(s) \in S /\ Tail(s) \in Seq(S)
OBVIOUS

\* The length of a sequence.
LEMMA Lengths ==
  ASSUME NEW S, NEW s \in Seq(S)
  PROVE  Len(s) \in Nat /\ (Len(s) = 0 => s = <<>>)
OBVIOUS

\* No connection is in two slots of p.free.
FreeOnce == \A i, j \in 1 .. Len(free) : free[i] = free[j] => i = j

\* A connection in p.free is opened, not closed, and nobody's.
FreeUnused ==
    \A i \in 1 .. Len(free) :
        /\ free[i] <= opened
        /\ free[i] \notin connClosed
        /\ \A g \in Clients : Using(g) => conn[g] # free[i]

\* A connection that a client has is opened, not closed, and only its.
HeldOnce ==
    \A g \in Clients :
        Using(g) =>
            /\ conn[g] <= opened
            /\ conn[g] \notin connClosed
            /\ \A h \in Clients : Using(h) /\ conn[g] = conn[h] => g = h

\* No opened connection is missing.
NothingLost ==
    \A c \in Conns :
        c <= opened =>
            \/ c \in connClosed
            \/ \E i \in 1 .. Len(free) : free[i] = c
            \/ \E g \in Clients : Using(g) /\ conn[g] = c

ClosedWasOpen == \A c \in connClosed : c <= opened

\* Ownership of the connections.
OwnInv == FreeOnce /\ FreeUnused /\ HeldOnce /\ NothingLost /\ ClosedWasOpen

\* The types that ownership needs.
OwnTypes ==
    /\ opened \in 0 .. PoolSize
    /\ free \in Seq(Conns)
    /\ connClosed \subseteq Conns
    /\ conn \in [Clients -> Conns]
    /\ pc \in [Clients -> {"idle", "taking", "interrupt", "record", "prepare",
                           "hold", "put", "unset", "cancel", "send"}]

\* The watchers of a connection wait for the context of the Take that has it.
WatchInv ==
    \A w \in watchers :
        \E g \in Clients :
            /\ pc[g] \in {"record", "prepare", "hold", "put", "unset"}
            /\ conn[g] = w.conn
            /\ ctx[g] = w.ctx

\* A connection that nobody has, or that put has cleaned.
Clean(c) == doneCh[c] = 0 /\ c \notin activeRow

CleanInv ==
    /\ \A c \in Conns : c > opened => Clean(c)
    /\ \A i \in 1 .. Len(free) : Clean(free[i]) /\ all[free[i]] = 0
    /\ \A g \in Clients :
          /\ pc[g] \in {"cancel", "send"} => Clean(conn[g])
          /\ pc[g] \in {"unset", "cancel", "send"} => all[conn[g]] = 0

\* Who will call the cancel function of a context that is still in use.
Released(k) == k \in cancelled \/ k \in toCancel

CtxInv ==
    /\ toCancel # {} => stage = "cancelling"
    /\ \A g \in Clients :
          /\ Using(g) => ctx[g] \in Nat \ {0}
          /\ pc[g] \in {"prepare", "hold", "put"} =>
                all[conn[g]] = ctx[g] \/ Released(ctx[g])
          /\ pc[g] \in {"unset", "cancel"} =>
                cancel[g] = ctx[g] \/ Released(ctx[g])
          /\ pc[g] = "send" => Released(ctx[g])
    /\ ContextsReleased

\* Close counts the connections it has closed.
CloseInv ==
    /\ IsFiniteSet(connClosed)
    /\ nClosed = Cardinality(connClosed)
    /\ stage = "done" => nClosed = opened

IInv == TypeOK /\ OwnInv /\ WatchInv /\ CleanInv /\ PreparedOnce /\ CtxInv
        /\ CloseInv
-----------------------------------------------------------------------------
\* Every step keeps every field of the pool in its type.
LEMMA TypeStep ==
    TypeOK /\ [Next]_vars => TypeOK'
<1> SUFFICES ASSUME TypeOK, [Next]_vars
             PROVE  TypeOK'
    BY Zenon
<1> USE PoolAssumption DEF TypeOK, WatcherType, Conns, Goto, poolVars,
       connVars, ctxVars, clientVars
<1>1. ASSUME NEW g \in Clients, Client(g) PROVE TypeOK'
  <2>1. ASSUME TakeCall(g) PROVE TypeOK'
    BY Zenon, <2>1 DEF TakeCall
  <2>2. ASSUME ParentEnds(g) PROVE TypeOK'
    BY Zenon, <2>2 DEF ParentEnds
  <2>3. ASSUME TakeReceives(g) PROVE TypeOK'
    <3>1. Head(free) \in Conns /\ free' \in Seq(Conns)
      BY Zenon, <2>3, Shorter DEF TakeReceives
    <3>2. conn' \in [Clients -> Conns]
      BY Zenon, <2>3, <3>1 DEF TakeReceives
    <3>3. ctx' \in [Clients -> Nat] /\ nextCtx' \in Nat
      BY <2>3 DEF TakeReceives
    <3> QED
      BY Zenon, <2>3, <3>1, <3>2, <3>3 DEF TakeReceives
  <2>4. ASSUME TakeFails(g) PROVE TypeOK'
    BY Zenon, <2>4 DEF TakeFails
  <2>5. ASSUME TakeInterrupt(g) PROVE TypeOK'
    <3>1. conn[g] \in Conns /\ ctx[g] \in Nat
      BY Zenon
    <3>2. [conn |-> conn[g], ctx |-> ctx[g], at |-> "select"] \in WatcherType
      BY Zenon, <3>1
    <3>3. watchers' \subseteq WatcherType
      <4> HIDE DEF WatcherType
      <4> QED
        BY Zenon, <2>5, <3>2 DEF TakeInterrupt, SetInterrupt
    <3>4. doneCh' \in [Conns -> Nat]
      BY Zenon, <2>5, <3>1 DEF TakeInterrupt, SetInterrupt
    <3> QED
      BY Zenon, <2>5, <3>3, <3>4 DEF TakeInterrupt, SetInterrupt
  <2>6. ASSUME TakeRecord(g) PROVE TypeOK'
    BY Zenon, <2>6 DEF TakeRecord
  <2>7. ASSUME PrepareSucceeds(g) PROVE TypeOK'
    BY Zenon, <2>7 DEF PrepareSucceeds
  <2>8. ASSUME PrepareFails(g) PROVE TypeOK'
    BY Zenon, <2>8 DEF PrepareFails
  <2>9. ASSUME StepRow(g) PROVE TypeOK'
    BY Zenon, <2>9 DEF StepRow
  <2>10. ASSUME ResetRow(g) PROVE TypeOK'
    BY Zenon, <2>10 DEF ResetRow
  <2>11. ASSUME PutCall(g) PROVE TypeOK'
    BY Zenon, <2>11 DEF PutCall
  <2>12. ASSUME PutSwap(g) PROVE TypeOK'
    BY Zenon, <2>12 DEF PutSwap
  <2>13. ASSUME PutInterrupt(g) PROVE TypeOK'
    BY Zenon, <2>13 DEF PutInterrupt, SetInterrupt
  <2>14. ASSUME PutCancel(g) PROVE TypeOK'
    BY Zenon, <2>14 DEF PutCancel
  <2>15. ASSUME PutSend(g) PROVE TypeOK'
    <3>1. free' \in Seq(Conns)
      BY <2>15 DEF PutSend
    <3> QED
      BY Zenon, <2>15, <3>1 DEF PutSend
  <2> HIDE DEF TypeOK
  <2> QED
    BY Zenon, <1>1, <2>1, <2>2, <2>3, <2>4, <2>5, <2>6, <2>7, <2>8, <2>9, <2>10,
       <2>11, <2>12, <2>13, <2>14, <2>15 DEF Client, InTake, InPut
<1>2. ASSUME NEW w \in watchers, WatcherWakes(w) \/ WatcherInterrupts(w)
      PROVE  TypeOK'
  BY Zenon, <1>2 DEF WatcherWakes, WatcherInterrupts
<1>3. ASSUME OpenConn PROVE TypeOK'
  <2>1. opened + 1 \in Conns /\ opened' \in 0 .. PoolSize
    BY <1>3 DEF OpenConn
  <2>2. free' \in Seq(Conns) /\ all' \in [Conns -> Nat]
    BY <1>3, <2>1 DEF OpenConn
  <2> QED
    BY Zenon, <1>3, <2>1, <2>2 DEF OpenConn
<1>4. ASSUME OpenFails PROVE TypeOK'
  BY Zenon, <1>4 DEF OpenFails
<1>5. ASSUME NewPoolReturns PROVE TypeOK'
  BY Zenon, <1>5 DEF NewPoolReturns
<1>6. ASSUME CloseCall PROVE TypeOK'
  BY Zenon, <1>6 DEF CloseCall
<1>7. ASSUME CloseSnapshot PROVE TypeOK'
  <2>1. \A c \in 1 .. opened : all[c] \in Nat
    OBVIOUS
  <2>2. toCancel' \subseteq Nat
    BY Zenon, <1>7, <2>1 DEF CloseSnapshot
  <2>3. all' \in [Conns -> Nat]
    BY Zenon, <1>7 DEF CloseSnapshot
  <2> QED
    BY Zenon, <1>7, <2>2, <2>3 DEF CloseSnapshot
<1>8. ASSUME CloseCancel PROVE TypeOK'
  BY Zenon, <1>8 DEF CloseCancel
<1>9. ASSUME CloseCancelled PROVE TypeOK'
  BY Zenon, <1>9 DEF CloseCancelled
<1>10. ASSUME CloseConn PROVE TypeOK'
  <2>1. Head(free) \in Conns /\ free' \in Seq(Conns)
    BY Zenon, <1>10, Shorter DEF CloseConn
  <2>2. connClosed' \subseteq Conns /\ watchers' \subseteq WatcherType
    BY Zenon, <1>10, <2>1 DEF CloseConn
  <2>3. nClosed' \in Nat
    BY <1>10 DEF CloseConn
  <2> QED
    BY Zenon, <1>10, <2>1, <2>2, <2>3 DEF CloseConn
<1>11. ASSUME CloseReturns PROVE TypeOK'
  BY Zenon, <1>11 DEF CloseReturns
<1>12. ASSUME NewPoolFailed PROVE TypeOK'
  BY Zenon, <1>12 DEF NewPoolFailed, vars
<1>13. ASSUME UNCHANGED vars PROVE TypeOK'
  BY Zenon, <1>13 DEF vars
<1> HIDE DEF TypeOK
<1> QED
  BY Zenon, <1>1, <1>2, <1>3, <1>4, <1>5, <1>6, <1>7, <1>8, <1>9, <1>10, <1>11, <1>12,
     <1>13 DEF Next, Open, Closing, Watcher

\* Who owns what depends on these variables only.
LEMMA OwnFrame ==
    ASSUME OwnInv,
           UNCHANGED <<free, opened, connClosed, conn>>,
           \A g \in Clients : Using(g)' <=> Using(g)
    PROVE  OwnInv'
<1> USE DEF OwnInv
<1>1. FreeOnce' /\ FreeUnused'
  BY Zenon DEF FreeOnce, FreeUnused
<1>2. HeldOnce' /\ NothingLost' /\ ClosedWasOpen'
  BY Zenon DEF HeldOnce, NothingLost, ClosedWasOpen, Conns
<1> QED
  BY Zenon, <1>1, <1>2

\* No step of Take, put, Close or NewPool loses, duplicates or shares a
\* connection.
LEMMA OwnStep ==
    TypeOK /\ OwnInv /\ [Next]_vars => OwnInv'
<1> SUFFICES ASSUME TypeOK, OwnInv, [Next]_vars
             PROVE  OwnInv'
    BY Zenon
<1> USE DEF OwnInv, Goto, poolVars, connVars, ctxVars, clientVars
<1>0. OwnTypes
  BY Zenon DEF TypeOK, OwnTypes
<1> USE <1>0
<1>1. ASSUME NEW g \in Clients, Client(g) PROVE OwnInv'
  <2>1. ASSUME TakeCall(g) PROVE OwnInv'
    <3>1. UNCHANGED <<free, opened, connClosed, conn>>
      BY Zenon, <2>1 DEF TakeCall
    <3>2. \A h \in Clients : Using(h)' <=> Using(h)
      BY Zenon, <2>1 DEF TakeCall, Using, OwnTypes
    <3> QED
      BY Zenon, <3>1, <3>2, OwnFrame
  <2>2. ASSUME ParentEnds(g) PROVE OwnInv'
    <3>1. UNCHANGED <<free, opened, connClosed, conn>>
      BY Zenon, <2>2 DEF ParentEnds
    <3>2. \A h \in Clients : Using(h)' <=> Using(h)
      BY Zenon, <2>2 DEF ParentEnds, Using, OwnTypes
    <3> QED
      BY Zenon, <3>1, <3>2, OwnFrame
  <2>3. ASSUME TakeReceives(g) PROVE OwnInv'
    <3>1. /\ free # <<>>
          /\ ~Using(g)
          /\ conn' = [conn EXCEPT ![g] = free[1]]
          /\ free' = Tail(free)
          /\ UNCHANGED <<opened, connClosed>>
      BY <2>3 DEF TakeReceives, Using, OwnTypes
    <3>2. /\ Using(g)'
          /\ \A h \in Clients \ {g} : Using(h)' <=> Using(h)
      BY Zenon, <2>3 DEF TakeReceives, Using, OwnTypes
    <3>3. /\ Len(free) \in Nat
          /\ Len(free) # 0
          /\ Len(free') = Len(free) - 1
          /\ \A i \in 1 .. Len(free') : free'[i] = free[i + 1]
      BY <3>1 DEF OwnTypes
    <3>4. \A h \in Clients : conn'[h] = IF h = g THEN free[1] ELSE conn[h]
      BY Zenon, <3>1 DEF OwnTypes
    <3>5. FreeOnce'
      BY SMTT(40), <3>3 DEF FreeOnce
    <3>6. FreeUnused'
      BY <3>1, <3>2, <3>3, <3>4 DEF FreeUnused, FreeOnce
    <3>7. HeldOnce'
      BY <3>1, <3>2, <3>3, <3>4 DEF HeldOnce, FreeUnused
    <3>8. NothingLost'
      <4> SUFFICES ASSUME NEW c \in Conns, c <= opened, c \notin connClosed
                   PROVE  \/ \E i \in 1 .. Len(free') : free'[i] = c
                          \/ \E h \in Clients : Using(h)' /\ conn'[h] = c
        BY Zenon, <3>1 DEF NothingLost, Conns
      <4>1. CASE \E h \in Clients : Using(h) /\ conn[h] = c
        BY Zenon, <4>1, <3>1, <3>2, <3>4
      <4>2. ASSUME NEW i \in 1 .. Len(free), free[i] = c
            PROVE  \/ \E k \in 1 .. Len(free') : free'[k] = c
                   \/ Using(g)' /\ conn'[g] = c
        <5>1. CASE i = 1
          BY Zenon, <5>1, <4>2, <3>2, <3>4
        <5>2. CASE i # 1
          <6>1. i - 1 \in 1 .. Len(free') /\ free'[i - 1] = c
            BY <5>2, <4>2, <3>3
          <6> QED
            BY Zenon, <6>1
        <5> QED
          BY Zenon, <5>1, <5>2
      <4> QED
        BY Zenon, <4>1, <4>2 DEF NothingLost
    <3>9. ClosedWasOpen'
      BY Zenon, <3>1 DEF ClosedWasOpen
    <3> QED
      BY Zenon, <3>5, <3>6, <3>7, <3>8, <3>9
  <2>4. ASSUME TakeFails(g) PROVE OwnInv'
    <3>1. UNCHANGED <<free, opened, connClosed, conn>>
      BY Zenon, <2>4 DEF TakeFails
    <3>2. \A h \in Clients : Using(h)' <=> Using(h)
      BY Zenon, <2>4 DEF TakeFails, Using, OwnTypes
    <3> QED
      BY Zenon, <3>1, <3>2, OwnFrame
  <2>5. ASSUME TakeInterrupt(g) PROVE OwnInv'
    <3>1. UNCHANGED <<free, opened, connClosed, conn>>
      BY Zenon, <2>5 DEF TakeInterrupt, SetInterrupt
    <3>2. \A h \in Clients : Using(h)' <=> Using(h)
      BY Zenon, <2>5 DEF TakeInterrupt, SetInterrupt, Using, OwnTypes
    <3> QED
      BY Zenon, <3>1, <3>2, OwnFrame
  <2>6. ASSUME TakeRecord(g) PROVE OwnInv'
    <3>1. UNCHANGED <<free, opened, connClosed, conn>>
      BY Zenon, <2>6 DEF TakeRecord
    <3>2. \A h \in Clients : Using(h)' <=> Using(h)
      BY Zenon, <2>6 DEF TakeRecord, Using, OwnTypes
    <3> QED
      BY Zenon, <3>1, <3>2, OwnFrame
  <2>7. ASSUME PrepareSucceeds(g) PROVE OwnInv'
    <3>1. UNCHANGED <<free, opened, connClosed, conn>>
      BY Zenon, <2>7 DEF PrepareSucceeds
    <3>2. \A h \in Clients : Using(h)' <=> Using(h)
      BY Zenon, <2>7 DEF PrepareSucceeds, Using, OwnTypes
    <3> QED
      BY Zenon, <3>1, <3>2, OwnFrame
  <2>8. ASSUME PrepareFails(g) PROVE OwnInv'
    <3>1. UNCHANGED <<free, opened, connClosed, conn>>
      BY Zenon, <2>8 DEF PrepareFails
    <3>2. \A h \in Clients : Using(h)' <=> Using(h)
      BY Zenon, <2>8 DEF PrepareFails, Using, OwnTypes
    <3> QED
      BY Zenon, <3>1, <3>2, OwnFrame
  <2>9. ASSUME StepRow(g) PROVE OwnInv'
    <3>1. UNCHANGED <<free, opened, connClosed, conn>>
      BY Zenon, <2>9 DEF StepRow
    <3>2. \A h \in Clients : Using(h)' <=> Using(h)
      BY Zenon, <2>9 DEF StepRow, Using, OwnTypes
    <3> QED
      BY Zenon, <3>1, <3>2, OwnFrame
  <2>10. ASSUME ResetRow(g) PROVE OwnInv'
    <3>1. UNCHANGED <<free, opened, connClosed, conn>>
      BY Zenon, <2>10 DEF ResetRow
    <3>2. \A h \in Clients : Using(h)' <=> Using(h)
      BY Zenon, <2>10 DEF ResetRow, Using, OwnTypes
    <3> QED
      BY Zenon, <3>1, <3>2, OwnFrame
  <2>11. ASSUME PutCall(g) PROVE OwnInv'
    <3>1. UNCHANGED <<free, opened, connClosed, conn>>
      BY Zenon, <2>11 DEF PutCall
    <3>2. \A h \in Clients : Using(h)' <=> Using(h)
      BY Zenon, <2>11 DEF PutCall, Using, OwnTypes
    <3> QED
      BY Zenon, <3>1, <3>2, OwnFrame
  <2>12. ASSUME PutSwap(g) PROVE OwnInv'
    <3>1. UNCHANGED <<free, opened, connClosed, conn>>
      BY Zenon, <2>12 DEF PutSwap
    <3>2. \A h \in Clients : Using(h)' <=> Using(h)
      BY Zenon, <2>12 DEF PutSwap, Using, OwnTypes
    <3> QED
      BY Zenon, <3>1, <3>2, OwnFrame
  <2>13. ASSUME PutInterrupt(g) PROVE OwnInv'
    <3>1. UNCHANGED <<free, opened, connClosed, conn>>
      BY Zenon, <2>13 DEF PutInterrupt, SetInterrupt
    <3>2. \A h \in Clients : Using(h)' <=> Using(h)
      BY Zenon, <2>13 DEF PutInterrupt, SetInterrupt, Using, OwnTypes
    <3> QED
      BY Zenon, <3>1, <3>2, OwnFrame
  <2>14. ASSUME PutCancel(g) PROVE OwnInv'
    <3>1. UNCHANGED <<free, opened, connClosed, conn>>
      BY Zenon, <2>14 DEF PutCancel
    <3>2. \A h \in Clients : Using(h)' <=> Using(h)
      BY Zenon, <2>14 DEF PutCancel, Using, OwnTypes
    <3> QED
      BY Zenon, <3>1, <3>2, OwnFrame
  <2>15. ASSUME PutSend(g) PROVE OwnInv'
    <3>1. /\ Using(g)
          /\ free' = Append(free, conn[g])
          /\ UNCHANGED <<opened, connClosed, conn>>
      BY Zenon, <2>15 DEF PutSend, Using, OwnTypes
    <3>2. /\ ~Using(g)'
          /\ \A h \in Clients \ {g} : Using(h)' <=> Using(h)
      BY Zenon, <2>15 DEF PutSend, Using, OwnTypes
    <3>3. /\ Len(free) \in Nat
          /\ Len(free') = Len(free) + 1
          /\ \A i \in 1 .. Len(free) : free'[i] = free[i]
          /\ free'[Len(free) + 1] = conn[g]
      BY <3>1 DEF OwnTypes
    <3>4. FreeOnce'
      BY <3>1, <3>3 DEF FreeOnce, FreeUnused
    <3>5. FreeUnused'
      BY <3>1, <3>2, <3>3 DEF FreeUnused, HeldOnce
    <3>6. HeldOnce'
      BY Zenon, <3>1, <3>2 DEF HeldOnce
    <3>7. NothingLost'
      <4> SUFFICES ASSUME NEW c \in Conns, c <= opened, c \notin connClosed
                   PROVE  \/ \E i \in 1 .. Len(free') : free'[i] = c
                          \/ \E h \in Clients : Using(h)' /\ conn[h] = c
        BY Zenon, <3>1 DEF NothingLost, Conns
      <4>1. CASE c = conn[g]
        BY <4>1, <3>3
      <4>2. CASE c # conn[g]
        BY <4>2, <3>2, <3>3 DEF NothingLost
      <4> QED
        BY Zenon, <4>1, <4>2
    <3>8. ClosedWasOpen'
      BY Zenon, <3>1 DEF ClosedWasOpen
    <3> QED
      BY Zenon, <3>4, <3>5, <3>6, <3>7, <3>8
  <2> HIDE DEF OwnInv
  <2> QED
    BY Zenon, <1>1, <2>1, <2>2, <2>3, <2>4, <2>5, <2>6, <2>7, <2>8, <2>9, <2>10,
       <2>11, <2>12, <2>13, <2>14, <2>15 DEF Client, InTake, InPut
<1>2. ASSUME NEW w \in watchers, WatcherWakes(w) \/ WatcherInterrupts(w)
      PROVE  OwnInv'
  <2>1. UNCHANGED <<free, opened, connClosed, conn>>
    BY Zenon, <1>2 DEF WatcherWakes, WatcherInterrupts
  <2>2. \A h \in Clients : Using(h)' <=> Using(h)
    BY Zenon, <1>2 DEF WatcherWakes, WatcherInterrupts, Using, OwnTypes
  <2> QED
    BY Zenon, <2>1, <2>2, OwnFrame
<1>3. ASSUME OpenConn PROVE OwnInv'
  <2>1. /\ opened' = opened + 1
        /\ opened + 1 \in Conns
        /\ free' = Append(free, opened + 1)
        /\ UNCHANGED <<connClosed, conn, pc>>
    BY <1>3, PoolAssumption DEF OpenConn, OwnTypes, Conns
  <2>2. \A h \in Clients : Using(h)' <=> Using(h)
    BY Zenon, <2>1 DEF Using
  <2>3. /\ Len(free) \in Nat
        /\ Len(free') = Len(free) + 1
        /\ \A i \in 1 .. Len(free) : free'[i] = free[i] /\ free[i] \in Conns
        /\ free'[Len(free) + 1] = opened + 1
    BY <2>1 DEF OwnTypes
  <2> /\ opened \in Nat
      /\ \A h \in Clients : conn[h] \in Nat
      /\ connClosed \subseteq Nat
    BY DEF OwnTypes, Conns
  <2>4. FreeOnce'
    BY <2>1, <2>3 DEF FreeOnce, FreeUnused, Conns
  <2>5. FreeUnused'
    BY <2>1, <2>2, <2>3 DEF FreeUnused, HeldOnce, ClosedWasOpen, Conns
  <2>6. HeldOnce'
    BY <2>1, <2>2, <2>3 DEF HeldOnce
  <2>7. NothingLost'
    <3> SUFFICES ASSUME NEW c \in Conns, c <= opened + 1, c \notin connClosed
                 PROVE  \/ \E i \in 1 .. Len(free') : free'[i] = c
                        \/ \E h \in Clients : Using(h)' /\ conn[h] = c
      BY Zenon, <2>1 DEF NothingLost, Conns
    <3>1. CASE c = opened + 1
      BY <3>1, <2>3
    <3>2. CASE c # opened + 1
      BY <3>2, <2>2, <2>3 DEF NothingLost, Conns
    <3> QED
      BY Zenon, <3>1, <3>2
  <2>8. ClosedWasOpen'
    BY <2>1, <2>3 DEF ClosedWasOpen
  <2> QED
    BY Zenon, <2>4, <2>5, <2>6, <2>7, <2>8
<1>4. ASSUME OpenFails PROVE OwnInv'
  <2>1. UNCHANGED <<free, opened, connClosed, conn>>
    BY Zenon, <1>4 DEF OpenFails
  <2>2. \A h \in Clients : Using(h)' <=> Using(h)
    BY Zenon, <1>4 DEF OpenFails, Using, OwnTypes
  <2> QED
    BY Zenon, <2>1, <2>2, OwnFrame
<1>5. ASSUME NewPoolReturns PROVE OwnInv'
  <2>1. UNCHANGED <<free, opened, connClosed, conn>>
    BY Zenon, <1>5 DEF NewPoolReturns
  <2>2. \A h \in Clients : Using(h)' <=> Using(h)
    BY Zenon, <1>5 DEF NewPoolReturns, Using, OwnTypes
  <2> QED
    BY Zenon, <2>1, <2>2, OwnFrame
<1>6. ASSUME CloseCall PROVE OwnInv'
  <2>1. UNCHANGED <<free, opened, connClosed, conn>>
    BY Zenon, <1>6 DEF CloseCall
  <2>2. \A h \in Clients : Using(h)' <=> Using(h)
    BY Zenon, <1>6 DEF CloseCall, Using, OwnTypes
  <2> QED
    BY Zenon, <2>1, <2>2, OwnFrame
<1>7. ASSUME CloseSnapshot PROVE OwnInv'
  <2>1. UNCHANGED <<free, opened, connClosed, conn>>
    BY Zenon, <1>7 DEF CloseSnapshot
  <2>2. \A h \in Clients : Using(h)' <=> Using(h)
    BY Zenon, <1>7 DEF CloseSnapshot, Using, OwnTypes
  <2> QED
    BY Zenon, <2>1, <2>2, OwnFrame
<1>8. ASSUME CloseCancel PROVE OwnInv'
  <2>1. UNCHANGED <<free, opened, connClosed, conn>>
    BY Zenon, <1>8 DEF CloseCancel
  <2>2. \A h \in Clients : Using(h)' <=> Using(h)
    BY Zenon, <1>8 DEF CloseCancel, Using, OwnTypes
  <2> QED
    BY Zenon, <2>1, <2>2, OwnFrame
<1>9. ASSUME CloseCancelled PROVE OwnInv'
  <2>1. UNCHANGED <<free, opened, connClosed, conn>>
    BY Zenon, <1>9 DEF CloseCancelled
  <2>2. \A h \in Clients : Using(h)' <=> Using(h)
    BY Zenon, <1>9 DEF CloseCancelled, Using, OwnTypes
  <2> QED
    BY Zenon, <2>1, <2>2, OwnFrame
<1>10. ASSUME CloseConn PROVE OwnInv'
  <2>1. /\ free # <<>>
        /\ free' = Tail(free)
        /\ connClosed' = connClosed \cup {free[1]}
        /\ UNCHANGED <<opened, conn, pc>>
    BY <1>10 DEF CloseConn, OwnTypes
  <2>2. \A h \in Clients : Using(h)' <=> Using(h)
    BY Zenon, <2>1 DEF Using
  <2>3. /\ Len(free) \in Nat
        /\ Len(free) # 0
        /\ Len(free') = Len(free) - 1
        /\ \A i \in 1 .. Len(free') : free'[i] = free[i + 1]
    BY <2>1 DEF OwnTypes
  <2>4. FreeOnce'
    BY <2>3 DEF FreeOnce
  <2>5. FreeUnused'
    BY <2>1, <2>2, <2>3 DEF FreeUnused, FreeOnce
  <2>6. HeldOnce'
    BY <2>1, <2>2, <2>3 DEF HeldOnce, FreeUnused
  <2>7. NothingLost'
    <3> SUFFICES ASSUME NEW c \in Conns, c <= opened, c \notin connClosed',
                        NEW i \in 1 .. Len(free), free[i] = c
                 PROVE  \E k \in 1 .. Len(free') : free'[k] = c
      BY Zenon, <2>1, <2>2 DEF NothingLost, Conns
    <3>1. i - 1 \in 1 .. Len(free') /\ free'[i - 1] = c
      BY <2>1, <2>3
    <3> QED
      BY Zenon, <3>1
  <2>8. ClosedWasOpen'
    BY <2>1, <2>3 DEF ClosedWasOpen, FreeUnused
  <2> QED
    BY Zenon, <2>4, <2>5, <2>6, <2>7, <2>8
<1>11. ASSUME CloseReturns PROVE OwnInv'
  <2>1. UNCHANGED <<free, opened, connClosed, conn>>
    BY Zenon, <1>11 DEF CloseReturns
  <2>2. \A h \in Clients : Using(h)' <=> Using(h)
    BY Zenon, <1>11 DEF CloseReturns, Using, OwnTypes
  <2> QED
    BY Zenon, <2>1, <2>2, OwnFrame
<1>12. ASSUME NewPoolFailed PROVE OwnInv'
  <2>1. UNCHANGED <<free, opened, connClosed, conn>>
    BY Zenon, <1>12 DEF NewPoolFailed, vars
  <2>2. \A h \in Clients : Using(h)' <=> Using(h)
    BY Zenon, <1>12 DEF NewPoolFailed, vars, Using, OwnTypes
  <2> QED
    BY Zenon, <2>1, <2>2, OwnFrame
<1>13. ASSUME UNCHANGED vars PROVE OwnInv'
  BY Zenon, <1>13, OwnFrame DEF Using, vars
<1> HIDE DEF OwnInv
<1> QED
  BY Zenon, <1>1, <1>2, <1>3, <1>4, <1>5, <1>6, <1>7, <1>8, <1>9, <1>10, <1>11, <1>12,
     <1>13 DEF Next, Open, Closing, Watcher

\* A watcher of an earlier Take never survives: SetInterrupt joins it before put
\* or the next Take goes on.
LEMMA WatchStep ==
    TypeOK /\ OwnInv /\ WatchInv /\ [Next]_vars => WatchInv'
<1> SUFFICES ASSUME TypeOK, OwnInv, WatchInv, [Next]_vars
             PROVE  WatchInv'
    BY Zenon
<1> USE DEF WatchInv, Goto, poolVars, connVars, ctxVars, clientVars
<1>0. /\ pc \in [Clients -> {"idle", "taking", "interrupt", "record", "prepare",
                            "hold", "put", "unset", "cancel", "send"}]
      /\ conn \in [Clients -> Conns]
      /\ ctx \in [Clients -> Nat]
  BY Zenon DEF TypeOK
<1> USE <1>0
<1>1. ASSUME NEW g \in Clients, Client(g) PROVE WatchInv'
  <2>1. ASSUME TakeCall(g) PROVE WatchInv'
    BY Zenon, <2>1 DEF TakeCall
  <2>2. ASSUME ParentEnds(g) PROVE WatchInv'
    BY Zenon, <2>2 DEF ParentEnds
  <2>3. ASSUME TakeReceives(g) PROVE WatchInv'
    BY Zenon, <2>3 DEF TakeReceives
  <2>4. ASSUME TakeFails(g) PROVE WatchInv'
    BY Zenon, <2>4 DEF TakeFails
  <2>5. ASSUME TakeInterrupt(g) PROVE WatchInv'
    BY <2>5 DEF TakeInterrupt, SetInterrupt
  <2>6. ASSUME TakeRecord(g) PROVE WatchInv'
    BY Zenon, <2>6 DEF TakeRecord
  <2>7. ASSUME PrepareSucceeds(g) PROVE WatchInv'
    BY Zenon, <2>7 DEF PrepareSucceeds
  <2>8. ASSUME PrepareFails(g) PROVE WatchInv'
    BY Zenon, <2>8 DEF PrepareFails
  <2>9. ASSUME StepRow(g) PROVE WatchInv'
    BY Zenon, <2>9 DEF StepRow
  <2>10. ASSUME ResetRow(g) PROVE WatchInv'
    BY Zenon, <2>10 DEF ResetRow
  <2>11. ASSUME PutCall(g) PROVE WatchInv'
    BY Zenon, <2>11 DEF PutCall
  <2>12. ASSUME PutSwap(g) PROVE WatchInv'
    BY Zenon, <2>12 DEF PutSwap
  <2>13. ASSUME PutInterrupt(g) PROVE WatchInv'
    BY Zenon, <2>13 DEF PutInterrupt, SetInterrupt
  <2>14. ASSUME PutCancel(g) PROVE WatchInv'
    BY Zenon, <2>14 DEF PutCancel
  <2>15. ASSUME PutSend(g) PROVE WatchInv'
    BY Zenon, <2>15 DEF PutSend
  <2> HIDE DEF WatchInv
  <2> QED
    BY Zenon, <1>1, <2>1, <2>2, <2>3, <2>4, <2>5, <2>6, <2>7, <2>8, <2>9, <2>10,
       <2>11, <2>12, <2>13, <2>14, <2>15 DEF Client, InTake, InPut
<1>2. ASSUME NEW w \in watchers, WatcherWakes(w) \/ WatcherInterrupts(w)
      PROVE  WatchInv'
  <2>1. CASE WatcherWakes(w)
    <3>1. /\ \A v \in watchers' :
                \E u \in watchers : u.conn = v.conn /\ u.ctx = v.ctx
          /\ UNCHANGED <<pc, conn, ctx>>
      BY Zenon, <2>1 DEF WatcherWakes, TypeOK, WatcherType
    <3> QED
      BY <3>1
  <2>2. CASE WatcherInterrupts(w)
    <3>1. /\ \A v \in watchers' :
                \E u \in watchers : u.conn = v.conn /\ u.ctx = v.ctx
          /\ UNCHANGED <<pc, conn, ctx>>
      BY Zenon, <2>2 DEF WatcherInterrupts, TypeOK, WatcherType
    <3> QED
      BY <3>1
  <2> QED
    BY Zenon, <1>2, <2>1, <2>2
<1>3. ASSUME OpenConn PROVE WatchInv'
  BY Zenon, <1>3 DEF OpenConn
<1>4. ASSUME OpenFails PROVE WatchInv'
  BY Zenon, <1>4 DEF OpenFails
<1>5. ASSUME NewPoolReturns PROVE WatchInv'
  BY Zenon, <1>5 DEF NewPoolReturns
<1>6. ASSUME CloseCall PROVE WatchInv'
  BY Zenon, <1>6 DEF CloseCall
<1>7. ASSUME CloseSnapshot PROVE WatchInv'
  BY Zenon, <1>7 DEF CloseSnapshot
<1>8. ASSUME CloseCancel PROVE WatchInv'
  BY Zenon, <1>8 DEF CloseCancel
<1>9. ASSUME CloseCancelled PROVE WatchInv'
  BY Zenon, <1>9 DEF CloseCancelled
<1>10. ASSUME CloseConn PROVE WatchInv'
  BY Zenon, <1>10 DEF CloseConn
<1>11. ASSUME CloseReturns PROVE WatchInv'
  BY Zenon, <1>11 DEF CloseReturns
<1>12. ASSUME NewPoolFailed PROVE WatchInv'
  BY Zenon, <1>12 DEF NewPoolFailed, vars
<1>13. ASSUME UNCHANGED vars PROVE WatchInv'
  BY Zenon, <1>13 DEF vars
<1> HIDE DEF WatchInv
<1> QED
  BY Zenon, <1>1, <1>2, <1>3, <1>4, <1>5, <1>6, <1>7, <1>8, <1>9, <1>10, <1>11, <1>12,
     <1>13 DEF Next, Open, Closing, Watcher

\* What a client does to its own connection dirties no other one.
LEMMA CleanOthers ==
    ASSUME OwnInv, OwnTypes, CleanInv,
           NEW g \in Clients, Using(g),
           UNCHANGED <<free, opened, conn>>,
           \A c \in Conns \ {conn[g]} :
               (Clean(c) => Clean(c)') /\ all'[c] = all[c],
           \A h \in Clients \ {g} : pc'[h] = pc[h],
           pc'[g] \notin {"unset", "cancel", "send"}
    PROVE  CleanInv'
<1>1. /\ conn[g] \in Conns
      /\ conn[g] <= opened
      /\ \A h \in Clients \ {g} : Using(h) => conn[h] # conn[g]
  BY Zenon DEF OwnInv, HeldOnce, OwnTypes
<1>2. \A i \in 1 .. Len(free) : free[i] \in Conns \ {conn[g]}
  BY DEF OwnInv, FreeUnused, OwnTypes
<1>3. \A h \in Clients \ {g} :
          pc[h] \in {"unset", "cancel", "send"} => conn[h] \in Conns \ {conn[g]}
  BY Zenon, <1>1 DEF Using, OwnTypes
<1>4. \A c \in Conns : c > opened => c \in Conns \ {conn[g]}
  BY <1>1 DEF OwnTypes, Conns
<1> QED
  BY <1>2, <1>3, <1>4 DEF CleanInv

\* What put cleans stays clean until the next Take: nobody else touches a
\* connection that is in p.free.
LEMMA CleanStep ==
    TypeOK /\ OwnInv /\ CleanInv /\ [Next]_vars => CleanInv'
<1> SUFFICES ASSUME TypeOK, OwnInv, CleanInv, [Next]_vars
             PROVE  CleanInv'
    BY Zenon
<1> USE DEF Goto, poolVars, connVars, ctxVars, clientVars
<1>0. /\ pc \in [Clients -> {"idle", "taking", "interrupt", "record", "prepare",
                            "hold", "put", "unset", "cancel", "send"}]
      /\ conn \in [Clients -> Conns]
      /\ doneCh \in [Conns -> Nat]
      /\ all \in [Conns -> Nat]
      /\ opened \in 0 .. PoolSize
      /\ free \in Seq(Conns)
  BY Zenon DEF TypeOK
<1>a. OwnTypes
  BY Zenon DEF TypeOK, OwnTypes
<1> USE <1>0, <1>a
<1>1. ASSUME NEW g \in Clients, Client(g) PROVE CleanInv'
  <2>1. ASSUME TakeCall(g) PROVE CleanInv'
    BY Zenon, <2>1 DEF TakeCall, CleanInv, Clean
  <2>2. ASSUME ParentEnds(g) PROVE CleanInv'
    BY Zenon, <2>2 DEF ParentEnds, CleanInv, Clean
  <2>3. ASSUME TakeReceives(g) PROVE CleanInv'
    BY <2>3 DEF TakeReceives, CleanInv, Clean, OwnInv, FreeUnused, HeldOnce, Using
  <2>4. ASSUME TakeFails(g) PROVE CleanInv'
    BY Zenon, <2>4 DEF TakeFails, CleanInv, Clean
  <2>5. ASSUME TakeInterrupt(g) PROVE CleanInv'
    <3>1. /\ Using(g)
          /\ UNCHANGED <<free, opened, conn>>
          /\ \A c \in Conns \ {conn[g]} :
                (Clean(c) => Clean(c)') /\ all'[c] = all[c]
      BY Zenon, <2>5 DEF TakeInterrupt, SetInterrupt, Using, Clean
    <3>2. /\ \A h \in Clients \ {g} : pc'[h] = pc[h]
          /\ pc'[g] \notin {"unset", "cancel", "send"}
      BY Zenon, <2>5 DEF TakeInterrupt, SetInterrupt
    <3> QED
      BY Zenon, <3>1, <3>2, CleanOthers
  <2>6. ASSUME TakeRecord(g) PROVE CleanInv'
    <3>1. /\ Using(g)
          /\ UNCHANGED <<free, opened, conn>>
          /\ \A c \in Conns \ {conn[g]} :
                (Clean(c) => Clean(c)') /\ all'[c] = all[c]
      BY Zenon, <2>6 DEF TakeRecord, Using, Clean
    <3>2. /\ \A h \in Clients \ {g} : pc'[h] = pc[h]
          /\ pc'[g] \notin {"unset", "cancel", "send"}
      BY Zenon, <2>6 DEF TakeRecord
    <3> QED
      BY Zenon, <3>1, <3>2, CleanOthers
  <2>7. ASSUME PrepareSucceeds(g) PROVE CleanInv'
    BY Zenon, <2>7 DEF PrepareSucceeds, CleanInv, Clean
  <2>8. ASSUME PrepareFails(g) PROVE CleanInv'
    <3>1. /\ Using(g)
          /\ UNCHANGED <<free, opened, conn>>
          /\ \A c \in Conns \ {conn[g]} :
                (Clean(c) => Clean(c)') /\ all'[c] = all[c]
      BY Zenon, <2>8 DEF PrepareFails, Using, Clean
    <3>2. /\ \A h \in Clients \ {g} : pc'[h] = pc[h]
          /\ pc'[g] \notin {"unset", "cancel", "send"}
      BY Zenon, <2>8 DEF PrepareFails
    <3> QED
      BY Zenon, <3>1, <3>2, CleanOthers
  <2>9. ASSUME StepRow(g) PROVE CleanInv'
    <3>1. /\ Using(g)
          /\ UNCHANGED <<free, opened, conn>>
          /\ \A c \in Conns \ {conn[g]} :
                (Clean(c) => Clean(c)') /\ all'[c] = all[c]
      BY Zenon, <2>9 DEF StepRow, Using, Clean
    <3>2. /\ \A h \in Clients \ {g} : pc'[h] = pc[h]
          /\ pc'[g] \notin {"unset", "cancel", "send"}
      BY Zenon, <2>9 DEF StepRow
    <3> QED
      BY Zenon, <3>1, <3>2, CleanOthers
  <2>10. ASSUME ResetRow(g) PROVE CleanInv'
    BY Zenon, <2>10 DEF ResetRow, CleanInv, Clean, OwnInv, FreeUnused, HeldOnce, Using
  <2>11. ASSUME PutCall(g) PROVE CleanInv'
    BY Zenon, <2>11 DEF PutCall, CleanInv, Clean
  <2>12. ASSUME PutSwap(g) PROVE CleanInv'
    BY SMTT(40), <2>12 DEF PutSwap, CleanInv, Clean, OwnInv, FreeUnused, HeldOnce, Using
  <2>13. ASSUME PutInterrupt(g) PROVE CleanInv'
    BY SMTT(40), <2>13 DEF PutInterrupt, SetInterrupt, CleanInv, Clean, OwnInv, FreeUnused,
       HeldOnce, Using
  <2>14. ASSUME PutCancel(g) PROVE CleanInv'
    BY Zenon, <2>14 DEF PutCancel, CleanInv, Clean
  <2>15. ASSUME PutSend(g) PROVE CleanInv'
    BY SMTT(40), <2>15 DEF PutSend, CleanInv, Clean, OwnInv, FreeUnused, HeldOnce, Using
  <2> HIDE DEF CleanInv
  <2> QED
    BY Zenon, <1>1, <2>1, <2>2, <2>3, <2>4, <2>5, <2>6, <2>7, <2>8, <2>9, <2>10,
       <2>11, <2>12, <2>13, <2>14, <2>15 DEF Client, InTake, InPut
<1>2. ASSUME NEW w \in watchers, WatcherWakes(w) \/ WatcherInterrupts(w)
      PROVE  CleanInv'
  BY Zenon, <1>2 DEF WatcherWakes, WatcherInterrupts, CleanInv, Clean
<1>3. ASSUME OpenConn PROVE CleanInv'
  <2>1. /\ opened' = opened + 1
        /\ opened + 1 \in Conns
        /\ free' = Append(free, opened + 1)
        /\ all' = [all EXCEPT ![opened + 1] = 0]
        /\ UNCHANGED <<doneCh, activeRow, conn, pc>>
    BY <1>3, PoolAssumption DEF OpenConn, Conns
  <2>2. /\ Len(free) \in Nat
        /\ Len(free') = Len(free) + 1
        /\ \A i \in 1 .. Len(free) : free'[i] = free[i]
        /\ free'[Len(free) + 1] = opened + 1
    BY <2>1
  <2> opened \in Nat
    OBVIOUS
  <2>3. ASSUME NEW i \in 1 .. Len(free)
        PROVE  free[i] # opened + 1 /\ free[i] \in Conns
    <3>1. free[i] <= opened /\ free[i] \in Conns
      BY DEF OwnInv, FreeUnused
    <3> QED
      BY <3>1 DEF Conns
  <2>4. \A h \in Clients : Using(h) => conn[h] # opened + 1 /\ conn[h] \in Conns
    BY DEF OwnInv, HeldOnce, Conns
  <2>5. /\ \A c \in Conns \ {opened + 1} : all'[c] = all[c]
        /\ all'[opened + 1] = 0
    BY Zenon, <2>1
  <2>6. \A c \in Conns : c > opened' => Clean(c)'
    BY <2>1 DEF CleanInv, Conns, Clean
  <2>7. ASSUME NEW i \in 1 .. Len(free')
        PROVE  /\ doneCh'[free'[i]] = 0 /\ free'[i] \notin activeRow'
               /\ all'[free'[i]] = 0
    <3>1. CASE i = Len(free) + 1
      <4>1. opened + 1 > opened /\ Clean(opened + 1)
        BY <2>1 DEF CleanInv
      <4> QED
        BY <3>1, <4>1, <2>1, <2>2, <2>5 DEF Clean
    <3>2. CASE i \in 1 .. Len(free)
      <4>1. Clean(free[i]) /\ all[free[i]] = 0
        BY Zenon, <3>2 DEF CleanInv
      <4>2. free'[i] = free[i] /\ free[i] \in Conns \ {opened + 1}
        BY Zenon, <3>2, <2>2, <2>3
      <4> QED
        BY Zenon, <4>1, <4>2, <2>1, <2>5 DEF Clean
    <3> QED
      BY <2>2, <3>1, <3>2
  <2>8. ASSUME NEW h \in Clients
        PROVE  /\ pc'[h] \in {"cancel", "send"} =>
                      doneCh'[conn'[h]] = 0 /\ conn'[h] \notin activeRow'
               /\ pc'[h] \in {"unset", "cancel", "send"} => all'[conn'[h]] = 0
    BY Zenon, <2>1, <2>4, <2>5 DEF CleanInv, Using, Clean
  <2> QED
    BY Zenon, <2>6, <2>7, <2>8 DEF CleanInv, Clean
<1>4. ASSUME OpenFails PROVE CleanInv'
  BY Zenon, <1>4 DEF OpenFails, CleanInv, Clean
<1>5. ASSUME NewPoolReturns PROVE CleanInv'
  BY Zenon, <1>5 DEF NewPoolReturns, CleanInv, Clean
<1>6. ASSUME CloseCall PROVE CleanInv'
  BY Zenon, <1>6 DEF CloseCall, CleanInv, Clean
<1>7. ASSUME CloseSnapshot PROVE CleanInv'
  BY SMTT(40), <1>7 DEF CloseSnapshot, CleanInv, Clean
<1>8. ASSUME CloseCancel PROVE CleanInv'
  BY Zenon, <1>8 DEF CloseCancel, CleanInv, Clean
<1>9. ASSUME CloseCancelled PROVE CleanInv'
  BY Zenon, <1>9 DEF CloseCancelled, CleanInv, Clean
<1>10. ASSUME CloseConn PROVE CleanInv'
  BY <1>10 DEF CloseConn, CleanInv, Clean
<1>11. ASSUME CloseReturns PROVE CleanInv'
  BY Zenon, <1>11 DEF CloseReturns, CleanInv, Clean
<1>12. ASSUME NewPoolFailed PROVE CleanInv'
  BY Zenon, <1>12 DEF NewPoolFailed, vars, CleanInv, Clean
<1>13. ASSUME UNCHANGED vars PROVE CleanInv'
  BY Zenon, <1>13 DEF vars, CleanInv, Clean
<1> HIDE DEF CleanInv
<1> QED
  BY Zenon, <1>1, <1>2, <1>3, <1>4, <1>5, <1>6, <1>7, <1>8, <1>9, <1>10, <1>11, <1>12,
     <1>13 DEF Next, Open, Closing, Watcher

\* prepare is not called again on a connection on which it has succeeded.
LEMMA PreparedStep ==
    TypeOK /\ OwnInv /\ PreparedOnce /\ [Next]_vars => PreparedOnce'
<1> SUFFICES ASSUME TypeOK, OwnInv, PreparedOnce, [Next]_vars
             PROVE  PreparedOnce'
    BY Zenon
<1> USE DEF PreparedOnce, OwnInv, HeldOnce, Using, Goto, poolVars,
       connVars, ctxVars, clientVars
<1>0. /\ pc \in [Clients -> {"idle", "taking", "interrupt", "record", "prepare",
                            "hold", "put", "unset", "cancel", "send"}]
      /\ conn \in [Clients -> Conns]
  BY Zenon DEF TypeOK
<1> USE <1>0
<1>1. ASSUME NEW g \in Clients, Client(g) PROVE PreparedOnce'
  <2>1. ASSUME TakeCall(g) PROVE PreparedOnce'
    BY Zenon, <2>1 DEF TakeCall
  <2>2. ASSUME ParentEnds(g) PROVE PreparedOnce'
    BY Zenon, <2>2 DEF ParentEnds
  <2>3. ASSUME TakeReceives(g) PROVE PreparedOnce'
    BY Zenon, <2>3 DEF TakeReceives
  <2>4. ASSUME TakeFails(g) PROVE PreparedOnce'
    BY Zenon, <2>4 DEF TakeFails
  <2>5. ASSUME TakeInterrupt(g) PROVE PreparedOnce'
    BY Zenon, <2>5 DEF TakeInterrupt, SetInterrupt
  <2>6. ASSUME TakeRecord(g) PROVE PreparedOnce'
    BY Zenon, <2>6 DEF TakeRecord
  <2>7. ASSUME PrepareSucceeds(g) PROVE PreparedOnce'
    BY Zenon, <2>7 DEF PrepareSucceeds
  <2>8. ASSUME PrepareFails(g) PROVE PreparedOnce'
    BY Zenon, <2>8 DEF PrepareFails
  <2>9. ASSUME StepRow(g) PROVE PreparedOnce'
    BY Zenon, <2>9 DEF StepRow
  <2>10. ASSUME ResetRow(g) PROVE PreparedOnce'
    BY Zenon, <2>10 DEF ResetRow
  <2>11. ASSUME PutCall(g) PROVE PreparedOnce'
    BY Zenon, <2>11 DEF PutCall
  <2>12. ASSUME PutSwap(g) PROVE PreparedOnce'
    BY Zenon, <2>12 DEF PutSwap
  <2>13. ASSUME PutInterrupt(g) PROVE PreparedOnce'
    BY Zenon, <2>13 DEF PutInterrupt, SetInterrupt
  <2>14. ASSUME PutCancel(g) PROVE PreparedOnce'
    BY Zenon, <2>14 DEF PutCancel
  <2>15. ASSUME PutSend(g) PROVE PreparedOnce'
    BY Zenon, <2>15 DEF PutSend
  <2> HIDE DEF PreparedOnce
  <2> QED
    BY Zenon, <1>1, <2>1, <2>2, <2>3, <2>4, <2>5, <2>6, <2>7, <2>8, <2>9, <2>10,
       <2>11, <2>12, <2>13, <2>14, <2>15 DEF Client, InTake, InPut
<1>2. ASSUME NEW w \in watchers, WatcherWakes(w) \/ WatcherInterrupts(w)
      PROVE  PreparedOnce'
  BY Zenon, <1>2 DEF WatcherWakes, WatcherInterrupts
<1>3. ASSUME OpenConn PROVE PreparedOnce'
  BY Zenon, <1>3 DEF OpenConn
<1>4. ASSUME OpenFails PROVE PreparedOnce'
  BY Zenon, <1>4 DEF OpenFails
<1>5. ASSUME NewPoolReturns PROVE PreparedOnce'
  BY Zenon, <1>5 DEF NewPoolReturns
<1>6. ASSUME CloseCall PROVE PreparedOnce'
  BY Zenon, <1>6 DEF CloseCall
<1>7. ASSUME CloseSnapshot PROVE PreparedOnce'
  BY Zenon, <1>7 DEF CloseSnapshot
<1>8. ASSUME CloseCancel PROVE PreparedOnce'
  BY Zenon, <1>8 DEF CloseCancel
<1>9. ASSUME CloseCancelled PROVE PreparedOnce'
  BY Zenon, <1>9 DEF CloseCancelled
<1>10. ASSUME CloseConn PROVE PreparedOnce'
  BY Zenon, <1>10 DEF CloseConn
<1>11. ASSUME CloseReturns PROVE PreparedOnce'
  BY Zenon, <1>11 DEF CloseReturns
<1>12. ASSUME NewPoolFailed PROVE PreparedOnce'
  BY Zenon, <1>12 DEF NewPoolFailed, vars
<1>13. ASSUME UNCHANGED vars PROVE PreparedOnce'
  BY Zenon, <1>13 DEF vars
<1> HIDE DEF PreparedOnce
<1> QED
  BY Zenon, <1>1, <1>2, <1>3, <1>4, <1>5, <1>6, <1>7, <1>8, <1>9, <1>10, <1>11, <1>12,
     <1>13 DEF Next, Open, Closing, Watcher

\* However put and Close race for the cancel functions, one of them has to call
\* the cancel function of every context.
LEMMA CtxStep ==
    TypeOK /\ OwnInv /\ CtxInv /\ [Next]_vars => CtxInv'
<1> SUFFICES ASSUME TypeOK, OwnInv, CtxInv, [Next]_vars
             PROVE  CtxInv'
    BY Zenon
<1> USE DEF CtxInv, ContextsReleased, Released, Ctxs, Using, Goto,
       poolVars, connVars, ctxVars, clientVars
<1>0. /\ pc \in [Clients -> {"idle", "taking", "interrupt", "record", "prepare",
                            "hold", "put", "unset", "cancel", "send"}]
      /\ conn \in [Clients -> Conns]
      /\ ctx \in [Clients -> Nat]
      /\ cancel \in [Clients -> Nat]
      /\ all \in [Conns -> Nat]
      /\ nextCtx \in Nat
      /\ opened \in 0 .. PoolSize
  BY Zenon DEF TypeOK
<1> USE <1>0 DEF OwnInv, HeldOnce
<1>1. ASSUME NEW g \in Clients, Client(g) PROVE CtxInv'
  <2>1. ASSUME TakeCall(g) PROVE CtxInv'
    BY <2>1 DEF TakeCall
  <2>2. ASSUME ParentEnds(g) PROVE CtxInv'
    BY Zenon, <2>2 DEF ParentEnds
  <2>3. ASSUME TakeReceives(g) PROVE CtxInv'
    BY SMTT(40), <2>3 DEF TakeReceives
  <2>4. ASSUME TakeFails(g) PROVE CtxInv'
    BY Zenon, <2>4 DEF TakeFails
  <2>5. ASSUME TakeInterrupt(g) PROVE CtxInv'
    BY Zenon, <2>5 DEF TakeInterrupt, SetInterrupt
  <2>6. ASSUME TakeRecord(g) PROVE CtxInv'
    BY SMTT(40), <2>6 DEF TakeRecord
  <2>7. ASSUME PrepareSucceeds(g) PROVE CtxInv'
    BY Zenon, <2>7 DEF PrepareSucceeds
  <2>8. ASSUME PrepareFails(g) PROVE CtxInv'
    BY Zenon, <2>8 DEF PrepareFails
  <2>9. ASSUME StepRow(g) PROVE CtxInv'
    BY Zenon, <2>9 DEF StepRow
  <2>10. ASSUME ResetRow(g) PROVE CtxInv'
    BY Zenon, <2>10 DEF ResetRow
  <2>11. ASSUME PutCall(g) PROVE CtxInv'
    BY Zenon, <2>11 DEF PutCall
  <2>12. ASSUME PutSwap(g) PROVE CtxInv'
    BY SMTT(40), <2>12 DEF PutSwap
  <2>13. ASSUME PutInterrupt(g) PROVE CtxInv'
    BY Zenon, <2>13 DEF PutInterrupt, SetInterrupt
  <2>14. ASSUME PutCancel(g) PROVE CtxInv'
    BY <2>14 DEF PutCancel
  <2>15. ASSUME PutSend(g) PROVE CtxInv'
    BY SMTT(40), <2>15 DEF PutSend
  <2> HIDE DEF CtxInv
  <2> QED
    BY <1>1, <2>1, <2>2, <2>3, <2>4, <2>5, <2>6, <2>7, <2>8, <2>9, <2>10,
       <2>11, <2>12, <2>13, <2>14, <2>15 DEF Client, InTake, InPut
<1>2. ASSUME NEW w \in watchers, WatcherWakes(w) \/ WatcherInterrupts(w)
      PROVE  CtxInv'
  BY Zenon, <1>2 DEF WatcherWakes, WatcherInterrupts
<1>3. ASSUME OpenConn PROVE CtxInv'
  <2>1. \A h \in Clients : Using(h) => all'[conn[h]] = all[conn[h]]
    BY SMTT(40), <1>3 DEF OpenConn, Conns
  <2> QED
    BY Zenon, <1>3, <2>1 DEF OpenConn
<1>4. ASSUME OpenFails PROVE CtxInv'
  BY Zenon, <1>4 DEF OpenFails
<1>5. ASSUME NewPoolReturns PROVE CtxInv'
  BY Zenon, <1>5 DEF NewPoolReturns
<1>6. ASSUME CloseCall PROVE CtxInv'
  BY Zenon, <1>6 DEF CloseCall
<1>7. ASSUME CloseSnapshot PROVE CtxInv'
  <2>1. /\ toCancel = {}
        /\ UNCHANGED <<cancelled, nextCtx, pc, conn, ctx, cancel>>
        /\ stage' = "cancelling"
    BY Zenon, <1>7 DEF CloseSnapshot
  <2>2. \A h \in Clients :
            Using(h) /\ all[conn[h]] = ctx[h] => ctx[h] \in toCancel'
    <3> SUFFICES ASSUME NEW h \in Clients, Using(h), all[conn[h]] = ctx[h]
                 PROVE  ctx[h] \in toCancel'
      BY Zenon
    <3>1. conn[h] \in 1 .. opened /\ ctx[h] # 0
      BY DEF Conns
    <3> QED
      BY SMTT(40), <1>7, <3>1 DEF CloseSnapshot
  <2> QED
    BY Zenon, <2>1, <2>2
<1>8. ASSUME CloseCancel PROVE CtxInv'
  BY Zenon, <1>8 DEF CloseCancel
<1>9. ASSUME CloseCancelled PROVE CtxInv'
  BY Zenon, <1>9 DEF CloseCancelled
<1>10. ASSUME CloseConn PROVE CtxInv'
  BY Zenon, <1>10 DEF CloseConn
<1>11. ASSUME CloseReturns PROVE CtxInv'
  BY Zenon, <1>11 DEF CloseReturns
<1>12. ASSUME NewPoolFailed PROVE CtxInv'
  BY Zenon, <1>12 DEF NewPoolFailed, vars
<1>13. ASSUME UNCHANGED vars PROVE CtxInv'
  BY Zenon, <1>13 DEF vars
<1> HIDE DEF CtxInv
<1> QED
  BY <1>1, <1>2, <1>3, <1>4, <1>5, <1>6, <1>7, <1>8, <1>9, <1>10, <1>11, <1>12,
     <1>13 DEF Next, Open, Closing, Watcher

\* Close counts each connection once.
LEMMA CloseStep ==
    TypeOK /\ OwnInv /\ CloseInv /\ [Next]_vars => CloseInv'
<1> SUFFICES ASSUME TypeOK, OwnInv, CloseInv, [Next]_vars
             PROVE  CloseInv'
    BY Zenon
<1> USE DEF CloseInv, Goto, poolVars, connVars, ctxVars, clientVars
<1>1. ASSUME NEW g \in Clients, Client(g) PROVE CloseInv'
  <2>1. ASSUME TakeCall(g) PROVE CloseInv'
    BY Zenon, <2>1 DEF TakeCall
  <2>2. ASSUME ParentEnds(g) PROVE CloseInv'
    BY Zenon, <2>2 DEF ParentEnds
  <2>3. ASSUME TakeReceives(g) PROVE CloseInv'
    BY Zenon, <2>3 DEF TakeReceives
  <2>4. ASSUME TakeFails(g) PROVE CloseInv'
    BY Zenon, <2>4 DEF TakeFails
  <2>5. ASSUME TakeInterrupt(g) PROVE CloseInv'
    BY Zenon, <2>5 DEF TakeInterrupt, SetInterrupt
  <2>6. ASSUME TakeRecord(g) PROVE CloseInv'
    BY Zenon, <2>6 DEF TakeRecord
  <2>7. ASSUME PrepareSucceeds(g) PROVE CloseInv'
    BY Zenon, <2>7 DEF PrepareSucceeds
  <2>8. ASSUME PrepareFails(g) PROVE CloseInv'
    BY Zenon, <2>8 DEF PrepareFails
  <2>9. ASSUME StepRow(g) PROVE CloseInv'
    BY Zenon, <2>9 DEF StepRow
  <2>10. ASSUME ResetRow(g) PROVE CloseInv'
    BY Zenon, <2>10 DEF ResetRow
  <2>11. ASSUME PutCall(g) PROVE CloseInv'
    BY Zenon, <2>11 DEF PutCall
  <2>12. ASSUME PutSwap(g) PROVE CloseInv'
    BY Zenon, <2>12 DEF PutSwap
  <2>13. ASSUME PutInterrupt(g) PROVE CloseInv'
    BY Zenon, <2>13 DEF PutInterrupt, SetInterrupt
  <2>14. ASSUME PutCancel(g) PROVE CloseInv'
    BY Zenon, <2>14 DEF PutCancel
  <2>15. ASSUME PutSend(g) PROVE CloseInv'
    BY Zenon, <2>15 DEF PutSend
  <2> HIDE DEF CloseInv
  <2> QED
    BY Zenon, <1>1, <2>1, <2>2, <2>3, <2>4, <2>5, <2>6, <2>7, <2>8, <2>9, <2>10,
       <2>11, <2>12, <2>13, <2>14, <2>15 DEF Client, InTake, InPut
<1>2. ASSUME NEW w \in watchers, WatcherWakes(w) \/ WatcherInterrupts(w)
      PROVE  CloseInv'
  BY Zenon, <1>2 DEF WatcherWakes, WatcherInterrupts
<1>3. ASSUME OpenConn PROVE CloseInv'
  BY Zenon, <1>3 DEF OpenConn
<1>4. ASSUME OpenFails PROVE CloseInv'
  BY Zenon, <1>4 DEF OpenFails
<1>5. ASSUME NewPoolReturns PROVE CloseInv'
  BY Zenon, <1>5 DEF NewPoolReturns
<1>6. ASSUME CloseCall PROVE CloseInv'
  BY Zenon, <1>6 DEF CloseCall
<1>7. ASSUME CloseSnapshot PROVE CloseInv'
  BY Zenon, <1>7 DEF CloseSnapshot
<1>8. ASSUME CloseCancel PROVE CloseInv'
  BY Zenon, <1>8 DEF CloseCancel
<1>9. ASSUME CloseCancelled PROVE CloseInv'
  BY Zenon, <1>9 DEF CloseCancelled
<1>10. ASSUME CloseConn PROVE CloseInv'
  <2>1. free[1] \notin connClosed
    BY SMTT(40), <1>10 DEF CloseConn, TypeOK, OwnInv, FreeUnused
  <2>2. /\ connClosed' = connClosed \cup {free[1]}
        /\ nClosed' = nClosed + 1
        /\ stage' = "draining"
    BY <1>10 DEF CloseConn, TypeOK
  <2>3. /\ IsFiniteSet(connClosed')
        /\ Cardinality(connClosed') = Cardinality(connClosed) + 1
    BY Zenon, <2>1, <2>2, FS_AddElement
  <2> QED
    BY Zenon, <2>2, <2>3
<1>11. ASSUME CloseReturns PROVE CloseInv'
  BY Zenon, <1>11 DEF CloseReturns
<1>12. ASSUME NewPoolFailed PROVE CloseInv'
  BY Zenon, <1>12 DEF NewPoolFailed, vars
<1>13. ASSUME UNCHANGED vars PROVE CloseInv'
  BY Zenon, <1>13 DEF vars
<1> HIDE DEF CloseInv
<1> QED
  BY Zenon, <1>1, <1>2, <1>3, <1>4, <1>5, <1>6, <1>7, <1>8, <1>9, <1>10, <1>11, <1>12,
     <1>13 DEF Next, Open, Closing, Watcher

\* The inductive invariant holds initially and is kept by every step.
LEMMA Invariance == Spec => []IInv
<1>1. Init => IInv
  <2> SUFFICES ASSUME Init PROVE IInv
    BY Zenon
  <2> USE PoolAssumption DEF Init, Conns
  <2>1. TypeOK
    BY DEF TypeOK
  <2>2. OwnInv /\ WatchInv
    BY DEF OwnInv, FreeOnce, FreeUnused, HeldOnce, NothingLost, ClosedWasOpen,
           Using, WatchInv
  <2>3. CleanInv /\ PreparedOnce
    BY DEF CleanInv, Clean, PreparedOnce
  <2>4. CtxInv
    BY DEF CtxInv, ContextsReleased, Ctxs, Using
  <2>5. CloseInv
    BY Zenon, FS_EmptySet DEF CloseInv
  <2> QED
    BY Zenon, <2>1, <2>2, <2>3, <2>4, <2>5 DEF IInv
<1>2. IInv /\ [Next]_vars => IInv'
  BY Zenon, TypeStep, OwnStep, WatchStep, CleanStep, PreparedStep, CtxStep, CloseStep
     DEF IInv
<1> QED
  BY <1>1, <1>2, PTL DEF Spec

-----------------------------------------------------------------------------
\* The fields of a pool and of its connections keep their types.
THEOREM TypeInvariance == Spec => []TypeOK
<1>1. IInv => TypeOK
  BY Zenon DEF IInv
<1> QED
  BY <1>1, Invariance, PTL

\* A connection of the pool is at every moment in exactly one place: a slot of
\* p.free, one client between Take and Put, or closed.
THEOREM ExclusiveOwnership == Spec => []OneOwner
<1>1. IInv => OneOwner
  <2> SUFFICES ASSUME IInv, NEW c \in 1 .. opened
               PROVE  \E p \in Places(c) : Places(c) = {p}
    BY Zenon DEF OneOwner
  <2> USE DEF IInv, OwnInv
  <2>0. c \in Conns /\ c <= opened
    <3>1. opened \in Nat /\ opened <= PoolSize
      BY DEF TypeOK
    <3> QED
      BY <3>1, PoolAssumption DEF Conns
  <2>1. CASE c \in connClosed
    <3>1. ~ \E i \in 1 .. Len(free) : free[i] = c
      BY Zenon, <2>1 DEF FreeUnused
    <3>2. ~ \E g \in Clients : Using(g) /\ conn[g] = c
      BY Zenon, <2>1 DEF HeldOnce
    <3>3. Places(c) = {<<"closed", c>>}
      BY Zenon, <2>1, <3>1, <3>2 DEF Places
    <3> QED
      BY Zenon, <3>3
  <2>2. ASSUME NEW i \in 1 .. Len(free), free[i] = c
        PROVE  \E p \in Places(c) : Places(c) = {p}
    <3>1. c \notin connClosed /\ ~ \E g \in Clients : Using(g) /\ conn[g] = c
      BY Zenon, <2>2 DEF FreeUnused
    <3>2. \A j \in 1 .. Len(free) : free[j] = c <=> j = i
      BY Zenon, <2>2 DEF FreeOnce
    <3>3. Places(c) = {<<"free", i>>}
      BY Zenon, <2>2, <3>1, <3>2 DEF Places
    <3> QED
      BY Zenon, <3>3
  <2>3. ASSUME NEW g \in Clients, Using(g), conn[g] = c
        PROVE  \E p \in Places(c) : Places(c) = {p}
    <3>1. c \notin connClosed /\ ~ \E i \in 1 .. Len(free) : free[i] = c
      BY Zenon, <2>3 DEF FreeUnused, HeldOnce
    <3>2. \A h \in Clients : Using(h) /\ conn[h] = c <=> h = g
      BY Zenon, <2>3 DEF HeldOnce
    <3>3. Places(c) = {<<"client", g>>}
      BY Zenon, <2>3, <3>1, <3>2 DEF Places
    <3> QED
      BY Zenon, <3>3
  <2> QED
    BY Zenon, <2>0, <2>1, <2>2, <2>3 DEF NothingLost
<1> QED
  BY <1>1, Invariance, PTL

\* What Take hands out is clean: no doneCh, watcher, cancel function or row is
\* left from the client that had the connection before.
THEOREM CleanHandover == Spec => []IdleIsClean
<1>1. IInv => IdleIsClean
  <2> SUFFICES ASSUME IInv, NEW i \in 1 .. Len(free)
               PROVE  /\ doneCh[free[i]] = 0
                      /\ all[free[i]] = 0
                      /\ free[i] \notin activeRow
                      /\ \A w \in watchers : w.conn # free[i]
    BY Zenon DEF IdleIsClean
  <2>1. doneCh[free[i]] = 0 /\ all[free[i]] = 0 /\ free[i] \notin activeRow
    BY Zenon DEF IInv, CleanInv, Clean
  <2>2. \A w \in watchers : w.conn # free[i]
    BY Zenon DEF IInv, WatchInv, OwnInv, FreeUnused, Using
  <2> QED
    BY Zenon, <2>1, <2>2
<1> QED
  BY <1>1, Invariance, PTL

\* An interrupt can reach a connection only for the Take that has it now.
THEOREM InterruptsAreCurrent == Spec => []InterruptFollowsTaker
<1>1. IInv => InterruptFollowsTaker
  BY Zenon DEF IInv, WatchInv, OwnInv, HeldOnce, Using, InterruptFollowsTaker
<1> QED
  BY <1>1, Invariance, PTL

\* prepare is called until it succeeds once, and before anybody gets the
\* connection.
THEOREM PrepareProtocol == Spec => []PreparedOnce
<1>1. IInv => PreparedOnce
  BY Zenon DEF IInv
<1> QED
  BY <1>1, Invariance, PTL

\* Every context that Take makes is cancelled by put or by Close.
THEOREM NoContextLeak == Spec => []ContextsReleased
<1>1. IInv => ContextsReleased
  BY Zenon DEF IInv, CtxInv
<1> QED
  BY <1>1, Invariance, PTL

\* When Close returns, all the connections are closed, nobody has one and no
\* watcher runs.
THEOREM CloseIsComplete == Spec => []ClosedForGood
<1>1. IInv => ClosedForGood
  <2> SUFFICES ASSUME IInv, stage = "done"
               PROVE  /\ connClosed = 1 .. opened
                      /\ free = <<>>
                      /\ watchers = {}
                      /\ \A g \in Clients : ~Using(g)
    BY Zenon DEF ClosedForGood
  <2> USE DEF IInv
  <2>0. opened \in Nat /\ connClosed \subseteq 1 .. opened
    BY DEF TypeOK, Conns, OwnInv, ClosedWasOpen
  <2>1. connClosed = 1 .. opened
    <3>1. Cardinality(connClosed) = opened
      BY Zenon DEF CloseInv
    <3>2. IsFiniteSet(1 .. opened) /\ Cardinality(1 .. opened) = opened
      BY <2>0, FS_Interval
    <3> QED
      BY Zenon, <2>0, <3>1, <3>2, FS_Subset
  <2>2. \A g \in Clients : ~Using(g)
    BY <2>0, <2>1 DEF OwnInv, HeldOnce, TypeOK, Conns
  <2>3. watchers = {}
    BY Zenon, <2>2 DEF WatchInv, Using
  <2>4. free = <<>>
    <3>1. ASSUME NEW i \in 1 .. Len(free) PROVE FALSE
      <4>1. free[i] \in Conns
        BY DEF TypeOK
      <4>2. free[i] <= opened /\ free[i] \notin 1 .. opened
        BY Zenon, <2>1 DEF OwnInv, FreeUnused
      <4> QED
        BY <4>1, <4>2, <2>0 DEF Conns
    <3>2. Len(free) \in Nat /\ (Len(free) = 0 => free = <<>>)
      BY Zenon, Lengths DEF TypeOK
    <3> QED
      BY <3>1, <3>2
  <2> QED
    BY Zenon, <2>1, <2>2, <2>3, <2>4
<1> QED
  BY <1>1, Invariance, PTL

-----------------------------------------------------------------------------
(***************************************************************************)
(* Pool implements PoolLease.                                              *)
(***************************************************************************)

\* What the refinement mapping says about a connection.
HolderFacts ==
    /\ holder = [c \in Conns |-> holder[c]]
    /\ \A c \in Conns :
          /\ c > opened => holder[c] = "unopened"
          /\ c <= opened /\ c \in connClosed => holder[c] = "closed"
          /\ \A g \in Clients : Using(g) /\ conn[g] = c => holder[c] = g
          /\ c <= opened /\ c \notin connClosed
                /\ (\A g \in Clients : ~(Using(g) /\ conn[g] = c))
                => holder[c] = "free"

\* The refinement mapping agrees with the free channel, the clients and the
\* closed connections.
LEMMA HolderLemma == OwnInv /\ OwnTypes => HolderFacts
<1> SUFFICES ASSUME OwnInv, OwnTypes PROVE HolderFacts
  BY Zenon
<1>1. holder = [c \in Conns |-> holder[c]]
  BY Zenon DEF holder
<1>2. ASSUME NEW c \in Conns
      PROVE  /\ c > opened => holder[c] = "unopened"
             /\ c <= opened /\ c \in connClosed => holder[c] = "closed"
             /\ c <= opened /\ c \notin connClosed
                   /\ (\A g \in Clients : ~(Using(g) /\ conn[g] = c))
                   => holder[c] = "free"
  BY DEF holder, OwnTypes, Conns
<1>3. ASSUME NEW c \in Conns, NEW g \in Clients, Using(g), conn[g] = c
      PROVE  holder[c] = g
  <2>1. c <= opened /\ c \notin connClosed
    BY Zenon, <1>3 DEF OwnInv, HeldOnce
  <2>2. \A h \in Clients : Using(h) /\ conn[h] = c => h = g
    BY Zenon, <1>3 DEF OwnInv, HeldOnce
  <2>3. holder[c] = CHOOSE h \in Clients : Using(h) /\ conn[h] = c
    BY <1>3, <2>1 DEF holder, OwnTypes, Conns
  <2> QED
    BY Zenon, <1>3, <2>2, <2>3
<1> QED
  BY Zenon, <1>1, <1>2, <1>3 DEF HolderFacts

\* Who has connection d changes only when a client takes or returns d, or when d
\* is opened or closed.
LEMMA HolderOther ==
    ASSUME HolderFacts, HolderFacts', OwnTypes,
           NEW d \in Conns,
           UNCHANGED opened,
           d \in connClosed' <=> d \in connClosed,
           \A h \in Clients :
               Using(h)' /\ conn'[h] = d <=> Using(h) /\ conn[h] = d
    PROVE  holder'[d] = holder[d]
<1> opened \in Nat /\ d \in Nat
  BY DEF OwnTypes, Conns
<1>1. CASE d > opened
  BY <1>1 DEF HolderFacts
<1>2. CASE d <= opened /\ d \in connClosed
  BY <1>2 DEF HolderFacts
<1>3. CASE \E h \in Clients : Using(h) /\ conn[h] = d
  BY <1>3 DEF HolderFacts
<1>4. CASE /\ d <= opened
           /\ d \notin connClosed
           /\ \A h \in Clients : ~(Using(h) /\ conn[h] = d)
  BY Zenon, <1>4 DEF HolderFacts
<1> QED
  BY <1>1, <1>2, <1>3, <1>4

\* The mapping changes only with the variables ownership depends on.
LEMMA HolderFrame ==
    ASSUME HolderFacts, HolderFacts', OwnTypes,
           UNCHANGED <<opened, connClosed, conn>>,
           \A g \in Clients : Using(g)' <=> Using(g)
    PROVE  holder' = holder
<1>1. ASSUME NEW c \in Conns PROVE holder'[c] = holder[c]
  BY Zenon, HolderOther
<1> QED
  BY Zenon, <1>1 DEF HolderFacts

\* Every step of the pool leases, returns, opens or retires one connection, shuts
\* the pool, or changes nothing that PoolLease sees.
THEOREM PoolImplementsLease == Spec => ImplementsLease
<1>1. Init => Lease!Init
  BY PoolAssumption DEF Init, Lease!Init, holder, Closed, Conns
<1>2. IInv /\ IInv' /\ [Next]_vars => [Lease!Next]_(Lease!leaseVars)
  <2> SUFFICES ASSUME IInv, IInv', [Next]_vars
               PROVE  Lease!Next \/ UNCHANGED <<holder, Closed>>
    BY Zenon DEF Lease!leaseVars
  <2>a. OwnInv /\ OwnTypes /\ OwnInv' /\ OwnTypes'
    BY Zenon DEF IInv, TypeOK, OwnTypes
  <2>b. HolderFacts /\ HolderFacts'
    BY <2>a, HolderLemma, PTL
  <2>c. ASSUME UNCHANGED <<opened, connClosed, conn>>,
               \A g \in Clients : Using(g)' <=> Using(g)
        PROVE  holder' = holder
    BY Zenon, <2>a, <2>b, <2>c, HolderFrame
  <2>d. ASSUME UNCHANGED <<opened, connClosed, conn, pc>>
        PROVE  holder' = holder
    <3>1. \A g \in Clients : Using(g)' <=> Using(g)
      BY Zenon, <2>d DEF Using
    <3> QED
      BY Zenon, <3>1, <2>d, <2>c
  <2> USE <2>a DEF poolVars, connVars, ctxVars, clientVars, Goto
  <2>1. ASSUME NEW g \in Clients, Client(g)
        PROVE  Lease!Next \/ UNCHANGED <<holder, Closed>>
    <3>1. CASE TakeReceives(g)
      <4> DEFINE c == free[1]
      <4>1. /\ ~Using(g)
            /\ c \in Conns
            /\ c <= opened
            /\ c \notin connClosed
            /\ \A h \in Clients : ~(Using(h) /\ conn[h] = c)
        BY SMTT(40), <3>1 DEF TakeReceives, Using, OwnTypes, OwnInv, FreeUnused
      <4>2. /\ Using(g)'
            /\ conn'[g] = c
            /\ UNCHANGED <<opened, connClosed>>
            /\ \A h \in Clients \ {g} : (Using(h)' <=> Using(h)) /\ conn'[h] = conn[h]
        BY SMTT(40), <3>1 DEF TakeReceives, Using, OwnTypes
      <4>3. holder[c] = "free" /\ holder'[c] = g
        BY Zenon, <4>1, <4>2, <2>b DEF HolderFacts
      <4>4. \A d \in Conns : holder[d] # g
        <5> SUFFICES ASSUME NEW d \in Conns PROVE holder[d] # g
          BY Zenon
        <5> opened \in Nat /\ d \in Nat
          BY DEF OwnTypes, Conns
        <5>1. CASE \E h \in Clients : Using(h) /\ conn[h] = d
          BY SMTT(40), <5>1, <4>1, <2>b DEF HolderFacts
        <5>2. CASE ~ \E h \in Clients : Using(h) /\ conn[h] = d
          <6>1. holder[d] \in {"unopened", "closed", "free"}
            BY <5>2, <2>b DEF HolderFacts
          <6> QED
            BY Zenon, <6>1, ClientsAssumption
        <5> QED
          BY Zenon, <5>1, <5>2
      <4>5. ASSUME NEW d \in Conns \ {c} PROVE holder'[d] = holder[d]
        BY Zenon, <4>1, <4>2, <2>b, HolderOther
      <4>6. holder' = [holder EXCEPT ![c] = g]
        BY SMTT(40), <4>1, <4>3, <4>5, <2>b DEF HolderFacts
      <4>7. Closed' = Closed
        BY Zenon, <3>1 DEF TakeReceives, Closed
      <4>8. Lease!Lend(c, g)
        BY Zenon, <4>3, <4>4, <4>6, <4>7 DEF Lease!Lend, Lease!Give
      <4> QED
        BY Zenon, <4>1, <4>8 DEF Lease!Next
    <3>2. CASE PutSend(g)
      <4> DEFINE c == conn[g]
      <4>1. /\ Using(g)
            /\ c \in Conns
            /\ c <= opened
            /\ c \notin connClosed
            /\ \A h \in Clients : Using(h) /\ conn[h] = c => h = g
        BY Zenon, <3>2 DEF PutSend, Using, OwnTypes, OwnInv, HeldOnce
      <4>2. /\ ~Using(g)'
            /\ UNCHANGED <<opened, connClosed, conn>>
            /\ \A h \in Clients \ {g} : Using(h)' <=> Using(h)
        BY Zenon, <3>2 DEF PutSend, Using, OwnTypes
      <4>3. holder[c] = g /\ holder'[c] = "free"
        BY SMTT(40), <4>1, <4>2, <2>b DEF HolderFacts
      <4>4. ASSUME NEW d \in Conns \ {c} PROVE holder'[d] = holder[d]
        BY Zenon, <4>1, <4>2, <2>b, HolderOther
      <4>5. holder' = [holder EXCEPT ![c] = "free"]
        BY <4>1, <4>3, <4>4, <2>b DEF HolderFacts
      <4>6. Closed' = Closed
        BY Zenon, <3>2 DEF PutSend, Closed
      <4>7. Lease!Return(c, g)
        BY Zenon, <4>3, <4>5, <4>6 DEF Lease!Return, Lease!Give
      <4> QED
        BY Zenon, <4>1, <4>7 DEF Lease!Next
    <3>3. CASE TakeCall(g)
      <4>1. \A h \in Clients : Using(h)' <=> Using(h)
        BY Zenon, <3>3 DEF TakeCall, Using, OwnTypes
      <4> QED
        BY Zenon, <3>3, <4>1, <2>c DEF TakeCall, Closed
    <3>4. CASE ParentEnds(g)
      <4>1. \A h \in Clients : Using(h)' <=> Using(h)
        BY Zenon, <3>4 DEF ParentEnds, Using, OwnTypes
      <4> QED
        BY Zenon, <3>4, <4>1, <2>c DEF ParentEnds, Closed
    <3>5. CASE TakeFails(g)
      <4>1. \A h \in Clients : Using(h)' <=> Using(h)
        BY Zenon, <3>5 DEF TakeFails, Using, OwnTypes
      <4> QED
        BY Zenon, <3>5, <4>1, <2>c DEF TakeFails, Closed
    <3>6. CASE TakeInterrupt(g)
      <4>1. \A h \in Clients : Using(h)' <=> Using(h)
        BY Zenon, <3>6 DEF TakeInterrupt, SetInterrupt, Using, OwnTypes
      <4> QED
        BY Zenon, <3>6, <4>1, <2>c DEF TakeInterrupt, SetInterrupt, Closed
    <3>7. CASE TakeRecord(g)
      <4>1. \A h \in Clients : Using(h)' <=> Using(h)
        BY Zenon, <3>7 DEF TakeRecord, Using, OwnTypes
      <4> QED
        BY Zenon, <3>7, <4>1, <2>c DEF TakeRecord, Closed
    <3>8. CASE PrepareSucceeds(g)
      <4>1. \A h \in Clients : Using(h)' <=> Using(h)
        BY Zenon, <3>8 DEF PrepareSucceeds, Using, OwnTypes
      <4> QED
        BY Zenon, <3>8, <4>1, <2>c DEF PrepareSucceeds, Closed
    <3>9. CASE PrepareFails(g)
      <4>1. \A h \in Clients : Using(h)' <=> Using(h)
        BY Zenon, <3>9 DEF PrepareFails, Using, OwnTypes
      <4> QED
        BY Zenon, <3>9, <4>1, <2>c DEF PrepareFails, Closed
    <3>10. CASE StepRow(g)
      <4>1. \A h \in Clients : Using(h)' <=> Using(h)
        BY Zenon, <3>10 DEF StepRow, Using, OwnTypes
      <4> QED
        BY Zenon, <3>10, <4>1, <2>c DEF StepRow, Closed
    <3>11. CASE ResetRow(g)
      <4>1. \A h \in Clients : Using(h)' <=> Using(h)
        BY Zenon, <3>11 DEF ResetRow, Using, OwnTypes
      <4> QED
        BY Zenon, <3>11, <4>1, <2>c DEF ResetRow, Closed
    <3>12. CASE PutCall(g)
      <4>1. \A h \in Clients : Using(h)' <=> Using(h)
        BY Zenon, <3>12 DEF PutCall, Using, OwnTypes
      <4> QED
        BY Zenon, <3>12, <4>1, <2>c DEF PutCall, Closed
    <3>13. CASE PutSwap(g)
      <4>1. \A h \in Clients : Using(h)' <=> Using(h)
        BY Zenon, <3>13 DEF PutSwap, Using, OwnTypes
      <4> QED
        BY Zenon, <3>13, <4>1, <2>c DEF PutSwap, Closed
    <3>14. CASE PutInterrupt(g)
      <4>1. \A h \in Clients : Using(h)' <=> Using(h)
        BY Zenon, <3>14 DEF PutInterrupt, SetInterrupt, Using, OwnTypes
      <4> QED
        BY Zenon, <3>14, <4>1, <2>c DEF PutInterrupt, SetInterrupt, Closed
    <3>15. CASE PutCancel(g)
      <4>1. \A h \in Clients : Using(h)' <=> Using(h)
        BY Zenon, <3>15 DEF PutCancel, Using, OwnTypes
      <4> QED
        BY Zenon, <3>15, <4>1, <2>c DEF PutCancel, Closed
    <3> QED
      BY <2>1, <3>1, <3>2, <3>3, <3>4, <3>5, <3>6, <3>7, <3>8, <3>9, <3>10,
         <3>11, <3>12, <3>13, <3>14, <3>15 DEF Client, InTake, InPut
  <2>2. CASE OpenConn
    <3> DEFINE c == opened + 1
    <3>1. /\ opened \in Nat
          /\ c \in Conns
          /\ opened' = c
          /\ UNCHANGED <<connClosed, conn, pc>>
      BY <2>2, PoolAssumption DEF OpenConn, OwnTypes, Conns
    <3>2. \A h \in Clients : Using(h)' <=> Using(h)
      BY Zenon, <3>1 DEF Using
    <3>3. /\ c \notin connClosed
          /\ \A h \in Clients : ~(Using(h) /\ conn[h] = c)
      BY <3>1 DEF OwnInv, HeldOnce, ClosedWasOpen, OwnTypes, Conns
    <3>4. holder[c] = "unopened" /\ holder'[c] = "free"
      BY <3>1, <3>2, <3>3, <2>b DEF HolderFacts
    <3>5. ASSUME NEW d \in Conns \ {c} PROVE holder'[d] = holder[d]
      BY <3>1, <3>2, <2>b DEF HolderFacts, Conns
    <3>6. holder' = [holder EXCEPT ![c] = "free"]
      BY <3>1, <3>4, <3>5, <2>b DEF HolderFacts
    <3>7. ~Closed /\ Closed' = Closed
      BY Zenon, <2>2 DEF OpenConn, Closed
    <3>8. Lease!Open(c)
      BY Zenon, <3>4, <3>6, <3>7 DEF Lease!Open, Lease!Give
    <3> QED
      BY Zenon, <3>1, <3>8 DEF Lease!Next
  <2>3. CASE CloseConn
    <3> DEFINE c == free[1]
    <3>1. /\ c \in Conns
          /\ c <= opened
          /\ c \notin connClosed
          /\ \A h \in Clients : ~(Using(h) /\ conn[h] = c)
      BY SMTT(40), <2>3 DEF CloseConn, OwnTypes, OwnInv, FreeUnused
    <3>2. /\ connClosed' = connClosed \cup {c}
          /\ UNCHANGED <<opened, conn, pc>>
      BY <2>3 DEF CloseConn, OwnTypes
    <3>3. \A h \in Clients : Using(h)' <=> Using(h)
      BY Zenon, <3>2 DEF Using
    <3>4. holder[c] = "free" /\ holder'[c] = "closed"
      BY Zenon, <3>1, <3>2, <2>b DEF HolderFacts
    <3>5. ASSUME NEW d \in Conns \ {c} PROVE holder'[d] = holder[d]
      BY Zenon, <3>1, <3>2, <3>3, <2>b, HolderOther
    <3>6. holder' = [holder EXCEPT ![c] = "closed"]
      BY <3>1, <3>4, <3>5, <2>b DEF HolderFacts
    <3>7. Closed /\ Closed' = Closed
      BY Zenon, <2>3 DEF CloseConn, Closed
    <3>8. Lease!Retire(c)
      BY Zenon, <3>4, <3>6, <3>7 DEF Lease!Retire, Lease!Give
    <3> QED
      BY Zenon, <3>1, <3>8 DEF Lease!Next
  <2>4. CASE OpenFails \/ CloseCall
    <3>1. UNCHANGED <<opened, connClosed, conn, pc>>
      BY Zenon, <2>4 DEF OpenFails, CloseCall
    <3>2. ~Closed /\ Closed' = TRUE
      BY Zenon, <2>4 DEF OpenFails, CloseCall, Closed
    <3>3. holder' = holder
      BY Zenon, <3>1, <2>d
    <3>4. Lease!Shut
      BY Zenon, <3>2, <3>3 DEF Lease!Shut
    <3> QED
      BY Zenon, <3>4 DEF Lease!Next
  <2>5. CASE NewPoolReturns \/ CloseSnapshot \/ CloseCancel
             \/ CloseCancelled \/ CloseReturns \/ NewPoolFailed
    <3>1. CASE NewPoolReturns
      <4>1. UNCHANGED <<opened, connClosed, conn, pc>> /\ Closed' = Closed
        BY <3>1 DEF NewPoolReturns, Closed
      <4> QED
        BY Zenon, <4>1, <2>d
    <3>2. CASE CloseSnapshot
      <4>1. UNCHANGED <<opened, connClosed, conn, pc>> /\ Closed' = Closed
        BY SMTT(40), <3>2 DEF CloseSnapshot, Closed
      <4> QED
        BY Zenon, <4>1, <2>d
    <3>3. CASE CloseCancel
      <4>1. UNCHANGED <<opened, connClosed, conn, pc>> /\ Closed' = Closed
        BY Zenon, <3>3 DEF CloseCancel, Closed
      <4> QED
        BY Zenon, <4>1, <2>d
    <3>4. CASE CloseCancelled
      <4>1. UNCHANGED <<opened, connClosed, conn, pc>> /\ Closed' = Closed
        BY <3>4 DEF CloseCancelled, Closed
      <4> QED
        BY Zenon, <4>1, <2>d
    <3>5. CASE CloseReturns
      <4>1. UNCHANGED <<opened, connClosed, conn, pc>> /\ Closed' = Closed
        BY <3>5 DEF CloseReturns, Closed
      <4> QED
        BY Zenon, <4>1, <2>d
    <3>6. CASE NewPoolFailed
      <4>1. UNCHANGED <<opened, connClosed, conn, pc>> /\ Closed' = Closed
        BY Zenon, <3>6 DEF NewPoolFailed, vars, Closed
      <4> QED
        BY Zenon, <4>1, <2>d
    <3> QED
      BY Zenon, <2>5, <3>1, <3>2, <3>3, <3>4, <3>5, <3>6
  <2>6. ASSUME NEW w \in watchers, WatcherWakes(w) \/ WatcherInterrupts(w)
        PROVE  UNCHANGED <<holder, Closed>>
    <3>1. UNCHANGED <<opened, connClosed, conn, pc>> /\ Closed' = Closed
      BY Zenon, <2>6 DEF WatcherWakes, WatcherInterrupts, Closed
    <3> QED
      BY Zenon, <3>1, <2>d
  <2>7. CASE UNCHANGED vars
    <3>1. UNCHANGED <<opened, connClosed, conn, pc>> /\ Closed' = Closed
      BY Zenon, <2>7 DEF vars, Closed
    <3> QED
      BY Zenon, <3>1, <2>d
  <2> QED
    BY Zenon, <2>1, <2>2, <2>3, <2>4, <2>5, <2>6, <2>7
       DEF Next, Open, Closing, Watcher
<1> QED
  BY <1>1, <1>2, Invariance, PTL DEF Spec, ImplementsLease, Lease!Spec
=============================================================================
