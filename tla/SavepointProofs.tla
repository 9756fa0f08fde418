-------------------------- MODULE SavepointProofs ---------------------------
(***************************************************************************)
(* Proofs about Savepoint for any number of scopes, names and writes: Save *)
(* and Transaction are atomic, and a release function gives doneCh back.   *)
(* SQLite knows its savepoints by name only and the functions by position, *)
(* and names may repeat; the inductive invariant says which scope each     *)
(* entry of SQLite's stack belongs to, and which writes lie above it.      *)
(***************************************************************************)
EXTENDS Savepoint, TLAPS

\* The names on the stack of SQLite, and the values of the variables.
SpNames == Names \cup {"BEGIN"}
ScopeRec == [id : Nat, kind : {"save", "script", "txn"}, name : SpNames,
             pc : {"body", "release", "rollback", "ret"}, begun : BOOLEAN, err : BOOLEAN,
             panic : BOOLEAN, old : {"none", "nil", "ch"}, ch : {"nil", "ch"},
             outermost : BOOLEAN, forgiven : BOOLEAN, own : Nat]
WriteRec == [n : Nat, by : Nat, scopes : SUBSET Nat]
Entry == [name : SpNames, mark : Nat]

SpTypes ==
    /\ sps \in Seq(Entry) /\ pending \in Seq(WriteRec)
    /\ durable \in SUBSET WriteRec
    /\ scopes \in Seq(ScopeRec) /\ opened \in Nat
    /\ doneCh \in {"nil", "ch"} /\ chClosed \in BOOLEAN

\* Only the innermost scope ends, and it holds doneCh only while it rolls back.
Holds == scopes # <<>> /\ Top.pc = "rollback" /\ Top.old # "none"
\* Which phase a scope can be in: only the innermost one ends, a scope that was
\* not begun found doneCh closed, and doneCh is away only while the innermost
\* scope rolls back.
Phases ==
    /\ \A i \in 1 .. Len(scopes) :
          /\ i < Len(scopes) => scopes[i].pc = "body"
          /\ scopes[i].pc \in {"body", "release"} => scopes[i].old = "none"
          /\ scopes[i].ch = "ch"
          /\ ~scopes[i].begun => chClosed
          /\ scopes[i].pc = "rollback" => scopes[i].err \/ scopes[i].panic
    /\ Holds => doneCh = "nil" /\ Top.old = "ch"
    /\ ~Holds => doneCh = "ch"

\* Scopes are numbered in the order in which they were opened, and a write
\* knows the scopes around it.
Ids ==
    /\ \A i \in 1 .. Len(scopes) : scopes[i].id \in 1 .. opened
    /\ \A i, k \in 1 .. Len(scopes) : i < k => scopes[i].id < scopes[k].id
    /\ \A w \in AllWrites : w.by <= opened /\ w.scopes \subseteq 1 .. opened

\* The outer f scopes are forgiven: SQLite or the body has ended their
\* transaction. The ones inside them are on the stack of SQLite, one entry each
\* and in order; those further in were not begun, or have ended.
Stack(f) ==
    /\ f + Len(sps) <= Len(scopes)
    /\ \A i \in 1 .. Len(scopes) :
          /\ scopes[i].forgiven <=> i <= f
          /\ scopes[i].pc = "rollback" => i > f
    /\ \A i \in f + 1 .. Len(scopes) :
          /\ i <= f + Len(sps) =>
               /\ scopes[i].begun /\ scopes[i].pc # "ret" /\ sps[i - f].name = scopes[i].name
               /\ scopes[i].outermost \/ scopes[i].kind = "txn" => i = f + 1
          /\ i > f + Len(sps) =>
               /\ ~scopes[i].begun \/ scopes[i].pc = "ret"
               /\ scopes[i].pc # "rollback"

\* An entry of the stack separates what was written before its scope from what
\* was written within; the writes of a scope on the stack are not durable, and
\* its own ones are all there.
Marks(f) ==
    /\ sps = <<>> => pending = <<>>
    /\ sps # <<>> => sps[1].mark = 0
    /\ \A j, k \in 1 .. Len(sps) : j <= k => sps[j].mark <= sps[k].mark
    /\ \A j \in 1 .. Len(sps) :
          /\ sps[j].mark <= Len(pending)
          /\ \A k \in 1 .. Len(pending) :
                /\ k <= sps[j].mark => scopes[f + j].id \notin pending[k].scopes
                /\ k > sps[j].mark => pending[k].by >= scopes[f + j].id
          /\ WritesOf(scopes[f + j].id, durable) = {}
          /\ Written(scopes[f + j].id, scopes[f + j].own, AllWrites)
    /\ \A i \in f + 1 .. Len(scopes) :
          ~scopes[i].begun => WritesOf(scopes[i].id, AllWrites) = {}

\* What has become of the writes of a scope that is about to return: none is
\* left after an error, and after none its own are there.
Returned ==
    scopes # <<>> /\ Top.pc = "ret" /\ ~Top.forgiven =>
       IF Top.err \/ Top.panic THEN WritesOf(Top.id, AllWrites) = {}
       ELSE /\ Written(Top.id, Top.own, AllWrites)
            /\ Top.outermost => WritesOf(Top.id, Range(pending)) = {}

\* The inductive invariant: some number f of the outer scopes is forgiven, and
\* the others match the stack of SQLite.
SpInv == /\ SpTypes /\ Phases /\ Ids /\ Returned
         /\ \E f \in 0 .. Len(scopes) : Stack(f) /\ Marks(f)

\* What the end of a scope does not change of its record.
Kept(a, b) == /\ a.id = b.id /\ a.kind = b.kind /\ a.name = b.name /\ a.begun = b.begun
              /\ a.ch = b.ch /\ a.outermost = b.outermost

\* A prefix of a sequence.
LEMMA CutTo ==
  ASSUME NEW S, NEW s \in Seq(S), NEW n \in 0 .. Len(s)
  PROVE  /\ SubSeq(s, 1, n) \in Seq(S) /\ Len(SubSeq(s, 1, n)) = n
         /\ \A i \in 1 .. n : SubSeq(s, 1, n)[i] = s[i]
  OBVIOUS

\* A sequence with one more element.
LEMMA LongerBy ==
  ASSUME NEW S, NEW s \in Seq(S), NEW e \in S
  PROVE  /\ Append(s, e) \in Seq(S) /\ Len(Append(s, e)) = Len(s) + 1
         /\ \A i \in 1 .. Len(s) : Append(s, e)[i] = s[i]
         /\ Append(s, e)[Len(s) + 1] = e
  OBVIOUS

\* Writes that are there stay there while those of their body do.
LEMMA StillWritten ==
  ASSUME NEW x, NEW k, NEW ws, NEW vs, Written(x, k, ws), \A w \in ws : w.by = x => w \in vs
  PROVE  Written(x, k, vs)
  BY Zenon DEF Written

\* The innermost scope.
LEMMA TopIs == ASSUME SpTypes, scopes # <<>>
               PROVE  Len(scopes) \in Nat \ {0} /\ Top \in ScopeRec /\ Top = scopes[Len(scopes)]
  BY DEF SpTypes, Top

\* t is s with r in the place of its last element.
LastBecomes(s, t, r) == t = [s EXCEPT ![Len(s)] = r]

\* The elements of a sequence whose last one is replaced.
LEMMA Replaced ==
  ASSUME NEW S, NEW s \in Seq(S), s # <<>>, NEW r \in S,
         NEW t, LastBecomes(s, t, r)
  PROVE  /\ t \in Seq(S) /\ Len(t) = Len(s) /\ t[Len(s)] = r /\ t # <<>>
         /\ \A i \in 1 .. Len(s) : i < Len(s) => t[i] = s[i]
  BY DEF LastBecomes

\* The innermost scope is replaced by r.
Replace(r) == scopes' = [scopes EXCEPT ![Len(scopes)] = r]

\* The innermost scope becomes r, and nothing but doneCh changes beside it.
TopBecomes(r) ==
    /\ scopes # <<>> /\ scopes' = [scopes EXCEPT ![Len(scopes)] = r] /\ r \in ScopeRec
    /\ Kept(r, Top) /\ r.forgiven = Top.forgiven /\ r.own = Top.own
    /\ UNCHANGED <<sps, pending, durable, opened, chClosed>>

\* What the replacement of the innermost scope leaves as it was.
LEMMA NewTop ==
  ASSUME SpTypes, NEW r, TopBecomes(r)
  PROVE  /\ Len(scopes) \in Nat \ {0} /\ Len(scopes') = Len(scopes) /\ scopes' \in Seq(ScopeRec)
         /\ Top' = r /\ scopes' # <<>> /\ scopes'[Len(scopes)] = r /\ Top = scopes[Len(scopes)]
         /\ \A i \in 1 .. Len(scopes) :
               /\ i < Len(scopes) => scopes'[i] = scopes[i]
               /\ Kept(scopes'[i], scopes[i]) /\ scopes'[i].forgiven = scopes[i].forgiven
               /\ scopes'[i].own = scopes[i].own
  <1>1. scopes \in Seq(ScopeRec) /\ scopes # <<>> /\ r \in ScopeRec
    BY Zenon DEF SpTypes, TopBecomes
  <1>2. /\ scopes' \in Seq(ScopeRec) /\ Len(scopes') = Len(scopes) /\ scopes'[Len(scopes)] = r
        /\ scopes' # <<>> /\ \A i \in 1 .. Len(scopes) : i < Len(scopes) => scopes'[i] = scopes[i]
    BY <1>1, Replaced DEF TopBecomes, LastBecomes
  <1>3. Len(scopes) \in Nat \ {0} /\ Top = scopes[Len(scopes)]
    BY Zenon, <1>1, TopIs
  <1>4. Top' = r  BY Zenon, <1>2 DEF Top
  <1>5. ASSUME NEW i \in 1 .. Len(scopes)
        PROVE  /\ Kept(scopes'[i], scopes[i]) /\ scopes'[i].forgiven = scopes[i].forgiven
               /\ scopes'[i].own = scopes[i].own
    <2>1. CASE i < Len(scopes)  BY Zenon, <1>2, <2>1 DEF Kept
    <2>2. CASE i = Len(scopes)  BY Zenon, <1>2, <1>3, <2>2 DEF TopBecomes
    <2> QED  BY <1>3, <2>1, <2>2
  <1> QED  BY Zenon, <1>2, <1>3, <1>4, <1>5

\* The identifiers and the numbers do not depend on how the scopes end.
LEMMA IdsKept ==
  ASSUME SpTypes, Ids, opened' = opened, Len(scopes') \in 0 .. Len(scopes),
         \A i \in 1 .. Len(scopes') : scopes'[i].id = scopes[i].id,
         AllWrites' \subseteq AllWrites
  PROVE  Ids'
  <1>1. \A i \in 1 .. Len(scopes') : i \in 1 .. Len(scopes)  BY DEF SpTypes
  <1>2. \A i \in 1 .. Len(scopes') : scopes'[i].id \in 1 .. opened'
    BY Zenon, <1>1 DEF Ids
  <1>3. \A i, k \in 1 .. Len(scopes') : i < k => scopes'[i].id < scopes'[k].id
    BY Zenon, <1>1 DEF Ids
  <1>4. \A w \in AllWrites' : w.by <= opened' /\ w.scopes \subseteq 1 .. opened'
    BY Zenon DEF Ids
  <1> QED  BY Zenon, <1>2, <1>3, <1>4 DEF Ids

\* The innermost scope changes its phase and the stack of SQLite stays as it
\* is.
LEMMA StackKept ==
  ASSUME SpTypes, NEW f \in 0 .. Len(scopes), Stack(f), Marks(f), NEW r, TopBecomes(r),
         r.pc = "rollback" => Top.begun /\ ~Top.forgiven /\ Top.pc # "ret",
         r.pc = "ret" => Top.forgiven \/ ~Top.begun \/ Top.pc = "ret",
         Top.pc = "ret" => r.pc = "ret"
  PROVE  Stack(f)' /\ Marks(f)'
  <1> DEFINE m == Len(scopes)
  <1>1. /\ m \in Nat \ {0} /\ Len(scopes') = m /\ scopes'[m] = r /\ Top = scopes[m]
        /\ \A i \in 1 .. m :
               /\ i < m => scopes'[i] = scopes[i]
               /\ Kept(scopes'[i], scopes[i]) /\ scopes'[i].forgiven = scopes[i].forgiven
               /\ scopes'[i].own = scopes[i].own
    BY Zenon, NewTop
  <1>2. sps' = sps /\ pending' = pending /\ durable' = durable
    BY Zenon DEF TopBecomes
  <1>3. f \in Int /\ 0 <= f /\ f <= m /\ Len(sps) \in Nat /\ f + Len(sps) <= m
    BY <1>1 DEF Stack, SpTypes
  <1> HIDE DEF m
  <1>4. \A i \in 1 .. m : /\ scopes'[i].forgiven <=> i <= f
                          /\ scopes'[i].pc = "rollback" => i > f
    <2> TAKE i \in 1 .. m
    <2>0. scopes[i].forgiven <=> i <= f  BY Zenon, <1>1 DEF Stack, m
    <2>1. scopes'[i].forgiven <=> i <= f  BY Zenon, <1>1, <2>0
    <2>2. CASE i < m  BY Zenon, <1>1, <2>0, <2>1, <2>2 DEF Stack, m
    <2>3. CASE i = m  BY <1>1, <1>3, <2>0, <2>1, <2>3
    <2> QED  BY <1>1, <2>2, <2>3
  <1>5. ASSUME NEW i \in f + 1 .. m
        PROVE  /\ i <= f + Len(sps) =>
                    /\ scopes'[i].begun /\ scopes'[i].pc # "ret" /\ sps[i - f].name = scopes'[i].name
                    /\ scopes'[i].outermost \/ scopes'[i].kind = "txn" => i = f + 1
               /\ i > f + Len(sps) =>
                    /\ ~scopes'[i].begun \/ scopes'[i].pc = "ret"
                    /\ scopes'[i].pc # "rollback"
    <2>1. i \in 1 .. m /\ ~(i <= f)  BY <1>3
    <2>2. /\ i <= f + Len(sps) =>
                    /\ scopes[i].begun /\ scopes[i].pc # "ret" /\ sps[i - f].name = scopes[i].name
                    /\ scopes[i].outermost \/ scopes[i].kind = "txn" => i = f + 1
          /\ i > f + Len(sps) =>
                    /\ ~scopes[i].begun \/ scopes[i].pc = "ret"
                    /\ scopes[i].pc # "rollback"
          /\ ~scopes[i].forgiven
      BY Zenon, <2>1 DEF Stack, m
    <2>3. Kept(scopes'[i], scopes[i])  BY Zenon, <1>1, <2>1
    <2>4. CASE i < m  BY <1>1, <2>1, <2>2, <2>4
    <2>5. CASE i = m
      <3>1. scopes'[i] = r /\ scopes[i] = Top  BY Zenon, <1>1, <2>5
      <3> QED  BY Zenon, <1>3, <2>2, <2>3, <3>1 DEF Kept
    <2> QED  BY <1>1, <2>1, <2>4, <2>5
  <1>6. Stack(f)'  BY Zenon, <1>1, <1>2, <1>3, <1>4, <1>5 DEF Stack
  <1>7. \A i \in 1 .. m : /\ scopes'[i].id = scopes[i].id /\ scopes'[i].own = scopes[i].own
                          /\ scopes'[i].begun = scopes[i].begun
    BY Zenon, <1>1 DEF Kept
  <1>8. Marks(f)'
    <2>1. ASSUME NEW j \in 1 .. Len(sps)  PROVE f + j \in 1 .. m
      <3>1. j \in Int /\ 1 <= j /\ j <= Len(sps)  BY <1>3
      <3> QED  BY <1>1, <1>3, <3>1
    <2>2. \A i \in f + 1 .. m : i \in 1 .. m  BY <1>3
    <2>3. AllWrites' = AllWrites  BY Zenon, <1>2 DEF AllWrites
    <2> QED  BY <1>1, <1>2, <1>7, <2>1, <2>2, <2>3 DEF Marks, WritesOf, m
  <1> QED  BY Zenon, <1>6, <1>8

\* What TopBecomes leaves to show.
LEMMA TopStep ==
  ASSUME SpInv, NEW r, TopBecomes(r), doneCh' \in {"nil", "ch"},
         r.pc \in {"body", "release"} => r.old = "none",
         r.pc = "rollback" => /\ Top.begun /\ ~Top.forgiven /\ Top.pc # "ret"
                              /\ r.err \/ r.panic,
         r.pc = "rollback" /\ r.old # "none" => doneCh' = "nil" /\ r.old = "ch",
         ~(r.pc = "rollback" /\ r.old # "none") => doneCh' = "ch",
         r.pc = "ret" => (Top.forgiven \/ ~Top.begun) /\ (r.err \/ r.panic \/ Top.forgiven),
         Top.pc # "ret"
  PROVE  SpInv'
  <1>1. SpTypes /\ Phases /\ Ids  BY Zenon DEF SpInv
  <1>2. PICK f \in 0 .. Len(scopes) : Stack(f) /\ Marks(f)  BY Zenon DEF SpInv
  <1> DEFINE m == Len(scopes)
  <1>3. /\ m \in Nat \ {0} /\ Len(scopes') = m /\ scopes' \in Seq(ScopeRec)
        /\ Top' = r /\ scopes' # <<>> /\ scopes'[m] = r /\ Top = scopes[m]
        /\ \A i \in 1 .. m : /\ i < m => scopes'[i] = scopes[i]
                             /\ Kept(scopes'[i], scopes[i])
    BY Zenon, <1>1, NewTop
  <1>4. /\ sps' = sps /\ pending' = pending /\ durable' = durable /\ opened' = opened
        /\ chClosed' = chClosed
    BY Zenon DEF TopBecomes
  <1>5. SpTypes'  BY Zenon, <1>1, <1>3, <1>4 DEF SpTypes
  <1>6. AllWrites' = AllWrites  BY Zenon, <1>4 DEF AllWrites
  <1>7. Ids'
    <2>1. Len(scopes') \in 0 .. Len(scopes)  BY <1>3
    <2>2. \A i \in 1 .. Len(scopes') : scopes'[i].id = scopes[i].id
      BY Zenon, <1>3 DEF Kept
    <2> QED  BY Zenon, <1>1, <1>4, <1>6, <2>1, <2>2, IdsKept
  <1>9. Phases'
    <2>1. ASSUME NEW i \in 1 .. m
          PROVE  /\ i < m => scopes'[i].pc = "body"
                 /\ scopes'[i].pc \in {"body", "release"} => scopes'[i].old = "none"
                 /\ scopes'[i].ch = "ch"
                 /\ ~scopes'[i].begun => chClosed'
                 /\ scopes'[i].pc = "rollback" => scopes'[i].err \/ scopes'[i].panic
      <3>1. CASE i < m  BY Zenon, <1>1, <1>3, <1>4, <3>1 DEF Phases
      <3>2. CASE i = m
        <4>1. scopes'[i] = r  BY Zenon, <1>3, <3>2
        <4>2. scopes[i].ch = "ch" /\ (~scopes[i].begun => chClosed)
          BY Zenon, <1>1 DEF Phases
        <4>3. r.ch = scopes[i].ch /\ r.begun = scopes[i].begun
          BY Zenon, <1>3, <4>1 DEF Kept
        <4> QED  BY <1>4, <3>2, <4>1, <4>2, <4>3
      <3> QED  BY <1>3, <3>1, <3>2
    <2>2. Holds' <=> (r.pc = "rollback" /\ r.old # "none")  BY Zenon, <1>3 DEF Holds
    <2> HIDE DEF m
    <2> QED  BY Zenon, <1>3, <2>1, <2>2 DEF Phases
  <1>10. Stack(f)' /\ Marks(f)'  BY Zenon, <1>1, <1>2, StackKept
  <1>11. Returned'
    <2> SUFFICES ASSUME r.pc = "ret", ~r.forgiven
                 PROVE  (r.err \/ r.panic) /\ WritesOf(r.id, AllWrites) = {}
      BY Zenon, <1>3, <1>6 DEF Returned, WritesOf
    <2>1. r.forgiven = Top.forgiven /\ r.id = Top.id  BY Zenon DEF TopBecomes, Kept
    <2>2. ~Top.begun /\ ~Top.forgiven  BY Zenon, <2>1
    <2>3. m \in f + 1 .. Len(scopes)
      <3>1. ~(m <= f)  BY <1>2, <1>3, <2>2 DEF Stack
      <3> QED  BY <1>3, <3>1
    <2>4. WritesOf(scopes[m].id, AllWrites) = {}  BY Zenon, <1>2, <1>3, <2>2, <2>3 DEF Marks
    <2> QED  BY Zenon, <1>3, <2>1, <2>2, <2>4
  <1>12. f \in 0 .. Len(scopes')  BY Zenon, <1>3
  <1> QED  BY Zenon, <1>5, <1>7, <1>9, <1>10, <1>11, <1>12 DEF SpInv

\* A scope whose body has run, in a transaction, has its savepoint on top.
LEMMA HasEntry ==
  ASSUME SpTypes, NEW f \in 0 .. Len(scopes), Stack(f), scopes # <<>>,
         Top.begun, Top.pc # "ret"
  PROVE  /\ Top.forgiven <=> sps = <<>>
         /\ ~Top.forgiven => /\ f + Len(sps) = Len(scopes) /\ Len(sps) \in Nat \ {0}
                             /\ sps[Len(sps)].name = Top.name
                             /\ Top.outermost \/ Top.kind = "txn" => Len(sps) = 1
  <1> DEFINE m == Len(scopes)
  <1>1. m \in Nat \ {0} /\ Top = scopes[m] /\ m \in 1 .. m  BY TopIs
  <1>2. Len(sps) \in Nat /\ (Len(sps) = 0 <=> sps = <<>>)  BY DEF SpTypes
  <1>3. f \in Int /\ 0 <= f /\ f <= m /\ f + Len(sps) <= m  BY <1>1 DEF Stack
  <1>4. Top.forgiven <=> m <= f  BY Zenon, <1>1 DEF Stack
  <1>5. CASE Top.forgiven  BY <1>1, <1>2, <1>3, <1>4, <1>5
  <1>6. CASE ~Top.forgiven
    <2>1. m \in f + 1 .. Len(scopes)  BY <1>1, <1>3, <1>4, <1>6
    <2>2. ~(m > f + Len(sps))  BY Zenon, <1>1, <2>1 DEF Stack
    <2>3. f + Len(sps) = m  BY <1>1, <1>2, <1>3, <2>2
    <2>4. m - f = Len(sps)  BY <1>1, <1>2, <1>3, <2>3
    <2>5. /\ sps[m - f].name = Top.name
          /\ Top.outermost \/ Top.kind = "txn" => m = f + 1
      BY Zenon, <1>1, <2>1, <2>3 DEF Stack
    <2>6. Len(sps) # 0  BY <1>1, <1>2, <1>3, <2>1, <2>3
    <2>7. m = f + 1 => Len(sps) = 1
      <3> DEFINE k == Len(sps)
      <3>1. f \in Int /\ k \in Int /\ f + k = m  BY <1>2, <1>3, <2>3
      <3>2. m = f + 1 => k = 1
        <4> HIDE DEF k, m
        <4> QED  BY <3>1
      <3> QED  BY Zenon, <3>2
    <2>8. sps[Len(sps)].name = Top.name  BY Zenon, <2>4, <2>5
    <2> QED  BY Zenon, <1>2, <1>6, <2>3, <2>5, <2>6, <2>7, <2>8
  <1> QED  BY Zenon, <1>5, <1>6

\* A body returns or panics.
LEMMA BodyEndsKept == ASSUME SpInv, BodyEnds  PROVE SpInv'
  <1>1. SpTypes /\ Phases  BY Zenon DEF SpInv
  <1>2. PICK e, p \in BOOLEAN :
           scopes' = [scopes EXCEPT ![Len(scopes)].pc = "release", ![Len(scopes)].err = e,
                                    ![Len(scopes)].panic = p]
    BY Zenon DEF BodyEnds
  <1>3. scopes # <<>> /\ Top.pc = "body"  BY Zenon DEF BodyEnds
  <1> DEFINE r == [Top EXCEPT !.pc = "release", !.err = e, !.panic = p]
  <1>4. Len(scopes) \in Nat \ {0} /\ Top \in ScopeRec /\ Top = scopes[Len(scopes)]
    BY <1>1, <1>3, TopIs
  <1>5. scopes' = [scopes EXCEPT ![Len(scopes)] = r]  BY Zenon, <1>1, <1>2, <1>4 DEF SpTypes
  <1>6. r \in ScopeRec  BY ZenonT(30), <1>4 DEF ScopeRec
  <1>7. r.pc = "release" /\ r.old = Top.old /\ r.forgiven = Top.forgiven /\ r.own = Top.own /\ Kept(r, Top)
    BY Zenon, <1>4 DEF ScopeRec, Kept
  <1>8. Top.old = "none" /\ doneCh = "ch"  BY <1>1, <1>3, <1>4 DEF Phases, Holds
  <1> HIDE DEF r
  <1>9. TopBecomes(r)  BY Zenon, <1>3, <1>5, <1>6, <1>7 DEF TopBecomes, BodyEnds
  <1>10. doneCh' = "ch"  BY Zenon, <1>8 DEF BodyEnds
  <1> QED  BY Zenon, <1>3, <1>7, <1>8, <1>9, <1>10, TopStep

\* The innermost scope goes to phase l with the error e and the panic p.
EndedAs(l, e, p, o) == [Top EXCEPT !.pc = l, !.err = e, !.panic = p, !.old = o]

\* The innermost scope with its new phase, error, panic and doneCh.
LEMMA Ending ==
  ASSUME SpTypes, scopes # <<>>, NEW l \in {"body", "release", "rollback", "ret"},
         NEW e \in BOOLEAN, NEW p \in BOOLEAN, NEW o \in {"none", "nil", "ch"},
         Replace(EndedAs(l, e, p, o)),
         UNCHANGED <<sps, pending, durable, opened, chClosed>>
  PROVE  /\ TopBecomes(EndedAs(l, e, p, o)) /\ EndedAs(l, e, p, o).pc = l
         /\ EndedAs(l, e, p, o).err = e /\ EndedAs(l, e, p, o).panic = p
         /\ EndedAs(l, e, p, o).old = o
  <1> DEFINE r == EndedAs(l, e, p, o)
  <1>1. Top \in ScopeRec  BY TopIs
  <1>2. r \in ScopeRec  BY Zenon, <1>1 DEF ScopeRec, EndedAs
  <1>3. /\ r.pc = l /\ r.err = e /\ r.panic = p /\ r.old = o
        /\ Kept(r, Top) /\ r.forgiven = Top.forgiven /\ r.own = Top.own
    BY Zenon, <1>1 DEF ScopeRec, Kept, EndedAs
  <1> QED  BY Zenon, <1>2, <1>3 DEF TopBecomes, Replace

\* Only the channel changes.
LEMMA Unmoved ==
  ASSUME SpInv, UNCHANGED <<sps, pending, durable, scopes, opened, doneCh>>,
         chClosed' \in BOOLEAN, chClosed => chClosed' \/ scopes = <<>>
  PROVE  SpInv'
  <1>1. SpTypes'  BY Zenon DEF SpInv, SpTypes
  <1>2. AllWrites' = AllWrites /\ Top' = Top  BY Zenon DEF AllWrites, Top
  <1>3. Ids'  BY Zenon, <1>2 DEF SpInv, Ids
  <1>4. Phases'
    <2>1. Holds' <=> Holds  BY Zenon, <1>2 DEF Holds
    <2>2. \A i \in 1 .. Len(scopes) : ~scopes[i].begun => chClosed'  BY DEF SpInv, Phases
    <2> QED  BY Zenon, <1>2, <2>1, <2>2 DEF SpInv, Phases
  <1>6. Returned'  BY Zenon, <1>2 DEF SpInv, Returned, WritesOf
  <1>7. PICK f \in 0 .. Len(scopes) : Stack(f) /\ Marks(f)  BY Zenon DEF SpInv
  <1>8. Stack(f)'  BY Zenon, <1>7 DEF Stack
  <1>9. Marks(f)'  BY Zenon, <1>2, <1>7 DEF Marks, WritesOf
  <1> QED  BY Zenon, <1>1, <1>3, <1>4, <1>6, <1>7, <1>8, <1>9 DEF SpInv

\* A panic ends the body around it.
LEMMA PanicKept ==
  ASSUME SpInv, InGo, PanicAround, UNCHANGED <<doneCh, chClosed>>
  PROVE  SpInv'
  <1>1. SpTypes /\ Phases  BY Zenon DEF SpInv
  <1>2. CASE scopes = <<>>
    <2>1. UNCHANGED <<sps, pending, durable, scopes, opened, doneCh>>
      BY Zenon, <1>2 DEF PanicAround
    <2> QED  BY Zenon, <1>1, <1>2, <2>1, Unmoved DEF SpTypes
  <1>3. CASE scopes # <<>>
    <2>0. PICK t \in BOOLEAN : t = TRUE  BY Zenon
    <2> DEFINE r == EndedAs("release", Top.err, t, Top.old)
    <2>1. Len(scopes) \in Nat \ {0} /\ Top \in ScopeRec /\ Top = scopes[Len(scopes)]
      BY Zenon, <1>1, <1>3, TopIs
    <2>2. /\ Top.err \in BOOLEAN /\ Top.old \in {"none", "nil", "ch"}
          /\ "release" \in {"body", "release", "rollback", "ret"}
      BY Zenon, <2>1 DEF ScopeRec
    <2>3. Replace(r)
      <3>1. scopes' = [scopes EXCEPT ![Len(scopes)].panic = t, ![Len(scopes)].pc = "release"]
        BY Zenon, <1>3, <2>0 DEF PanicAround
      <3>2. r = [Top EXCEPT !.panic = t, !.pc = "release"]
        BY Zenon, <2>1 DEF ScopeRec, EndedAs
      <3> HIDE DEF r
      <3> QED  BY Zenon, <1>1, <2>1, <3>1, <3>2 DEF SpTypes, Replace
    <2>4. /\ TopBecomes(r) /\ r.pc = "release" /\ r.err = Top.err /\ r.panic = t /\ r.old = Top.old
      <3>1. UNCHANGED <<sps, pending, durable, opened, chClosed>>
        BY Zenon DEF PanicAround
      <3> QED  BY <1>1, <1>3, <2>2, <2>3, <3>1, Ending
    <2> HIDE DEF r
    <2>5. Top.pc = "body"  BY Zenon, <1>3 DEF InGo
    <2>6. Top.old = "none" /\ doneCh = "ch"  BY <1>1, <2>1, <2>5 DEF Phases, Holds
    <2> QED  BY Zenon, <2>4, <2>5, <2>6, TopStep
  <1> QED  BY Zenon, <1>2, <1>3

\* The release function takes doneCh away before it rolls back.
LEMMA TakeDoneChKept == ASSUME SpInv, TakeDoneCh  PROVE SpInv'
  <1>1. SpTypes /\ Phases  BY Zenon DEF SpInv
  <1>2. PICK f \in 0 .. Len(scopes) : Stack(f)  BY Zenon DEF SpInv
  <1>3. scopes # <<>> /\ Top.pc = "rollback" /\ Top.old = "none" /\ doneCh' = "nil"
    BY Zenon DEF TakeDoneCh
  <1>4. Len(scopes) \in Nat \ {0} /\ Top \in ScopeRec /\ Top = scopes[Len(scopes)]
    BY Zenon, <1>1, <1>3, TopIs
  <1>5. doneCh = "ch"  BY Zenon, <1>1, <1>3 DEF Phases, Holds
  <1> DEFINE r == EndedAs("rollback", Top.err, Top.panic, "ch")
  <1>6. /\ Top.err \in BOOLEAN /\ Top.panic \in BOOLEAN /\ "ch" \in {"none", "nil", "ch"}
        /\ "rollback" \in {"body", "release", "rollback", "ret"}
    BY Zenon, <1>4 DEF ScopeRec
  <1>7. Replace(r)
    <2>1. scopes' = [scopes EXCEPT ![Len(scopes)].old = "ch"]
      BY Zenon, <1>5 DEF TakeDoneCh
    <2>2. r = [Top EXCEPT !.old = "ch"]  BY ZenonT(30), <1>3, <1>4 DEF ScopeRec, EndedAs
    <2> HIDE DEF r
    <2> QED  BY Zenon, <1>1, <1>4, <2>1, <2>2 DEF SpTypes, Replace
  <1>8. /\ TopBecomes(r) /\ r.pc = "rollback" /\ r.err = Top.err /\ r.panic = Top.panic /\ r.old = "ch"
    <2>1. UNCHANGED <<sps, pending, durable, opened, chClosed>>
      BY Zenon DEF TakeDoneCh
    <2> QED  BY <1>1, <1>3, <1>6, <1>7, <2>1, Ending
  <1> HIDE DEF r
  <1>9. Top.err \/ Top.panic  BY <1>1, <1>3, <1>4 DEF Phases
  <1>10. ~Top.forgiven /\ Top.begun
    <2>1. Len(scopes) \in 1 .. Len(scopes)  BY <1>4
    <2>2. Len(scopes) > f  BY Zenon, <1>2, <1>3, <1>4, <2>1 DEF Stack
    <2>3. ~Top.forgiven  BY <1>2, <1>4, <2>1, <2>2 DEF Stack
    <2>4. Len(scopes) \in f + 1 .. Len(scopes)  BY <1>4, <2>2
    <2>5. ~(Len(scopes) > f + Len(sps))  BY Zenon, <1>2, <1>3, <1>4, <2>4 DEF Stack
    <2>6. Len(scopes) <= f + Len(sps)  BY <1>1, <1>4, <2>5 DEF SpTypes
    <2> QED  BY Zenon, <1>2, <1>4, <2>3, <2>4, <2>6 DEF Stack
  <1> QED  BY Zenon, <1>3, <1>8, <1>9, <1>10, TopStep

\* The arms of EndScope that leave the transaction alone.
LEMMA EndsQuietly ==
  ASSUME SpInv, scopes # <<>>, Top.pc = "release",
         NEW l \in {"rollback", "ret"}, NEW e \in BOOLEAN, Replace(EndedAs(l, e, Top.panic, Top.old)),
         UNCHANGED <<sps, pending, durable, opened, doneCh, chClosed>>,
         l = "rollback" => Top.begun /\ ~Top.forgiven,
         l = "ret" => Top.forgiven \/ ~Top.begun,
         Top.forgiven \/ e \/ Top.panic
  PROVE  SpInv'
  <1>1. SpTypes /\ Phases  BY Zenon DEF SpInv
  <1>2. Len(scopes) \in Nat \ {0} /\ Top \in ScopeRec /\ Top = scopes[Len(scopes)]
    BY Zenon, <1>1, TopIs
  <1>3. Top.panic \in BOOLEAN /\ Top.old \in {"none", "nil", "ch"}
        /\ l \in {"body", "release", "rollback", "ret"}
    BY Zenon, <1>2 DEF ScopeRec
  <1> DEFINE r == EndedAs(l, e, Top.panic, Top.old)
  <1>4. TopBecomes(r) /\ r.pc = l /\ r.err = e /\ r.panic = Top.panic /\ r.old = Top.old
    BY <1>1, <1>3, Ending
  <1>5. Top.old = "none" /\ doneCh = "ch"  BY <1>1, <1>2 DEF Phases, Holds
  <1> HIDE DEF r
  <1> QED  BY Zenon, <1>4, <1>5, TopStep

\* The release function ends a scope without a statement, or with one that
\* fails.
LEMMA EndsQuietlyKept ==
  ASSUME SpInv, EndScope,
         \/ ~Top.begun
         \/ Top.begun /\ Autocommit
         \/ Top.begun /\ ~Autocommit /\ (Top.err \/ Top.panic)
         \/ Top.begun /\ ~Autocommit /\ GotoErr("rollback") /\ UNCHANGED <<sps, pending, durable>>
  PROVE  SpInv'
  <1>1. SpTypes /\ Phases  BY Zenon DEF SpInv
  <1>2. scopes # <<>> /\ Top.pc = "release" /\ UNCHANGED <<opened, doneCh, chClosed>>
    BY Zenon DEF EndScope
  <1>3. Len(scopes) \in Nat \ {0} /\ Top \in ScopeRec /\ Top = scopes[Len(scopes)]
    BY Zenon, <1>1, <1>2, TopIs
  <1>4. PICK f \in 0 .. Len(scopes) : Stack(f)  BY Zenon DEF SpInv
  <1>5. Top.begun => (Top.forgiven <=> Autocommit)
    BY Zenon, <1>1, <1>2, <1>4, HasEntry DEF Autocommit
  <1>6. Top.err \in BOOLEAN /\ Top.panic \in BOOLEAN  BY Zenon, <1>3 DEF ScopeRec
  <1>7. PICK e \in BOOLEAN : e = ~Top.panic  BY Zenon
  <1>8. ASSUME NEW l \in {"rollback", "ret"}, GotoErr(l)
        PROVE  Replace(EndedAs(l, e, Top.panic, Top.old)) /\ (e \/ Top.panic)
    <2>1. scopes' = [scopes EXCEPT ![Len(scopes)].pc = l, ![Len(scopes)].err = e]
      BY Zenon, <1>7, <1>8 DEF GotoErr
    <2> DEFINE r == EndedAs(l, e, Top.panic, Top.old)
    <2>2. r = [Top EXCEPT !.pc = l, !.err = e]  BY Zenon, <1>3 DEF ScopeRec, EndedAs
    <2> HIDE DEF r
    <2>3. Replace(r)  BY Zenon, <1>1, <1>3, <2>1, <2>2 DEF SpTypes, Replace
    <2> QED  BY Zenon, <1>6, <1>7, <2>3 DEF r
  <1>9. ASSUME NEW l \in {"rollback", "ret"}, ToPhase(l)
        PROVE  Replace(EndedAs(l, Top.err, Top.panic, Top.old))
    <2> DEFINE r == EndedAs(l, Top.err, Top.panic, Top.old)
    <2>2. r = [Top EXCEPT !.pc = l]  BY Zenon, <1>3 DEF ScopeRec, EndedAs
    <2> HIDE DEF r
    <2>3. Replace(r)  BY Zenon, <1>1, <1>3, <1>9, <2>2 DEF SpTypes, Replace, ToPhase
    <2> QED  BY Zenon, <2>3 DEF r
  <1>10. "rollback" \in {"rollback", "ret"} /\ "ret" \in {"rollback", "ret"}  BY Zenon
  <1>11. CASE ~Top.begun
    <2>1. GotoErr("ret") /\ UNCHANGED <<sps, pending, durable>>
      BY Zenon, <1>11 DEF EndScope
    <2>2. Replace(EndedAs("ret", e, Top.panic, Top.old)) /\ (e \/ Top.panic)
      BY Zenon, <1>8, <1>10, <2>1
    <2> QED  BY Zenon, <1>2, <1>10, <1>11, <2>1, <2>2, EndsQuietly
  <1>12. CASE Top.begun /\ Autocommit
    <2>1. ToPhase("ret") /\ UNCHANGED <<sps, pending, durable>>
      BY Zenon, <1>12 DEF EndScope
    <2>2. Replace(EndedAs("ret", Top.err, Top.panic, Top.old))
      BY Zenon, <1>9, <1>10, <2>1
    <2> QED  BY Zenon, <1>2, <1>5, <1>6, <1>10, <1>12, <2>1, <2>2, EndsQuietly
  <1>13. CASE Top.begun /\ ~Autocommit /\ (Top.err \/ Top.panic)
    <2>1. ToPhase("rollback") /\ UNCHANGED <<sps, pending, durable>>
      BY Zenon, <1>13 DEF EndScope
    <2>2. Replace(EndedAs("rollback", Top.err, Top.panic, Top.old))
      BY Zenon, <1>9, <1>10, <2>1
    <2> QED  BY Zenon, <1>2, <1>5, <1>6, <1>10, <1>13, <2>1, <2>2, EndsQuietly
  <1>14. CASE Top.begun /\ ~Autocommit /\ GotoErr("rollback") /\ UNCHANGED <<sps, pending, durable>>
    <2>2. Replace(EndedAs("rollback", e, Top.panic, Top.old)) /\ (e \/ Top.panic)
      BY Zenon, <1>8, <1>10, <1>14
    <2> QED  BY Zenon, <1>2, <1>5, <1>10, <1>14, <2>2, EndsQuietly
  <1> QED  BY Zenon, <1>11, <1>12, <1>13, <1>14

\* ScopeReturns takes the innermost scope away; a panic ends the next one.
LEMMA Popped ==
  ASSUME SpTypes, Phases, ScopeReturns
  PROVE  /\ scopes' \in Seq(ScopeRec) /\ Len(scopes') = Len(scopes) - 1
         /\ \A i \in 1 .. Len(scopes) - 1 :
               /\ Kept(scopes'[i], scopes[i]) /\ scopes'[i].forgiven = scopes[i].forgiven
               /\ scopes'[i].own = scopes[i].own /\ scopes'[i].old = "none"
               /\ scopes'[i].pc \in {"body", "release"}
               /\ i < Len(scopes) - 1 => scopes'[i].pc = "body"
  <1> DEFINE m == Len(scopes)
             rest == SubSeq(scopes, 1, m - 1)
  <1>1. m \in Nat \ {0} /\ scopes \in Seq(ScopeRec) /\ Top = scopes[m]
    BY Zenon, TopIs DEF ScopeReturns, SpTypes
  <1>2. rest \in Seq(ScopeRec) /\ Len(rest) = m - 1 /\ \A i \in 1 .. m - 1 : rest[i] = scopes[i]
    <2>1. m - 1 \in 0 .. Len(scopes)  BY <1>1
    <2> QED  BY Zenon, <1>1, <2>1, CutTo
  <1>3. \A i \in 1 .. m - 1 : scopes[i].pc = "body" /\ scopes[i].old = "none"
    BY <1>1 DEF Phases
  <1>4. CASE scopes' = rest
    <2> HIDE DEF rest
    <2> QED  BY Zenon, <1>2, <1>3, <1>4 DEF Kept
  <1>5. CASE rest # <<>> /\ scopes' = [rest EXCEPT ![Len(rest)].pc = "release",
                                                   ![Len(rest)].panic = TRUE]
    <2> DEFINE t == rest[Len(rest)]
               r == [t EXCEPT !.pc = "release", !.panic = TRUE]
    <2>0. m - 1 \in 1 .. m - 1
      <3> HIDE DEF rest
      <3> QED  BY <1>1, <1>2, <1>5
    <2>1. t \in ScopeRec /\ t = scopes[m - 1]
      <3> HIDE DEF rest
      <3> QED  BY <1>1, <1>2, <2>0
    <2>2. /\ r \in ScopeRec /\ r.pc = "release" /\ Kept(r, t) /\ r.forgiven = t.forgiven
          /\ r.own = t.own /\ r.old = t.old
      <3> HIDE DEF t
      <3> QED  BY ZenonT(30), <2>1 DEF ScopeRec, Kept
    <2>3. LastBecomes(rest, scopes', r)
      <3> HIDE DEF rest
      <3> QED  BY Zenon, <1>2, <1>5, <2>1 DEF LastBecomes
    <2> HIDE DEF r
    <2>4. /\ scopes' \in Seq(ScopeRec) /\ Len(scopes') = Len(rest) /\ scopes'[Len(rest)] = r
          /\ \A i \in 1 .. Len(rest) : i < Len(rest) => scopes'[i] = rest[i]
      <3>1. rest # <<>> /\ rest \in Seq(ScopeRec) /\ r \in ScopeRec
        BY Zenon, <1>2, <1>5, <2>2
      <3> HIDE DEF rest
      <3> QED  BY <2>3, <3>1, Replaced
    <2>5. ASSUME NEW i \in 1 .. m - 1
          PROVE  /\ Kept(scopes'[i], scopes[i]) /\ scopes'[i].forgiven = scopes[i].forgiven
                 /\ scopes'[i].own = scopes[i].own /\ scopes'[i].old = "none"
                 /\ scopes'[i].pc \in {"body", "release"}
                 /\ i < m - 1 => scopes'[i].pc = "body"
      <3> HIDE DEF rest, t
      <3>1. CASE i < m - 1
        <4>1. scopes'[i] = scopes[i]  BY Zenon, <1>2, <2>4, <3>1
        <4> QED  BY Zenon, <1>3, <4>1 DEF Kept
      <3>2. CASE i = m - 1
        <4>1. scopes'[i] = r /\ scopes[i] = t  BY Zenon, <1>2, <2>1, <2>4, <3>2
        <4>2. t.old = "none"  BY Zenon, <1>3, <4>1
        <4> QED  BY <2>2, <3>2, <4>1, <4>2
      <3> QED  BY <1>1, <3>1, <3>2
    <2> HIDE DEF rest, t
    <2> QED  BY Zenon, <1>2, <2>4, <2>5
  <1> QED  BY Zenon, <1>4, <1>5 DEF ScopeReturns

\* The release function returns to the body around the scope.
LEMMA ScopeReturnsKept == ASSUME SpInv, ScopeReturns  PROVE SpInv'
  <1>1. SpTypes /\ Phases /\ Ids  BY Zenon DEF SpInv
  <1>2. PICK f \in 0 .. Len(scopes) : Stack(f) /\ Marks(f)  BY Zenon DEF SpInv
  <1> DEFINE m == Len(scopes)
  <1>3. /\ m \in Nat \ {0} /\ Top = scopes[m] /\ scopes # <<>> /\ Top.pc = "ret"
    BY Zenon, <1>1, TopIs DEF ScopeReturns
  <1>4. UNCHANGED <<sps, pending, durable, opened, doneCh, chClosed>>
    BY Zenon DEF ScopeReturns
  <1>5. /\ scopes' \in Seq(ScopeRec) /\ Len(scopes') = m - 1
        /\ \A i \in 1 .. m - 1 :
               /\ Kept(scopes'[i], scopes[i]) /\ scopes'[i].forgiven = scopes[i].forgiven
               /\ scopes'[i].own = scopes[i].own /\ scopes'[i].old = "none"
               /\ scopes'[i].pc \in {"body", "release"}
               /\ i < m - 1 => scopes'[i].pc = "body"
    BY Zenon, <1>1, Popped
  <1>6. SpTypes'  BY Zenon, <1>1, <1>4, <1>5 DEF SpTypes
  <1>7. AllWrites' = AllWrites  BY Zenon, <1>4 DEF AllWrites
  <1>8. Ids'
    <2>1. Len(scopes') \in 0 .. Len(scopes)  BY <1>3, <1>5
    <2>2. \A i \in 1 .. Len(scopes') : scopes'[i].id = scopes[i].id
      BY Zenon, <1>3, <1>5 DEF Kept
    <2> QED  BY Zenon, <1>1, <1>4, <1>7, <2>1, <2>2, IdsKept
  <1>10. scopes' # <<>> => Top'.pc \in {"body", "release"}
    <2> SUFFICES ASSUME scopes' # <<>>  PROVE Top'.pc \in {"body", "release"}
      BY Zenon
    <2>1. m - 1 \in 1 .. m - 1  BY <1>3, <1>5
    <2> QED  BY Zenon, <1>5, <2>1 DEF Top
  <1>11. Phases'
    <2>1. ~Holds /\ ~Holds'  BY Zenon, <1>3, <1>10 DEF Holds
    <2>2. doneCh = "ch"  BY Zenon, <1>1, <2>1 DEF Phases
    <2>3. ASSUME NEW i \in 1 .. m - 1
          PROVE  /\ scopes'[i].ch = "ch" /\ (~scopes'[i].begun => chClosed)
                 /\ scopes'[i].pc # "rollback"
      <3>1. scopes[i].ch = "ch" /\ (~scopes[i].begun => chClosed)  BY <1>1, <1>3 DEF Phases
      <3> QED  BY Zenon, <1>5, <3>1 DEF Kept
    <2> QED  BY Zenon, <1>4, <1>5, <2>1, <2>2, <2>3 DEF Phases
  <1>12. Returned'  BY Zenon, <1>10 DEF Returned
  <1>13. Len(sps) \in Nat /\ f \in Int /\ 0 <= f /\ f <= m /\ f + Len(sps) <= m
    BY <1>1, <1>2, <1>3 DEF SpTypes, Stack
  <1>15. CASE f = m
    <2>1. Len(sps) = 0 /\ sps = <<>> /\ pending = <<>>
      <3>1. Len(sps) = 0  BY <1>13, <1>15
      <3> QED  BY <1>1, <1>2, <3>1 DEF SpTypes, Marks
    <2>2. \A i \in 1 .. m - 1 : scopes[i].forgiven /\ i <= m - 1
      BY <1>2, <1>3, <1>15 DEF Stack
    <2>3. PICK g \in Int : g = m - 1  BY <1>3
    <2>4. Stack(g)'  BY <1>3, <1>4, <1>5, <2>1, <2>2, <2>3 DEF Stack
    <2>5. Marks(g)'
      <3>1. \A i \in g + 1 .. m - 1 : FALSE  BY <1>3, <2>3
      <3> QED  BY <1>3, <1>4, <1>5, <2>1, <3>1 DEF Marks
    <2>6. g \in 0 .. Len(scopes')  BY <1>3, <1>5, <2>3
    <2> QED  BY Zenon, <1>6, <1>8, <1>11, <1>12, <2>4, <2>5, <2>6 DEF SpInv
  <1>16. CASE f < m
    <2>1. f + Len(sps) <= m - 1
      <3>1. m \in f + 1 .. Len(scopes)  BY <1>3, <1>13, <1>16
      <3>2. ~(m <= f + Len(sps))  BY Zenon, <1>2, <1>3, <3>1 DEF Stack
      <3> QED  BY <1>3, <1>13, <3>2
    <2>2. ASSUME NEW i \in 1 .. m - 1
          PROVE  /\ i \in 1 .. m /\ (scopes'[i].forgiven <=> i <= f)
                 /\ scopes'[i].id = scopes[i].id /\ scopes'[i].begun = scopes[i].begun
                 /\ scopes'[i].name = scopes[i].name /\ scopes'[i].own = scopes[i].own
                 /\ scopes'[i].kind = scopes[i].kind /\ scopes'[i].outermost = scopes[i].outermost
                 /\ scopes'[i].pc # "rollback" /\ scopes'[i].pc # "ret" /\ scopes[i].pc # "ret"
      <3>1. i \in 1 .. m  BY <1>3
      <3>2. (scopes[i].forgiven <=> i <= f) /\ scopes[i].pc = "body"
        BY <1>1, <1>2, <1>3, <3>1 DEF Stack, Phases
      <3> QED  BY Zenon, <1>5, <3>1, <3>2 DEF Kept
    <2>3. \A i \in f + 1 .. m - 1 : i \in 1 .. m - 1 /\ i \in f + 1 .. m  BY <1>3, <1>13
    <2>4. Stack(f)'
      <3>1. \A i \in f + 1 .. m - 1 :
               /\ i <= f + Len(sps) =>
                    /\ scopes'[i].begun /\ scopes'[i].pc # "ret" /\ sps[i - f].name = scopes'[i].name
                    /\ scopes'[i].outermost \/ scopes'[i].kind = "txn" => i = f + 1
               /\ i > f + Len(sps) =>
                    /\ ~scopes'[i].begun \/ scopes'[i].pc = "ret"
                    /\ scopes'[i].pc # "rollback"
        BY Zenon, <1>2, <2>2, <2>3 DEF Stack
      <3> QED  BY Zenon, <1>4, <1>5, <2>1, <2>2, <3>1 DEF Stack
    <2>5. Marks(f)'
      <3>1. ASSUME NEW j \in 1 .. Len(sps)  PROVE f + j \in 1 .. m - 1
        <4>1. j \in Int /\ 1 <= j /\ j <= Len(sps)  BY <1>13
        <4> HIDE DEF m
        <4> QED  BY <1>3, <1>13, <2>1, <4>1
      <3>2. /\ \A j \in 1 .. Len(sps) :
                 scopes'[f + j].id = scopes[f + j].id /\ scopes'[f + j].own = scopes[f + j].own
            /\ \A i \in f + 1 .. m - 1 :
                 /\ scopes'[i].id = scopes[i].id /\ scopes'[i].begun = scopes[i].begun
                 /\ i \in f + 1 .. m
        BY Zenon, <2>2, <2>3, <3>1
      <3> QED  BY Zenon, <1>2, <1>4, <1>5, <1>7, <3>2 DEF Marks
    <2>6. f \in 0 .. Len(scopes')  BY <1>3, <1>5, <1>13, <1>16
    <2> QED  BY Zenon, <1>6, <1>8, <1>11, <1>12, <2>4, <2>5, <2>6 DEF SpInv
  <1> QED  BY <1>3, <1>13, <1>15, <1>16

\* COMMIT: the writes of the transaction become durable.
LEMMA Committed ==
  ASSUME SpTypes, Commit
  PROVE  /\ durable' \in SUBSET WriteRec
         /\ sps' = <<>> /\ pending' = <<>> /\ AllWrites' = AllWrites
  <1>1. durable' = durable \cup Range(pending) /\ pending' = <<>> /\ sps' = <<>>
    BY Zenon DEF Commit
  <1>2. Range(pending) \subseteq WriteRec /\ durable \subseteq WriteRec
    BY DEF SpTypes, Range
  <1>3. Range(<<>>) = {}  BY DEF Range
  <1> QED  BY Zenon, <1>1, <1>2, <1>3 DEF AllWrites

\* ROLLBACK leaves the durable writes and nothing else.
LEMMA RolledBack ==
  ASSUME SpTypes, RollbackAll
  PROVE  /\ durable' \in SUBSET WriteRec
         /\ sps' = <<>> /\ pending' = <<>> /\ AllWrites' = durable /\ AllWrites' \subseteq AllWrites
  <1>1. pending' = <<>> /\ sps' = <<>> /\ durable' = durable
    BY Zenon DEF RollbackAll
  <1>2. Range(<<>>) = {}  BY DEF Range
  <1>3. AllWrites' = durable /\ durable \subseteq AllWrites
    BY Zenon, <1>1, <1>2 DEF AllWrites
  <1> QED  BY Zenon, <1>1, <1>3 DEF SpTypes

\* The transaction is over, and every scope below the innermost one knows.
LEMMA TransactionGone ==
  ASSUME SpInv, scopes # <<>>, sps' = <<>>, pending' = <<>>, durable' \in SUBSET WriteRec,
         AllWrites' \subseteq AllWrites,
         opened' = opened, doneCh' = "ch", chClosed' = chClosed,
         scopes' \in Seq(ScopeRec), Len(scopes') = Len(scopes),
         \A i \in 1 .. Len(scopes) : /\ Kept(scopes'[i], scopes[i])
                                     /\ i < Len(scopes) => scopes'[i].forgiven /\ scopes'[i].pc = "body",
         \A i \in 1 .. Len(scopes) : scopes'[i].pc \in {"body", "release"} => scopes'[i].old = "none",
         Top'.pc # "rollback",
         ~Top'.forgiven => Top.begun /\ Top'.pc = "ret",
         Returned'
  PROVE  SpInv'
  <1>1. SpTypes /\ Phases /\ Ids  BY Zenon DEF SpInv
  <1> DEFINE m == Len(scopes)
  <1>2. m \in Nat \ {0} /\ Top = scopes[m] /\ Top' = scopes'[m] /\ m \in 1 .. m
    BY <1>1, TopIs DEF Top
  <1>3. SpTypes'  BY <1>1 DEF SpTypes
  <1>4. Ids'
    <2>1. Len(scopes') \in 0 .. Len(scopes)  BY <1>2
    <2>2. \A i \in 1 .. Len(scopes') : scopes'[i].id = scopes[i].id
      BY Zenon DEF Kept
    <2> QED  BY Zenon, <1>1, <2>1, <2>2, IdsKept
  <1>5. ASSUME NEW i \in 1 .. m
        PROVE  /\ scopes'[i].ch = "ch" /\ (~scopes'[i].begun => chClosed)
               /\ scopes'[i].pc # "rollback"
    <2>1. scopes[i].ch = "ch" /\ (~scopes[i].begun => chClosed)
      BY Zenon, <1>1 DEF Phases
    <2>2. scopes'[i].pc # "rollback"
      <3>1. CASE i < m  BY Zenon, <3>1
      <3>2. CASE i = m  BY Zenon, <1>2, <3>2
      <3> QED  BY <1>2, <3>1, <3>2
    <2> QED  BY Zenon, <2>1, <2>2 DEF Kept
  <1>6. Phases'
    <2>1. ~Holds'  BY Zenon DEF Holds
    <2> QED  BY Zenon, <1>5, <2>1 DEF Phases
  <1>7. PICK g \in Int : g = IF Top'.forgiven THEN m ELSE m - 1
    <2>1. CASE Top'.forgiven  BY <1>2, <2>1
    <2>2. CASE ~Top'.forgiven  BY <1>2, <2>2
    <2> QED  BY Zenon, <2>1, <2>2
  <1>8. Stack(g)'
    <2>1. Len(sps') = 0  BY Zenon
    <2>2. g + 0 <= m  BY <1>2, <1>7
    <2>3. ASSUME NEW i \in 1 .. m  PROVE scopes'[i].forgiven <=> i <= g
      <3>1. CASE i < m  BY <1>2, <1>7, <3>1
      <3>2. CASE i = m  BY <1>2, <1>7, <3>2
      <3> QED  BY <1>2, <3>1, <3>2
    <2>4. ASSUME NEW i \in g + 1 .. m  PROVE i > g /\ ~(i <= g) /\ scopes'[i].pc = "ret"
      <3>1. i = m /\ ~Top'.forgiven  BY <1>2, <1>7
      <3> QED  BY <1>2, <1>7, <3>1
    <2>5. \A i \in g + 1 .. m : i > g + 0 /\ ~(i <= g + 0)  BY <1>7, <2>4
    <2> QED  BY Zenon, <1>5, <2>1, <2>2, <2>3, <2>4, <2>5 DEF Stack
  <1>9. Marks(g)'
    <2>1. Len(sps') = 0  BY Zenon
    <2>2. ASSUME NEW i \in g + 1 .. m  PROVE scopes'[i].begun
      <3>1. i = m /\ ~Top'.forgiven  BY <1>2, <1>7
      <3> QED  BY Zenon, <1>2, <3>1 DEF Kept
    <2> QED  BY <2>1, <2>2 DEF Marks
  <1>10. g \in 0 .. Len(scopes')  BY <1>2, <1>7
  <1> QED  BY Zenon, <1>3, <1>4, <1>6, <1>8, <1>9, <1>10 DEF SpInv

\* The scopes of a transaction that SQLite or the body has ended.
LEMMA Forgiven ==
  ASSUME SpTypes
  PROVE  /\ Forgive(scopes) \in Seq(ScopeRec) /\ Len(Forgive(scopes)) = Len(scopes)
         /\ \A i \in 1 .. Len(scopes) :
               /\ Kept(Forgive(scopes)[i], scopes[i]) /\ Forgive(scopes)[i].forgiven
               /\ Forgive(scopes)[i].pc = scopes[i].pc /\ Forgive(scopes)[i].old = scopes[i].old
               /\ Forgive(scopes)[i] \in ScopeRec
  <1> DEFINE F == Forgive(scopes)
             m == Len(scopes)
  <1>1. scopes \in Seq(ScopeRec) /\ DOMAIN scopes = 1 .. m /\ m \in Nat  BY DEF SpTypes
  <1>2. F = [i \in 1 .. m |-> [scopes[i] EXCEPT !.forgiven = TRUE]]
    BY Zenon, <1>1 DEF Forgive
  <1>3. ASSUME NEW i \in 1 .. m
        PROVE  /\ Kept(F[i], scopes[i]) /\ F[i].forgiven /\ F[i].pc = scopes[i].pc
               /\ F[i].old = scopes[i].old /\ F[i] \in ScopeRec
    <2> DEFINE a == scopes[i]
               b == F[i]
    <2>1. a \in ScopeRec /\ b = [a EXCEPT !.forgiven = TRUE]  BY <1>1, <1>2
    <2> HIDE DEF a, b
    <2>2. Kept(b, a) /\ b.forgiven /\ b.pc = a.pc /\ b.old = a.old /\ b \in ScopeRec
      BY Zenon, <2>1 DEF ScopeRec, Kept
    <2> QED  BY Zenon, <2>2 DEF a, b
  <1>4. F \in Seq(ScopeRec) /\ Len(F) = m
    <2>1. F \in [1 .. m -> ScopeRec]  BY Zenon, <1>2, <1>3
    <2> HIDE DEF F, m
    <2> QED  BY <1>1, <2>1
  <1> QED  BY Zenon, <1>3, <1>4

\* A write fails so that SQLite rolls the transaction back.
LEMMA WriteRollsBackKept == ASSUME SpInv, WriteRollsBack  PROVE SpInv'
  <1>1. SpTypes /\ Phases /\ Ids  BY Zenon DEF SpInv
  <1> DEFINE F == Forgive(scopes)
             m == Len(scopes)
             t == F[m]
             l == IF Top.kind = "script" THEN "release" ELSE t.pc
  <1>2. scopes # <<>> /\ Top.pc = "body" /\ UNCHANGED <<opened, doneCh, chClosed>>
    BY Zenon DEF WriteRollsBack
  <1>3. m \in Nat \ {0} /\ Top = scopes[m] /\ m \in 1 .. m  BY <1>1, <1>2, TopIs
  <1>4. /\ F \in Seq(ScopeRec) /\ Len(F) = m
        /\ \A i \in 1 .. m : /\ Kept(F[i], scopes[i]) /\ F[i].forgiven
                             /\ F[i].pc = scopes[i].pc /\ F[i].old = scopes[i].old
                             /\ F[i] \in ScopeRec
    BY Zenon, <1>1, Forgiven
  <1> HIDE DEF F
  <1>5. PICK e \in BOOLEAN : e = (Top.kind = "script")  BY Zenon
  <1> DEFINE r == [t EXCEPT !.pc = l, !.err = e]
  <1>6. t \in ScopeRec /\ t.forgiven /\ t.pc = "body" /\ Kept(t, Top) /\ t.old = Top.old
    BY Zenon, <1>2, <1>3, <1>4
  <1>7. l \in {"body", "release"}  BY Zenon, <1>6
  <1>8. LastBecomes(F, scopes', r)
    <2>1. scopes' = [F EXCEPT ![m].pc = IF Top.kind = "script" THEN "release" ELSE @,
                              ![m].err = Top.kind = "script"]
      BY Zenon DEF WriteRollsBack, F
    <2>2. scopes' = [F EXCEPT ![m].pc = l, ![m].err = e]
      BY Zenon, <1>3, <1>4, <1>5, <2>1
    <2> HIDE DEF l, m
    <2>3. scopes' = [F EXCEPT ![m] = r]  BY Zenon, <1>3, <1>4, <2>2
    <2> QED  BY Zenon, <1>4, <2>3 DEF LastBecomes
  <1>9. /\ r \in ScopeRec /\ r.pc = l /\ r.forgiven /\ r.old = t.old /\ Kept(r, t)
    <2> HIDE DEF l, t
    <2> QED  BY Zenon, <1>6, <1>7 DEF ScopeRec, Kept
  <1> HIDE DEF r
  <1>10. /\ scopes' \in Seq(ScopeRec) /\ Len(scopes') = m /\ scopes'[m] = r
         /\ \A i \in 1 .. m : i < m => scopes'[i] = F[i]
    <2>1. F # <<>> /\ F \in Seq(ScopeRec) /\ r \in ScopeRec
      BY Zenon, <1>3, <1>4, <1>9
    <2> QED  BY <1>4, <1>8, <2>1, Replaced
  <1> HIDE DEF t, l
  <1>11. ASSUME NEW i \in 1 .. m
         PROVE  /\ Kept(scopes'[i], scopes[i]) /\ scopes'[i].forgiven
                /\ i < m => scopes'[i].pc = "body"
                /\ scopes'[i].pc \in {"body", "release"} /\ scopes'[i].old = "none"
    <2>1. i < m => scopes[i].pc = "body"  BY Zenon, <1>1 DEF Phases
    <2>2. scopes[i].pc \in {"body", "release"} => scopes[i].old = "none"
      BY Zenon, <1>1 DEF Phases
    <2>3. CASE i < m  BY Zenon, <1>4, <1>10, <2>1, <2>2, <2>3
    <2>4. CASE i = m
      <3>1. scopes'[i] = r /\ scopes[i] = Top  BY Zenon, <1>3, <1>10, <2>4
      <3>2. Kept(r, Top)  BY Zenon, <1>6, <1>9 DEF Kept
      <3> QED  BY <1>2, <1>6, <1>7, <1>9, <2>2, <2>4, <3>1, <3>2
    <2> QED  BY <1>3, <2>3, <2>4
  <1>12. /\ durable' \in SUBSET WriteRec
         /\ sps' = <<>> /\ pending' = <<>> /\ AllWrites' \subseteq AllWrites
    BY Zenon, <1>1, RolledBack DEF WriteRollsBack
  <1>13. doneCh = "ch"  BY Zenon, <1>1, <1>2 DEF Phases, Holds
  <1>14. Top' = scopes'[m] /\ Top'.pc \in {"body", "release"} /\ Top'.forgiven
    BY Zenon, <1>3, <1>10, <1>11 DEF Top
  <1>15. Returned'  BY Zenon, <1>14 DEF Returned
  <1> QED  BY Zenon, <1>2, <1>10, <1>11, <1>12, <1>13, <1>14, <1>15, TransactionGone

\* The body itself ends the transaction.
LEMMA UserEndsKept == ASSUME SpInv, UserEnds  PROVE SpInv'
  <1>1. SpTypes /\ Phases /\ Ids  BY Zenon DEF SpInv
  <1> DEFINE F == Forgive(scopes)
             m == Len(scopes)
  <1>2. scopes # <<>> /\ Top.pc = "body" /\ UNCHANGED <<opened, doneCh, chClosed>> /\ scopes' = F
    BY Zenon DEF UserEnds
  <1>3. m \in Nat \ {0} /\ Top = scopes[m] /\ m \in 1 .. m  BY <1>1, <1>2, TopIs
  <1>4. /\ F \in Seq(ScopeRec) /\ Len(F) = m
        /\ \A i \in 1 .. m : /\ Kept(F[i], scopes[i]) /\ F[i].forgiven
                             /\ F[i].pc = scopes[i].pc /\ F[i].old = scopes[i].old
                             /\ F[i] \in ScopeRec
    BY Zenon, <1>1, Forgiven
  <1> HIDE DEF F
  <1>5. ASSUME NEW i \in 1 .. m
        PROVE  /\ Kept(scopes'[i], scopes[i]) /\ scopes'[i].forgiven
               /\ i < m => scopes'[i].pc = "body"
               /\ scopes'[i].pc \in {"body", "release"} => scopes'[i].old = "none"
    <2>1. i < m => scopes[i].pc = "body"  BY Zenon, <1>1 DEF Phases
    <2>2. scopes[i].pc \in {"body", "release"} => scopes[i].old = "none"
      BY Zenon, <1>1 DEF Phases
    <2> QED  BY Zenon, <1>2, <1>4, <2>1, <2>2
  <1>6. /\ durable' \in SUBSET WriteRec
        /\ sps' = <<>> /\ pending' = <<>> /\ AllWrites' \subseteq AllWrites
    <2>1. CASE Commit  BY Zenon, <1>1, <2>1, Committed
    <2>2. CASE RollbackAll  BY Zenon, <1>1, <2>2, RolledBack
    <2> QED  BY Zenon, <2>1, <2>2 DEF UserEnds
  <1>7. doneCh = "ch"  BY Zenon, <1>1, <1>2 DEF Phases, Holds
  <1>8. Top' = scopes'[m] /\ Top'.pc = "body" /\ Top'.forgiven
    BY Zenon, <1>2, <1>3, <1>4 DEF Top
  <1>9. Returned'  BY Zenon, <1>8 DEF Returned
  <1>10. scopes' \in Seq(ScopeRec) /\ Len(scopes') = Len(scopes)
    BY Zenon, <1>2, <1>4
  <1> QED  BY Zenon, <1>2, <1>5, <1>6, <1>7, <1>8, <1>9, <1>10, TransactionGone

\* RELEASE and ROLLBACK TO of the innermost scope find its own savepoint.
LEMMA FindsItsOwn ==
  ASSUME SpTypes, NEW f \in 0 .. Len(scopes), Stack(f), scopes # <<>>, Top.begun, Top.pc # "ret",
         ~Autocommit
  PROVE  /\ ~Top.forgiven /\ f + Len(sps) = Len(scopes) /\ Len(sps) \in Nat \ {0}
         /\ Matching(Top.name) # {} /\ Max(Matching(Top.name)) = Len(sps)
         /\ Top.outermost \/ Top.kind = "txn" => Len(sps) = 1
  <1> DEFINE L == Len(sps)
             M == Matching(Top.name)
  <1>1. /\ ~Top.forgiven /\ f + L = Len(scopes) /\ L \in Nat \ {0} /\ sps[L].name = Top.name
        /\ Top.outermost \/ Top.kind = "txn" => L = 1
    BY Zenon, HasEntry DEF Autocommit
  <1>2. L \in M /\ \A y \in M : y \in Int /\ y <= L
    <2>1. DOMAIN sps = 1 .. L  BY DEF SpTypes
    <2> QED  BY <1>1, <2>1 DEF Matching
  <1> HIDE DEF L, M
  <1>3. Max(M) = L
    <2>1. \A x \in M : (\A y \in M : x >= y) <=> x = L  BY <1>1, <1>2
    <2> QED  BY Zenon, <1>2, <2>1 DEF Max
  <1> QED  BY Zenon, <1>1, <1>2, <1>3 DEF L, M

\* The outermost scope of a transaction ends, and with it the transaction.
LEMMA OuterEnds ==
  ASSUME SpInv, NEW f \in 0 .. Len(scopes), Stack(f), f + 1 = Len(scopes),
         scopes # <<>>, Top.begun, ~Top.forgiven, Top.pc # "ret",
         NEW r \in ScopeRec, Replace(r), Kept(r, Top), r.pc = "ret", ~r.forgiven,
         sps' = <<>>, pending' = <<>>, durable' \in SUBSET WriteRec,
         AllWrites' \subseteq AllWrites,
         opened' = opened, doneCh' = "ch", chClosed' = chClosed, Returned'
  PROVE  SpInv'
  <1>1. SpTypes /\ Phases  BY Zenon DEF SpInv
  <1> DEFINE m == Len(scopes)
  <1>2. m \in Nat \ {0} /\ Top = scopes[m] /\ m \in 1 .. m  BY <1>1, TopIs
  <1>3. /\ scopes' \in Seq(ScopeRec) /\ Len(scopes') = m /\ scopes'[m] = r /\ scopes' # <<>>
        /\ \A i \in 1 .. m : i < m => scopes'[i] = scopes[i]
    <2>1. scopes \in Seq(ScopeRec) /\ LastBecomes(scopes, scopes', r)
      BY Zenon, <1>1 DEF SpTypes, Replace, LastBecomes
    <2> QED  BY <2>1, Replaced
  <1>4. Top' = r  BY Zenon, <1>3 DEF Top
  <1>5. ASSUME NEW i \in 1 .. m
        PROVE  /\ Kept(scopes'[i], scopes[i])
               /\ i < m => scopes'[i].forgiven /\ scopes'[i].pc = "body"
               /\ scopes'[i].pc \in {"body", "release"} => scopes'[i].old = "none"
    <2>1. CASE i < m
      <3>1. scopes'[i] = scopes[i] /\ i <= f  BY <1>2, <1>3, <2>1
      <3>2. scopes[i].forgiven /\ scopes[i].pc = "body" /\ scopes[i].old = "none"
        BY Zenon, <1>1, <2>1, <3>1 DEF Stack, Phases
      <3> QED  BY Zenon, <3>1, <3>2 DEF Kept
    <2>2. CASE i = m  BY Zenon, <1>2, <1>3, <2>2
    <2> QED  BY <1>2, <2>1, <2>2
  <1> QED  BY Zenon, <1>3, <1>4, <1>5, TransactionGone

\* An inner scope ends: its savepoint goes, and what it wrote goes or stays.
LEMMA InnerEnds ==
  ASSUME SpInv, NEW f \in 0 .. Len(scopes), Stack(f), Marks(f), f + Len(sps) = Len(scopes),
         Len(sps) \in Nat, Len(sps) > 1,
         scopes # <<>>, Top.begun, ~Top.forgiven, Top.pc # "ret", ~Top.outermost,
         NEW r \in ScopeRec, Replace(r), Kept(r, Top), r.pc = "ret", ~r.forgiven, r.own = Top.own,
         sps' = SubSeq(sps, 1, Len(sps) - 1),
         \/ pending' = pending /\ ~(r.err \/ r.panic)
         \/ pending' = SubSeq(pending, 1, sps[Len(sps)].mark) /\ (r.err \/ r.panic),
         UNCHANGED <<durable, opened, chClosed>>, doneCh' = "ch"
  PROVE  SpInv'
  <1>1. SpTypes /\ Phases /\ Ids  BY Zenon DEF SpInv
  <1> DEFINE m == Len(scopes)
             L == Len(sps)
             k0 == IF r.err \/ r.panic THEN sps[L].mark ELSE Len(pending)
  <1>2. m \in Nat \ {0} /\ Top = scopes[m] /\ m \in 1 .. m  BY <1>1, TopIs
  <1>3. /\ scopes' \in Seq(ScopeRec) /\ Len(scopes') = m /\ scopes'[m] = r /\ scopes' # <<>>
        /\ \A i \in 1 .. m : i < m => scopes'[i] = scopes[i]
    <2>1. scopes \in Seq(ScopeRec) /\ LastBecomes(scopes, scopes', r)
      BY Zenon, <1>1 DEF SpTypes, Replace, LastBecomes
    <2> QED  BY <2>1, Replaced
  <1>4. Top' = r  BY Zenon, <1>3 DEF Top
  <1>5. L \in Nat /\ L > 1 /\ L \in 1 .. L /\ f \in Int /\ 0 <= f /\ f + L = m  BY <1>2
  <1>6. /\ sps' \in Seq(Entry) /\ Len(sps') = L - 1 /\ \A j \in 1 .. L - 1 : sps'[j] = sps[j]
    <2>1. sps \in Seq(Entry)  BY Zenon, <1>1 DEF SpTypes
    <2>2. L - 1 \in 0 .. Len(sps)  BY <1>5
    <2> QED  BY Zenon, <2>1, <2>2, CutTo
  <1>7. sps[L] \in Entry /\ sps[L].mark \in Nat /\ sps[L].mark <= Len(pending) /\ Len(pending) \in Nat
    <2>1. sps \in Seq(Entry) /\ Len(pending) \in Nat  BY <1>1 DEF SpTypes
    <2>2. sps[L] \in Entry  BY <1>5, <2>1
    <2>3. sps[L].mark \in Nat  BY Zenon, <2>2 DEF Entry
    <2>4. sps[L].mark <= Len(pending)  BY Zenon, <1>5 DEF Marks
    <2> QED  BY Zenon, <2>1, <2>2, <2>3, <2>4
  <1>8. /\ k0 \in Nat /\ k0 <= Len(pending) /\ k0 >= sps[L].mark
        /\ pending' \in Seq(WriteRec) /\ Len(pending') = k0
        /\ \A k \in 1 .. k0 : pending'[k] = pending[k]
    <2>1. CASE ~(r.err \/ r.panic)  BY <1>1, <1>7, <2>1 DEF SpTypes
    <2>2. CASE r.err \/ r.panic
      <3> DEFINE q == sps[L].mark
      <3>1. pending \in Seq(WriteRec)  BY Zenon, <1>1 DEF SpTypes
      <3>2. q \in 0 .. Len(pending) /\ k0 = q /\ pending' = SubSeq(pending, 1, q)
        BY <1>7, <2>2
      <3>3. q \in Nat /\ q <= Len(pending) /\ k0 >= q  BY <1>7, <3>2
      <3>4. /\ pending' \in Seq(WriteRec) /\ Len(pending') = k0
            /\ \A k \in 1 .. k0 : pending'[k] = pending[k]
        <4> HIDE DEF q, k0
        <4> QED  BY Zenon, <3>1, <3>2, CutTo
      <3> QED  BY Zenon, <3>2, <3>3, <3>4
    <2> QED  BY Zenon, <2>1, <2>2
  <1> HIDE DEF k0
  <1>9. SpTypes'  BY Zenon, <1>1, <1>3, <1>6, <1>8 DEF SpTypes
  <1>10. /\ Range(pending') = {pending[k] : k \in 1 .. k0}
         /\ Range(pending) = {pending[k] : k \in 1 .. Len(pending)}
    <2>1. DOMAIN pending' = 1 .. k0 /\ DOMAIN pending = 1 .. Len(pending)
      BY <1>1, <1>8 DEF SpTypes
    <2> QED  BY Zenon, <1>8, <2>1 DEF Range
  <1>11. AllWrites' = durable \cup Range(pending') /\ AllWrites = durable \cup Range(pending)
         /\ AllWrites' \subseteq AllWrites
    <2>1. AllWrites' = durable \cup Range(pending') /\ AllWrites = durable \cup Range(pending)
      BY Zenon DEF AllWrites
    <2>2. \A k \in 1 .. k0 : k \in 1 .. Len(pending)  BY <1>7, <1>8
    <2> QED  BY Zenon, <1>10, <2>1, <2>2
  <1>12. Ids'
    <2>1. Len(scopes') \in 0 .. Len(scopes)  BY <1>2, <1>3
    <2>2. \A i \in 1 .. Len(scopes') : scopes'[i].id = scopes[i].id
      <3> TAKE i \in 1 .. Len(scopes')
      <3>1. CASE i < m  BY Zenon, <1>3, <3>1
      <3>2. CASE i = m  BY Zenon, <1>2, <1>3, <3>2 DEF Kept
      <3> QED  BY <1>2, <1>3, <3>1, <3>2
    <2> QED  BY Zenon, <1>1, <1>11, <2>1, <2>2, IdsKept
  <1>14. Phases'
    <2>1. ~Holds'  BY Zenon, <1>4 DEF Holds
    <2>2. ASSUME NEW i \in 1 .. m
          PROVE  /\ i < m => scopes'[i].pc = "body"
                 /\ scopes'[i].pc \in {"body", "release"} => scopes'[i].old = "none"
                 /\ scopes'[i].ch = "ch"
                 /\ ~scopes'[i].begun => chClosed'
                 /\ scopes'[i].pc = "rollback" => scopes'[i].err \/ scopes'[i].panic
      <3>1. CASE i < m  BY <1>1, <1>3, <3>1 DEF Phases
      <3>2. CASE i = m
        <4>1. scopes'[i] = r /\ scopes[i] = Top  BY Zenon, <1>2, <1>3, <3>2
        <4>2. Top.ch = "ch"  BY Zenon, <1>1, <4>1 DEF Phases
        <4>3. r.ch = "ch" /\ r.begun  BY Zenon, <4>2 DEF Kept
        <4>4. ~(i < m)  BY <1>2, <3>2
        <4> QED  BY Zenon, <4>1, <4>3, <4>4
      <3>3. i < m \/ i = m
        <4>1. m \in Nat  BY Zenon, <1>2
        <4> HIDE DEF m
        <4> QED  BY <4>1
      <3> QED  BY Zenon, <3>1, <3>2, <3>3
    <2> QED  BY Zenon, <1>3, <2>1, <2>2 DEF Phases
  <1>15. ASSUME NEW j \in 1 .. L - 1
         PROVE  /\ j \in 1 .. L /\ f + j \in 1 .. m /\ f + j < m /\ f + j \in f + 1 .. m
                /\ scopes[f + j].id < Top.id
    <2>1. j \in Int /\ 1 <= j /\ j <= L - 1  BY <1>5
    <2>2. j \in 1 .. L /\ f + j \in 1 .. m /\ f + j < m /\ f + j \in f + 1 .. m
      <3> HIDE DEF L, m
      <3> QED  BY <1>2, <1>5, <2>1
    <2> QED  BY Zenon, <1>1, <1>2, <2>2 DEF Ids
  <1>16. \A k \in 1 .. Len(pending) : k > sps[L].mark => pending[k].by >= Top.id
    BY Zenon, <1>2, <1>5 DEF Marks
  <1>17. ASSUME NEW j \in 1 .. L - 1, NEW k, Written(scopes[f + j].id, k, AllWrites)
         PROVE  Written(scopes[f + j].id, k, AllWrites')
    <2>0. f + j \in 1 .. m /\ scopes[f + j].id < Top.id  BY Zenon, <1>15
    <2>1. PICK x \in Nat : x = scopes[f + j].id /\ x < Top.id
      <3>1. opened \in Nat  BY Zenon, <1>1 DEF SpTypes
      <3>2. scopes[f + j].id \in 1 .. opened  BY Zenon, <1>1, <2>0 DEF Ids
      <3>3. scopes[f + j].id \in Nat  BY <3>1, <3>2
      <3> QED  BY Zenon, <2>0, <3>3
    <2>2. ASSUME NEW w \in AllWrites, w.by = x  PROVE w \in AllWrites'
      <3>1. CASE w \in durable  BY Zenon, <1>11, <3>1
      <3>2. CASE w \in Range(pending)
        <4>1. PICK i \in 1 .. Len(pending) : w = pending[i]  BY Zenon, <1>10, <3>2
        <4>2. Top.id \in Nat  BY Zenon, <1>1, TopIs DEF ScopeRec
        <4>3. ~(i > sps[L].mark)  BY <1>16, <2>1, <2>2, <4>1, <4>2
        <4>4. i \in 1 .. k0  BY <1>7, <1>8, <4>1, <4>3
        <4> QED  BY Zenon, <1>10, <1>11, <4>1, <4>4
      <3> QED  BY Zenon, <1>11, <3>1, <3>2
    <2> QED  BY Zenon, <1>17, <2>1, <2>2, StillWritten
  <1>18. \A j \in 1 .. L - 1 : /\ scopes'[f + j].id = scopes[f + j].id
                              /\ scopes'[f + j].own = scopes[f + j].own
    BY Zenon, <1>3, <1>15
  <1>19. Stack(f)'
    <2>1. f + Len(sps') <= Len(scopes')  BY <1>2, <1>3, <1>5, <1>6
    <2>2. ASSUME NEW i \in 1 .. m
          PROVE  (scopes'[i].forgiven <=> i <= f) /\ (scopes'[i].pc = "rollback" => i > f)
      <3>1. CASE i < m  BY Zenon, <1>3, <3>1 DEF Stack
      <3>2. CASE i = m
        <4>1. scopes'[i] = r /\ ~(i <= f)  BY <1>2, <1>3, <1>5, <3>2
        <4> QED  BY Zenon, <4>1
      <3>3. i < m \/ i = m
        <4>1. m \in Nat  BY Zenon, <1>2
        <4> HIDE DEF m
        <4> QED  BY <4>1
      <3> QED  BY Zenon, <3>1, <3>2, <3>3
    <2>3. ASSUME NEW i \in f + 1 .. m
          PROVE  /\ i <= f + (L - 1) =>
                       /\ scopes'[i].begun /\ scopes'[i].pc # "ret"
                       /\ sps'[i - f].name = scopes'[i].name
                       /\ scopes'[i].outermost \/ scopes'[i].kind = "txn" => i = f + 1
                 /\ i > f + (L - 1) => scopes'[i].pc = "ret"
      <3>0. i \in Int /\ f + 1 <= i /\ i <= m  BY <1>2, <1>5
      <3>1. CASE i <= f + (L - 1)
        <4>1. i \in 1 .. m /\ i < m /\ i - f \in 1 .. L - 1 /\ i <= f + L
          <5> HIDE DEF L, m
          <5> QED  BY <1>2, <1>5, <3>0, <3>1
        <4>2. /\ scopes[i].begun /\ scopes[i].pc # "ret" /\ sps[i - f].name = scopes[i].name
              /\ scopes[i].outermost \/ scopes[i].kind = "txn" => i = f + 1
          BY Zenon, <4>1 DEF Stack
        <4>3. ~(i > f + (L - 1))  BY <1>5, <3>0, <3>1
        <4> QED  BY Zenon, <1>3, <1>6, <4>1, <4>2, <4>3
      <3>2. CASE ~(i <= f + (L - 1))
        <4>1. i = m
          <5> HIDE DEF L, m
          <5> QED  BY <1>2, <1>5, <3>0, <3>2
        <4> QED  BY Zenon, <1>3, <3>2, <4>1
      <3> QED  BY Zenon, <3>1, <3>2
    <2> HIDE DEF m, L
    <2> QED  BY Zenon, <1>3, <1>6, <2>1, <2>2, <2>3 DEF Stack
  <1>20. Marks(f)'
    <2>1. sps' # <<>> /\ sps'[1].mark = 0
      <3>1. 1 \in 1 .. L - 1 /\ sps # <<>>  BY <1>5
      <3>2. sps[1].mark = 0  BY Zenon, <3>1 DEF Marks
      <3>3. sps'[1] = sps[1] /\ Len(sps') = L - 1  BY Zenon, <1>6, <3>1
      <3>4. L - 1 # 0
        <4>1. L \in Nat /\ L > 1  BY Zenon, <1>5
        <4> HIDE DEF L
        <4> QED  BY <4>1
      <3>5. sps' = <<>> => Len(sps') = 0  BY Zenon
      <3> HIDE DEF L
      <3> QED  BY Zenon, <3>2, <3>3, <3>4, <3>5
    <2>2. \A j, k \in 1 .. L - 1 : j <= k => sps'[j].mark <= sps'[k].mark
      BY Zenon, <1>6, <1>15 DEF Marks
    <2>3. ASSUME NEW j \in 1 .. L - 1
          PROVE  /\ sps'[j].mark <= Len(pending')
                 /\ \A k \in 1 .. Len(pending') :
                      /\ k <= sps'[j].mark => scopes'[f + j].id \notin pending'[k].scopes
                      /\ k > sps'[j].mark => pending'[k].by >= scopes'[f + j].id
                 /\ WritesOf(scopes[f + j].id, durable)' = {}
                 /\ Written(scopes'[f + j].id, scopes'[f + j].own, AllWrites')
      <3>1. j \in 1 .. L /\ sps'[j] = sps[j] /\ scopes'[f + j].id = scopes[f + j].id
            /\ scopes'[f + j].own = scopes[f + j].own
        BY Zenon, <1>6, <1>15, <1>18
      <3>2. /\ \A k \in 1 .. Len(pending) :
                 /\ k <= sps[j].mark => scopes[f + j].id \notin pending[k].scopes
                 /\ k > sps[j].mark => pending[k].by >= scopes[f + j].id
            /\ WritesOf(scopes[f + j].id, durable) = {}
            /\ Written(scopes[f + j].id, scopes[f + j].own, AllWrites)
        BY Zenon, <3>1 DEF Marks
      <3>3. sps[j].mark <= Len(pending')
        <4>1. j <= L /\ L \in 1 .. L  BY <1>5, <3>1
        <4>2. sps[j].mark <= sps[L].mark  BY Zenon, <3>1, <4>1 DEF Marks
        <4>a. sps \in Seq(Entry)  BY Zenon, <1>1 DEF SpTypes
        <4>b. sps[j] \in Entry  BY <3>1, <4>a
        <4>3. sps[j].mark \in Nat  BY Zenon, <4>b DEF Entry
        <4> QED  BY <1>7, <1>8, <4>2, <4>3
      <3>4. \A k \in 1 .. Len(pending') : k \in 1 .. Len(pending) /\ pending'[k] = pending[k]
        BY <1>7, <1>8
      <3>5. WritesOf(scopes[f + j].id, durable)' = {}
        BY Zenon, <3>1, <3>2 DEF WritesOf
      <3>6. Written(scopes'[f + j].id, scopes'[f + j].own, AllWrites')
        BY Zenon, <1>17, <3>1, <3>2
      <3> QED  BY Zenon, <3>1, <3>2, <3>3, <3>4, <3>5, <3>6
    <2>4. ASSUME NEW i \in f + 1 .. m, ~scopes'[i].begun
          PROVE  WritesOf(scopes[i].id, AllWrites)' = {}
      <3>1. i \in 1 .. m  BY <1>2, <1>5
      <3>2. i < m
        <4>1. r.begun  BY Zenon DEF Kept
        <4>2. i # m  BY Zenon, <1>3, <2>4, <4>1
        <4> HIDE DEF m
        <4> QED  BY <1>2, <3>1, <4>2
      <3>3. scopes'[i] = scopes[i]  BY Zenon, <1>3, <3>1, <3>2
      <3>4. WritesOf(scopes[i].id, AllWrites) = {}  BY Zenon, <2>4, <3>3 DEF Marks
      <3> QED  BY Zenon, <1>11, <3>3, <3>4 DEF WritesOf
    <2> HIDE DEF L, m
    <2> QED  BY Zenon, <1>3, <1>6, <2>1, <2>2, <2>3, <2>4 DEF Marks
  <1>21. Returned'
    <2>1. CASE r.err \/ r.panic
      <3>1. k0 = sps[L].mark  BY Zenon, <2>1 DEF k0
      <3>2. WritesOf(Top.id, durable) = {}  BY Zenon, <1>2, <1>5 DEF Marks
      <3>3. \A k \in 1 .. k0 : Top.id \notin pending[k].scopes
        <4>1. \A k \in 1 .. Len(pending) : k <= sps[L].mark => Top.id \notin pending[k].scopes
          BY Zenon, <1>2, <1>5 DEF Marks
        <4> QED  BY <1>7, <1>8, <3>1, <4>1
      <3>4. WritesOf(Top.id, AllWrites') = {}
        BY Zenon, <1>10, <1>11, <3>2, <3>3 DEF WritesOf
      <3>5. r.id = Top.id  BY Zenon DEF Kept
      <3> QED  BY Zenon, <1>4, <2>1, <3>4, <3>5 DEF Returned, WritesOf
    <2>2. CASE ~(r.err \/ r.panic)
      <3>1. pending' = pending /\ AllWrites' = AllWrites  BY Zenon, <1>11, <2>2
      <3>2. Written(Top.id, Top.own, AllWrites)  BY Zenon, <1>2, <1>5 DEF Marks
      <3>3. r.id = Top.id /\ ~r.outermost  BY Zenon DEF Kept
      <3> QED  BY Zenon, <1>4, <2>2, <3>1, <3>2, <3>3 DEF Returned
    <2> QED  BY Zenon, <2>1, <2>2
  <1>22. f \in 0 .. Len(scopes')  BY Zenon, <1>3
  <1> QED  BY Zenon, <1>9, <1>12, <1>14, <1>19, <1>20, <1>21, <1>22 DEF SpInv

\* EndScope with an error that rolls the whole transaction back.
LEMMA FailAndForgiveKept ==
  ASSUME SpInv, scopes # <<>>, Top.pc = "release", Top.begun, ~Autocommit, FailAndForgive, RollbackAll,
         UNCHANGED <<opened, doneCh, chClosed>>
  PROVE  SpInv'
  <1>1. SpTypes /\ Phases /\ Ids  BY Zenon DEF SpInv
  <1>2. PICK f \in 0 .. Len(scopes) : Stack(f) /\ Marks(f)  BY Zenon DEF SpInv
  <1> DEFINE F == Forgive(scopes)
             m == Len(scopes)
             L == Len(sps)
             r == [Top EXCEPT !.pc = "ret", !.err = TRUE]
  <1>3. m \in Nat \ {0} /\ Top = scopes[m] /\ m \in 1 .. m /\ Top \in ScopeRec
    BY <1>1, TopIs
  <1>4. /\ F \in Seq(ScopeRec) /\ Len(F) = m
        /\ \A i \in 1 .. m : /\ Kept(F[i], scopes[i]) /\ F[i].forgiven
                             /\ F[i].pc = scopes[i].pc /\ F[i].old = scopes[i].old
                             /\ F[i] \in ScopeRec
    BY <1>1, Forgiven
  <1>5. ~Top.forgiven /\ f + L = m /\ L \in Nat \ {0}  BY <1>1, <1>2, FindsItsOwn
  <1>6. /\ r \in ScopeRec /\ r.pc = "ret" /\ r.err /\ ~r.forgiven /\ Kept(r, Top)
    BY Zenon, <1>3, <1>5 DEF ScopeRec, Kept
  <1>7. LastBecomes(F, scopes', r)  BY Zenon, <1>4 DEF LastBecomes, FailAndForgive
  <1> HIDE DEF F, r
  <1>8. /\ scopes' \in Seq(ScopeRec) /\ Len(scopes') = m /\ scopes'[m] = r
        /\ \A i \in 1 .. m : i < m => scopes'[i] = F[i]
    <2>1. F # <<>> /\ F \in Seq(ScopeRec) /\ r \in ScopeRec
      BY Zenon, <1>3, <1>4, <1>6
    <2> QED  BY <1>4, <1>7, <2>1, Replaced
  <1>9. Top' = r  BY Zenon, <1>8 DEF Top
  <1>10. ASSUME NEW i \in 1 .. m
         PROVE  /\ Kept(scopes'[i], scopes[i])
                /\ i < m => scopes'[i].forgiven /\ scopes'[i].pc = "body"
                /\ scopes'[i].pc \in {"body", "release"} => scopes'[i].old = "none"
    <2>1. i < m => scopes[i].pc = "body"  BY Zenon, <1>1 DEF Phases
    <2>2. scopes[i].pc \in {"body", "release"} => scopes[i].old = "none"
      BY Zenon, <1>1 DEF Phases
    <2>3. CASE i < m  BY Zenon, <1>4, <1>8, <2>1, <2>2, <2>3
    <2>4. CASE i = m
      <3>1. scopes'[i] = r /\ scopes[i] = Top /\ ~(i < m)  BY <1>3, <1>8, <2>4
      <3> QED  BY Zenon, <1>6, <3>1
    <2>5. i < m \/ i = m
      <3>1. m \in Nat  BY Zenon, <1>3
      <3> HIDE DEF m
      <3> QED  BY <3>1
    <2> QED  BY Zenon, <2>3, <2>4, <2>5
  <1>11. /\ durable' \in SUBSET WriteRec /\ AllWrites' = durable
         /\ sps' = <<>> /\ pending' = <<>> /\ AllWrites' \subseteq AllWrites
    BY Zenon, <1>1, RolledBack
  <1>12. doneCh = "ch"  BY Zenon, <1>1 DEF Phases, Holds
  <1>13. Returned'
    <2>1. WritesOf(scopes[f + L].id, durable) = {}
      <3>1. L \in 1 .. L  BY <1>5
      <3> QED  BY Zenon, <1>2, <3>1 DEF Marks
    <2>2. r.id = Top.id /\ scopes[f + L] = Top  BY Zenon, <1>3, <1>5, <1>6 DEF Kept
    <2> QED  BY Zenon, <1>6, <1>9, <1>11, <2>1, <2>2 DEF Returned, WritesOf
  <1> HIDE DEF m, L
  <1>14. Len(scopes') = Len(scopes)  BY Zenon, <1>8 DEF m
  <1>15. /\ \A i \in 1 .. Len(scopes) :
               /\ Kept(scopes'[i], scopes[i])
               /\ i < Len(scopes) => scopes'[i].forgiven /\ scopes'[i].pc = "body"
         /\ \A i \in 1 .. Len(scopes) : scopes'[i].pc \in {"body", "release"} => scopes'[i].old = "none"
    BY Zenon, <1>10 DEF m
  <1>16. Top'.pc = "ret"  BY Zenon, <1>6, <1>9
  <1> QED  BY Zenon, <1>8, <1>11, <1>12, <1>13, <1>14, <1>15, <1>16, TransactionGone

\* EndScope with RELEASE or COMMIT that succeeds.
LEMMA SucceedsKept ==
  ASSUME SpInv, scopes # <<>>, Top.pc = "release", Top.begun, ~Autocommit, ~(Top.err \/ Top.panic),
         IF Top.kind = "txn" THEN Commit ELSE Release(Top.name), ToPhase("ret"),
         UNCHANGED <<opened, doneCh, chClosed>>
  PROVE  SpInv'
  <1>1. SpTypes /\ Phases /\ Ids  BY Zenon DEF SpInv
  <1>2. PICK f \in 0 .. Len(scopes) : Stack(f) /\ Marks(f)  BY Zenon DEF SpInv
  <1> DEFINE m == Len(scopes)
             L == Len(sps)
             r == [Top EXCEPT !.pc = "ret"]
  <1>3. m \in Nat \ {0} /\ Top = scopes[m] /\ m \in 1 .. m /\ Top \in ScopeRec
    BY <1>1, TopIs
  <1>4. /\ ~Top.forgiven /\ f + L = m /\ L \in Nat \ {0} /\ Max(Matching(Top.name)) = L
        /\ Top.outermost \/ Top.kind = "txn" => L = 1
    BY <1>1, <1>2, FindsItsOwn
  <1>5. /\ r \in ScopeRec /\ r.pc = "ret" /\ ~(r.err \/ r.panic) /\ ~r.forgiven /\ Kept(r, Top)
        /\ r.own = Top.own
    BY Zenon, <1>3, <1>4 DEF ScopeRec, Kept
  <1>6. Replace(r)  BY Zenon, <1>1, <1>3 DEF Replace, ToPhase, SpTypes
  <1> HIDE DEF r
  <1>7. doneCh' = "ch"  BY Zenon, <1>1 DEF Phases, Holds
  <1>8. CASE L = 1
    <2>1. Commit  BY Zenon, <1>4, <1>8 DEF Release
    <2>2. /\ durable' \in SUBSET WriteRec
          /\ sps' = <<>> /\ pending' = <<>> /\ AllWrites' = AllWrites
      BY Zenon, <1>1, <2>1, Committed
    <2>3. Top' = r
      <3>1. LastBecomes(scopes, scopes', r) /\ scopes \in Seq(ScopeRec)
        BY Zenon, <1>1, <1>6 DEF Replace, LastBecomes, SpTypes
      <3>2. Len(scopes') = m /\ scopes'[m] = r  BY <1>5, <3>1, Replaced
      <3> QED  BY Zenon, <3>2 DEF Top
    <2>4. Returned'
      <3>1. Written(scopes[f + L].id, scopes[f + L].own, AllWrites)
        <4>1. L \in 1 .. L  BY <1>4
        <4> QED  BY Zenon, <1>2, <4>1 DEF Marks
      <3>2. r.id = Top.id /\ scopes[f + L] = Top
        BY Zenon, <1>3, <1>4, <1>5 DEF Kept
      <3>3. Range(pending') = {}  BY <2>2 DEF Range
      <3> QED  BY Zenon, <1>5, <2>2, <2>3, <3>1, <3>2, <3>3 DEF Returned, WritesOf
    <2>5. Top.pc # "ret" /\ AllWrites' \subseteq AllWrites /\ f + 1 = Len(scopes)
      BY Zenon, <1>4, <1>8, <2>2
    <2> QED  BY Zenon, <1>2, <1>4, <1>5, <1>6, <1>7, <2>2, <2>4, <2>5, OuterEnds
  <1>9. CASE L > 1
    <2>1. Release(Top.name) /\ ~Top.outermost  BY <1>4, <1>9
    <2>2. sps' = SubSeq(sps, 1, L - 1) /\ UNCHANGED <<pending, durable>>
      BY <1>4, <1>9, <2>1 DEF Release
    <2>3. Top.pc # "ret" /\ L \in Nat  BY Zenon, <1>4
    <2> QED
      BY Zenon, <1>2, <1>4, <1>5, <1>6, <1>7, <1>9, <2>1, <2>2, <2>3, InnerEnds
  <1> QED  BY <1>4, <1>8, <1>9

\* The release function ends a scope: RELEASE or COMMIT, or nothing.
LEMMA EndScopeKept == ASSUME SpInv, EndScope  PROVE SpInv'
  <1>1. scopes # <<>> /\ Top.pc = "release" /\ UNCHANGED <<opened, doneCh, chClosed>>
    BY Zenon DEF EndScope
  <1>2. CASE ~Top.begun  BY Zenon, <1>2, EndsQuietlyKept
  <1>3. CASE Top.begun /\ Autocommit  BY Zenon, <1>3, EndsQuietlyKept
  <1>4. CASE Top.begun /\ ~Autocommit /\ (Top.err \/ Top.panic)
    BY Zenon, <1>4, EndsQuietlyKept
  <1>5. CASE Top.begun /\ ~Autocommit /\ ~(Top.err \/ Top.panic)
    <2>1. \/ /\ ~Interrupted
             /\ IF Top.kind = "txn" THEN Commit ELSE Release(Top.name)
             /\ ToPhase("ret")
          \/ GotoErr("rollback") /\ UNCHANGED <<sps, pending, durable>>
          \/ FailAndForgive /\ RollbackAll
      BY Zenon, <1>5 DEF EndScope
    <2>2. CASE (IF Top.kind = "txn" THEN Commit ELSE Release(Top.name)) /\ ToPhase("ret")
      BY Zenon, <1>1, <1>5, <2>2, SucceedsKept
    <2>3. CASE GotoErr("rollback") /\ UNCHANGED <<sps, pending, durable>>
      BY Zenon, <1>5, <2>3, EndsQuietlyKept
    <2>4. CASE FailAndForgive /\ RollbackAll
      BY Zenon, <1>1, <1>5, <2>4, FailAndForgiveKept
    <2> QED  BY Zenon, <2>1, <2>2, <2>3, <2>4
  <1> QED  BY Zenon, <1>2, <1>3, <1>4, <1>5

\* The error path finds its savepoint, and no interrupt stops it.
LEMMA RollbackFinds ==
  ASSUME SpInv, scopes # <<>>, Top.pc = "rollback"
  PROVE  /\ Top.begun /\ ~Autocommit /\ Matching(Top.name) # {}
         /\ Top.old # "none" => ~Interrupted /\ Top.old = "ch"
  <1>1. SpTypes /\ Phases  BY Zenon DEF SpInv
  <1>2. PICK f \in 0 .. Len(scopes) : Stack(f)  BY Zenon DEF SpInv
  <1> DEFINE m == Len(scopes)
             L == Len(sps)
  <1>3. m \in Nat \ {0} /\ Top = scopes[m] /\ m \in 1 .. m  BY <1>1, TopIs
  <1>4. L \in Nat /\ f \in Int /\ 0 <= f /\ f <= m  BY <1>1, <1>3 DEF SpTypes
  <1>5. m > f  BY Zenon, <1>2, <1>3 DEF Stack
  <1>6. m \in f + 1 .. m
    <2> HIDE DEF m
    <2> QED  BY <1>3, <1>4, <1>5
  <1>7. ~(m > f + L)  BY Zenon, <1>2, <1>3, <1>6 DEF Stack
  <1>8. m <= f + L
    <2> HIDE DEF m, L
    <2> QED  BY <1>3, <1>4, <1>7
  <1>9. Top.begun  BY Zenon, <1>2, <1>3, <1>6, <1>8 DEF Stack
  <1>10. ~Autocommit
    <2>1. L # 0
      <3> HIDE DEF m, L
      <3> QED  BY <1>3, <1>4, <1>5, <1>8
    <2> QED  BY <2>1 DEF Autocommit
  <1>11. Matching(Top.name) # {}  BY Zenon, <1>1, <1>2, <1>9, <1>10, FindsItsOwn
  <1>12. Top.old # "none" => ~Interrupted /\ Top.old = "ch"
    BY Zenon, <1>1 DEF Phases, Holds, Interrupted
  <1> QED  BY Zenon, <1>9, <1>10, <1>11, <1>12

\* The release function rolls back: ROLLBACK TO and RELEASE, or ROLLBACK.
LEMMA RollbackKept == ASSUME SpInv, Rollback  PROVE SpInv'
  <1>1. SpTypes /\ Phases /\ Ids  BY Zenon DEF SpInv
  <1>2. PICK f \in 0 .. Len(scopes) : Stack(f) /\ Marks(f)  BY Zenon DEF SpInv
  <1> DEFINE m == Len(scopes)
             L == Len(sps)
             r == [Top EXCEPT !.pc = "ret"]
  <1>3. /\ scopes # <<>> /\ Top.pc = "rollback" /\ Top.old # "none" /\ doneCh' = Top.old
        /\ UNCHANGED <<opened, chClosed>>
    BY Zenon DEF Rollback
  <1>4. m \in Nat \ {0} /\ Top = scopes[m] /\ m \in 1 .. m /\ Top \in ScopeRec
    BY <1>1, <1>3, TopIs
  <1>5. /\ Top.begun /\ ~Autocommit /\ Matching(Top.name) # {} /\ ~Interrupted /\ doneCh' = "ch"
    BY Zenon, <1>3, RollbackFinds
  <1>6. /\ IF Top.kind = "txn" THEN RollbackAll ELSE RollbackTo(Top.name)
        /\ ToPhase("ret")
    BY Zenon, <1>5 DEF Rollback
  <1>7. /\ ~Top.forgiven /\ f + L = m /\ L \in Nat \ {0} /\ Max(Matching(Top.name)) = L
        /\ Top.outermost \/ Top.kind = "txn" => L = 1
    BY Zenon, <1>1, <1>2, <1>3, <1>5, FindsItsOwn
  <1>8. Top.err \/ Top.panic  BY Zenon, <1>1, <1>3, <1>4 DEF Phases
  <1>9. /\ r \in ScopeRec /\ r.pc = "ret" /\ (r.err \/ r.panic) /\ ~r.forgiven /\ Kept(r, Top)
        /\ r.own = Top.own
    BY <1>4, <1>7, <1>8 DEF ScopeRec, Kept
  <1>10. Replace(r)  BY Zenon, <1>1, <1>4, <1>6 DEF Replace, ToPhase, SpTypes
  <1> HIDE DEF r
  <1>11. CASE L = 1
    <2>1. RollbackAll
      <3>1. CASE Top.kind = "txn"  BY Zenon, <1>6, <3>1
      <3>2. CASE Top.kind # "txn"
        <4>1. /\ sps' = SubSeq(sps, 1, 1 - 1) /\ pending' = SubSeq(pending, 1, sps[1].mark)
              /\ UNCHANGED durable
          BY Zenon, <1>6, <1>7, <1>11, <3>2 DEF RollbackTo
        <4>2. sps[1].mark = 0  BY Zenon, <1>2, <1>5 DEF Marks, Autocommit
        <4>3. SubSeq(sps, 1, 0) = <<>> /\ SubSeq(pending, 1, 0) = <<>>
          BY <1>1 DEF SpTypes
        <4>4. 1 - 1 = 0  OBVIOUS
        <4> QED  BY Zenon, <4>1, <4>2, <4>3, <4>4 DEF RollbackAll
      <3> QED  BY Zenon, <3>1, <3>2
    <2>2. /\ durable' \in SUBSET WriteRec /\ AllWrites' = durable
          /\ sps' = <<>> /\ pending' = <<>> /\ AllWrites' \subseteq AllWrites
      BY Zenon, <1>1, <2>1, RolledBack
    <2>3. Top' = r
      <3>1. LastBecomes(scopes, scopes', r) /\ scopes \in Seq(ScopeRec)
        BY Zenon, <1>1, <1>10 DEF Replace, LastBecomes, SpTypes
      <3>2. Len(scopes') = m /\ scopes'[m] = r  BY <1>3, <1>9, <3>1, Replaced
      <3> QED  BY Zenon, <3>2 DEF Top
    <2>4. Returned'
      <3>1. WritesOf(scopes[f + L].id, durable) = {}
        <4>1. L \in 1 .. L  BY <1>7
        <4> QED  BY Zenon, <1>2, <4>1 DEF Marks
      <3>2. r.id = Top.id /\ scopes[f + L] = Top
        BY Zenon, <1>4, <1>7, <1>9 DEF Kept
      <3> QED  BY Zenon, <1>9, <2>2, <2>3, <3>1, <3>2 DEF Returned, WritesOf
    <2>5. Top.pc # "ret" /\ f + 1 = Len(scopes)  BY Zenon, <1>3, <1>7, <1>11
    <2> QED
      BY Zenon, <1>2, <1>3, <1>5, <1>7, <1>9, <1>10, <2>2, <2>4, <2>5, OuterEnds
  <1>12. CASE L > 1
    <2>1. RollbackTo(Top.name) /\ ~Top.outermost  BY <1>6, <1>7, <1>12
    <2>2. /\ sps' = SubSeq(sps, 1, L - 1) /\ pending' = SubSeq(pending, 1, sps[L].mark)
          /\ UNCHANGED durable
      BY Zenon, <1>7, <2>1 DEF RollbackTo
    <2>3. Top.pc # "ret" /\ L \in Nat  BY Zenon, <1>3, <1>7
    <2> QED
      BY Zenon, <1>2, <1>3, <1>5, <1>7, <1>9, <1>10, <1>12, <2>1, <2>2, <2>3, InnerEnds
  <1> QED  BY <1>7, <1>11, <1>12

\* t is s with e at its end.
GrownBy(s, t, e) == t = Append(s, e)

\* The elements of a sequence that has grown.
LEMMA Appended ==
  ASSUME NEW S, NEW s \in Seq(S), NEW e \in S, NEW t, GrownBy(s, t, e)
  PROVE  /\ t \in Seq(S) /\ Len(t) = Len(s) + 1 /\ t[Len(s) + 1] = e /\ t # <<>>
         /\ \A i \in 1 .. Len(s) : t[i] = s[i]
  <1>1. /\ t \in Seq(S) /\ Len(t) = Len(s) + 1 /\ t[Len(s) + 1] = e
        /\ \A i \in 1 .. Len(s) : t[i] = s[i]
    BY LongerBy DEF GrownBy
  <1>2. t = <<>> => Len(t) = 0  OBVIOUS
  <1>3. Len(s) + 1 # 0
    <2> DEFINE k == Len(s)
    <2>1. k \in Nat  OBVIOUS
    <2> HIDE DEF k
    <2>2. k + 1 # 0  BY <2>1
    <2> QED  BY Zenon, <2>2 DEF k
  <1> QED  BY Zenon, <1>1, <1>2, <1>3

\* A scope is opened: ids stay fresh, and a savepoint marks the writes so far.
Opens(kind, name, b) ==
    /\ InGo /\ (~b <=> Interrupted)
    /\ scopes' = Append(scopes, Scope(kind, name, b)) /\ opened' = opened + 1
    /\ IF b THEN sps' = Append(sps, [name |-> name, mark |-> Len(pending)]) ELSE sps' = sps
    /\ b /\ kind = "txn" => Autocommit
    /\ UNCHANGED <<pending, durable, doneCh, chClosed>>

\* A scope is opened, whether its first statement succeeds or not.
LEMMA OpensKept ==
  ASSUME SpInv, NEW kind \in {"save", "script", "txn"}, NEW name \in SpNames, NEW b \in BOOLEAN,
         Opens(kind, name, b)
  PROVE  SpInv'
  <1>1. SpTypes /\ Phases /\ Ids  BY Zenon DEF SpInv
  <1>2. PICK f \in 0 .. Len(scopes) : Stack(f) /\ Marks(f)  BY Zenon DEF SpInv
  <1> DEFINE m == Len(scopes)
             L == Len(sps)
             x == opened + 1
             s == Scope(kind, name, b)
             e == [name |-> name, mark |-> Len(pending)]
  <1>3. m \in Nat /\ L \in Nat /\ opened \in Nat /\ Len(pending) \in Nat /\ f \in Int /\ 0 <= f /\ f <= m
        /\ f + L <= m
    BY <1>1, <1>2 DEF SpTypes, Stack
  <1>4. InGo /\ (~b <=> Interrupted) /\ UNCHANGED <<pending, durable, doneCh, chClosed>> /\ opened' = x
    BY Zenon DEF Opens
  <1>5. doneCh = "ch" /\ ~Holds  BY Zenon, <1>1, <1>4 DEF Phases, Holds, InGo
  <1>6. s \in ScopeRec /\ s.id = x /\ s.pc = "body" /\ s.begun = b /\ s.old = "none" /\ s.ch = "ch"
        /\ s.outermost = Autocommit /\ ~s.forgiven /\ s.own = 0 /\ s.kind = kind /\ s.name = name
    BY SMTT(20), <1>3, <1>5 DEF Scope, ScopeRec, Autocommit
  <1>7. scopes' = Append(scopes, s)  BY Zenon DEF Opens
  <1> HIDE DEF s
  <1>8. /\ scopes' \in Seq(ScopeRec) /\ Len(scopes') = m + 1 /\ scopes'[m + 1] = s /\ scopes' # <<>>
        /\ \A i \in 1 .. m : scopes'[i] = scopes[i]
    <2>1. scopes \in Seq(ScopeRec) /\ GrownBy(scopes, scopes', s)
      BY Zenon, <1>1, <1>7 DEF SpTypes, GrownBy
    <2> QED  BY <1>6, <2>1, Appended
  <1>9. Top' = s  BY Zenon, <1>8 DEF Top
  <1>10. \A i \in 1 .. m : scopes[i].pc = "body"
    <2> TAKE i \in 1 .. m
    <2>1. CASE i < m  BY Zenon, <1>1, <2>1 DEF Phases
    <2>2. CASE i = m
      <3>1. scopes # <<>>  BY <1>1, <2>2 DEF SpTypes
      <3> QED  BY Zenon, <1>4, <2>2, <3>1 DEF InGo, Top
    <2>3. i < m \/ i = m
      <3>1. m \in Nat  BY Zenon, <1>3
      <3> HIDE DEF m
      <3> QED  BY <3>1
    <2> QED  BY Zenon, <2>1, <2>2, <2>3
  <1>11. AllWrites' = AllWrites  BY Zenon, <1>4 DEF AllWrites
  <1>12. \A w \in AllWrites : w \in WriteRec /\ w.by \in Nat /\ w.by <= opened /\ w.scopes \subseteq 1 .. opened
    <2>1. \A w \in AllWrites : w \in WriteRec
      <3>1. \A w \in Range(pending) : w \in WriteRec  BY <1>1 DEF SpTypes, Range
      <3> QED  BY Zenon, <1>1, <3>1 DEF AllWrites, SpTypes
    <2> QED  BY Zenon, <1>1, <2>1 DEF Ids, WriteRec
  <1>13. \A w \in AllWrites : w.by # x /\ x \notin w.scopes
    <2> TAKE w \in AllWrites
    <2>1. x \notin 1 .. opened  BY <1>3
    <2>2. \A y \in Nat : y <= opened => y # x  BY <1>3
    <2> QED  BY Zenon, <1>12, <2>1, <2>2
  <1> HIDE DEF x
  <1>14. WritesOf(x, AllWrites) = {} /\ WritesOf(x, durable) = {}
    BY Zenon, <1>13 DEF WritesOf, AllWrites
  <1>15. \A i \in 1 .. m + 1 : i \in 1 .. m \/ i = m + 1
    <2>1. m \in Nat  BY Zenon, <1>3
    <2> HIDE DEF m
    <2> QED  BY <2>1
  <1>16. x \in Nat /\ x \in 1 .. x /\ \A y \in 1 .. opened : y \in 1 .. x /\ y < x
    BY <1>3 DEF x
  <1>17. Ids'
    <2>1. \A i \in 1 .. m : scopes'[i].id \in 1 .. opened
      BY Zenon, <1>1, <1>8 DEF Ids
    <2>2. \A i \in 1 .. m + 1 : scopes'[i].id \in 1 .. x
      BY Zenon, <1>6, <1>8, <1>15, <1>16, <2>1
    <2>3. ASSUME NEW i \in 1 .. m + 1, NEW k \in 1 .. m + 1, i < k
          PROVE  scopes'[i].id < scopes'[k].id
      <3>1. i \in 1 .. m
        <4>1. m \in Nat  BY Zenon, <1>3
        <4> HIDE DEF m
        <4> QED  BY <2>3, <4>1
      <3>2. CASE k \in 1 .. m  BY Zenon, <1>1, <1>8, <2>3, <3>1, <3>2 DEF Ids
      <3>3. CASE k = m + 1
        <4>1. scopes'[i].id < x  BY Zenon, <1>16, <2>1, <3>1
        <4> QED  BY Zenon, <1>6, <1>8, <3>3, <4>1
      <3> QED  BY Zenon, <1>15, <3>2, <3>3
    <2>4. \A w \in AllWrites' : w.by <= x /\ w.scopes \subseteq 1 .. x
      <3> TAKE w \in AllWrites'
      <3>1. w.by \in Nat /\ w.by <= opened /\ w.scopes \subseteq 1 .. opened
        BY Zenon, <1>11, <1>12
      <3>2. \A y \in Nat : y <= opened => y <= x  BY <1>3 DEF x
      <3> QED  BY Zenon, <1>16, <3>1, <3>2
    <2> HIDE DEF m
    <2> QED  BY Zenon, <1>4, <1>8, <2>2, <2>3, <2>4 DEF Ids
  <1>19. Returned'  BY Zenon, <1>6, <1>9 DEF Returned
  <1>20. chClosed <=> ~b  BY Zenon, <1>1, <1>4, <1>5 DEF Interrupted, SpTypes
  <1>21. Phases'
    <2>1. ~Holds'  BY Zenon, <1>6, <1>9 DEF Holds
    <2>2. ASSUME NEW i \in 1 .. m + 1
          PROVE  /\ scopes'[i].pc = "body" /\ scopes'[i].old = "none"
                 /\ scopes'[i].ch = "ch" /\ (~scopes'[i].begun => chClosed)
      <3>1. CASE i \in 1 .. m
        <4>1. scopes'[i] = scopes[i] /\ scopes[i].pc = "body"
          BY Zenon, <1>8, <1>10, <3>1
        <4>2. scopes[i].old = "none" /\ scopes[i].ch = "ch" /\ (~scopes[i].begun => chClosed)
          BY Zenon, <1>1, <3>1, <4>1 DEF Phases
        <4> QED  BY Zenon, <4>1, <4>2
      <3>2. CASE i = m + 1
        <4>1. scopes'[i] = s  BY Zenon, <1>8, <3>2
        <4> QED  BY Zenon, <1>6, <1>20, <4>1
      <3> QED  BY Zenon, <1>15, <3>1, <3>2
    <2> HIDE DEF m
    <2> QED  BY Zenon, <1>4, <1>5, <1>8, <2>1, <2>2 DEF Phases
  <1>22. ASSUME NEW i \in 1 .. m + 1
         PROVE  (scopes'[i].forgiven <=> i <= f) /\ scopes'[i].pc = "body"
    <2>1. CASE i \in 1 .. m  BY Zenon, <1>2, <1>8, <1>10, <2>1 DEF Stack
    <2>2. CASE i = m + 1
      <3>1. ~(i <= f)
        <4> HIDE DEF m
        <4> QED  BY <1>3, <2>2
      <3>2. scopes'[i] = s  BY Zenon, <1>8, <2>2
      <3> QED  BY Zenon, <1>6, <3>1, <3>2
    <2> QED  BY Zenon, <1>15, <2>1, <2>2
  <1>23. \A i \in f + 1 .. m + 1 : i \in 1 .. m + 1 /\ ((i \in f + 1 .. m /\ i \in 1 .. m) \/ i = m + 1)
    <2>1. m \in Nat  BY Zenon, <1>3
    <2> HIDE DEF m
    <2> QED  BY <1>3, <2>1
  <1>24. ASSUME NEW j \in 1 .. L
         PROVE  /\ f + j \in 1 .. m /\ scopes'[f + j] = scopes[f + j]
                /\ WritesOf(scopes[f + j].id, durable)' = WritesOf(scopes[f + j].id, durable)
    <2>1. f + j \in 1 .. m
      <3>1. j \in Int /\ 1 <= j /\ j <= L  BY <1>3
      <3> HIDE DEF m, L
      <3> QED  BY <1>3, <3>1
    <2>2. scopes'[f + j] = scopes[f + j]  BY Zenon, <1>8, <2>1
    <2> QED  BY Zenon, <1>4, <2>1, <2>2 DEF WritesOf
  <1>25. \A i \in f + 1 .. m + 1 : ~scopes'[i].begun => WritesOf(scopes[i].id, AllWrites)' = {}
    <2> TAKE i \in f + 1 .. m + 1
    <2> HAVE ~scopes'[i].begun
    <2>1. CASE i \in f + 1 .. m /\ i \in 1 .. m
      <3>1. scopes'[i] = scopes[i]  BY Zenon, <1>8, <2>1
      <3>2. WritesOf(scopes[i].id, AllWrites) = {}  BY Zenon, <1>2, <2>1, <3>1 DEF Marks
      <3> QED  BY Zenon, <1>11, <3>1, <3>2 DEF WritesOf
    <2>2. CASE i = m + 1
      <3>1. scopes'[i].id = x  BY Zenon, <1>6, <1>8, <2>2
      <3> QED  BY Zenon, <1>11, <1>14, <3>1 DEF WritesOf
    <2> QED  BY Zenon, <1>23, <2>1, <2>2
  <1>26. f \in 0 .. Len(scopes')
    <2> HIDE DEF m
    <2> QED  BY <1>3, <1>8
  <1>27. CASE ~b
    <2>1. sps' = sps  BY Zenon, <1>27 DEF Opens
    <2>2. SpTypes'  BY Zenon, <1>1, <1>3, <1>4, <1>8, <1>16, <2>1 DEF SpTypes
    <2>3. Stack(f)'
      <3>1. f + L <= m + 1
        <4> HIDE DEF m, L
        <4> QED  BY <1>3
      <3>2. ASSUME NEW i \in f + 1 .. m + 1
            PROVE  /\ i <= f + L =>
                        /\ scopes'[i].begun /\ scopes'[i].pc # "ret" /\ sps[i - f].name = scopes'[i].name
                        /\ scopes'[i].outermost \/ scopes'[i].kind = "txn" => i = f + 1
                   /\ i > f + L =>
                        /\ ~scopes'[i].begun \/ scopes'[i].pc = "ret"
                        /\ scopes'[i].pc # "rollback"
        <4>1. CASE i \in f + 1 .. m /\ i \in 1 .. m
          <5>1. scopes'[i] = scopes[i]  BY Zenon, <1>8, <4>1
          <5> QED  BY Zenon, <1>2, <4>1, <5>1 DEF Stack
        <4>2. CASE i = m + 1
          <5>1. ~(i <= f + L)
            <6> HIDE DEF m, L
            <6> QED  BY <1>3, <4>2
          <5>2. scopes'[i] = s  BY Zenon, <1>8, <4>2
          <5> QED  BY Zenon, <1>6, <1>27, <5>1, <5>2
        <4> QED  BY Zenon, <1>23, <4>1, <4>2
      <3> HIDE DEF m
      <3> QED  BY Zenon, <1>8, <1>22, <2>1, <3>1, <3>2 DEF Stack
    <2>4. Marks(f)'
      <3>1. ASSUME NEW j \in 1 .. L
            PROVE  /\ sps[j].mark <= Len(pending)
                   /\ \A k \in 1 .. Len(pending) :
                        /\ k <= sps[j].mark => scopes'[f + j].id \notin pending[k].scopes
                        /\ k > sps[j].mark => pending[k].by >= scopes'[f + j].id
                   /\ WritesOf(scopes[f + j].id, durable)' = {}
                   /\ Written(scopes'[f + j].id, scopes'[f + j].own, AllWrites')
        BY Zenon, <1>2, <1>11, <1>24 DEF Marks
      <3>2. /\ sps = <<>> => pending = <<>>
            /\ sps # <<>> => sps[1].mark = 0
            /\ \A j, k \in 1 .. Len(sps) : j <= k => sps[j].mark <= sps[k].mark
        BY Zenon, <1>2 DEF Marks
      <3> HIDE DEF m
      <3> QED  BY Zenon, <1>4, <1>8, <1>25, <2>1, <3>1, <3>2 DEF Marks
    <2> QED  BY Zenon, <1>17, <1>19, <1>21, <1>26, <2>2, <2>3, <2>4 DEF SpInv
  <1>28. CASE b
    <2>1. f + L = m
      <3>1. CASE f = m
        <4> HIDE DEF m, L
        <4> QED  BY <1>3, <3>1
      <3>2. CASE f < m
        <4>1. m \in f + 1 .. m /\ m \in 1 .. m
          <5> HIDE DEF m
          <5> QED  BY <1>3, <3>2
        <4>2. scopes[m].begun /\ scopes[m].pc = "body"
          BY Zenon, <1>1, <1>10, <1>20, <1>28, <4>1 DEF Phases
        <4>3. ~(m > f + L)  BY Zenon, <1>2, <4>1, <4>2 DEF Stack
        <4> HIDE DEF m, L
        <4> QED  BY <1>3, <4>3
      <3> HIDE DEF m
      <3> QED  BY <1>3, <3>1, <3>2
    <2>2. GrownBy(sps, sps', e) /\ sps \in Seq(Entry) /\ e \in Entry
      BY Zenon, <1>1, <1>3, <1>28 DEF Opens, GrownBy, SpTypes, Entry
    <2>3. e.name = name /\ e.mark = Len(pending)  BY Zenon
    <2> HIDE DEF e
    <2>4. /\ sps' \in Seq(Entry) /\ Len(sps') = L + 1 /\ sps'[L + 1] = e /\ sps' # <<>>
          /\ \A j \in 1 .. L : sps'[j] = sps[j]
      BY <2>2, Appended
    <2>5. SpTypes'  BY Zenon, <1>1, <1>4, <1>8, <1>16, <2>4 DEF SpTypes
    <2>6. \A j \in 1 .. L + 1 : j \in 1 .. L \/ j = L + 1
      <3>1. L \in Nat  BY Zenon, <1>3
      <3> HIDE DEF L
      <3> QED  BY <3>1
    <2>7. Autocommit => L = 0  BY DEF Autocommit
    <2>8. f + (L + 1) = m + 1
      <3> HIDE DEF m, L
      <3> QED  BY <1>3, <2>1
    <2>9. Stack(f)'
      <3>2. ASSUME NEW i \in f + 1 .. m + 1
            PROVE  /\ i <= f + (L + 1)
                   /\ scopes'[i].begun /\ scopes'[i].pc # "ret" /\ sps'[i - f].name = scopes'[i].name
                   /\ scopes'[i].outermost \/ scopes'[i].kind = "txn" => i = f + 1
                   /\ ~(i > f + (L + 1))
        <4>0. i <= f + (L + 1) /\ ~(i > f + (L + 1))
          <5>1. i \in Int /\ i <= m + 1  BY <1>3
          <5> HIDE DEF m, L
          <5> QED  BY <1>3, <2>8, <5>1
        <4>1. CASE i \in f + 1 .. m /\ i \in 1 .. m
          <5>1. scopes'[i] = scopes[i]  BY Zenon, <1>8, <4>1
          <5>2. i - f \in 1 .. L /\ i <= f + L
            <6>1. i \in Int /\ f + 1 <= i /\ i <= m  BY <1>3, <4>1
            <6> HIDE DEF m, L
            <6> QED  BY <1>3, <2>1, <6>1
          <5>3. sps'[i - f] = sps[i - f]  BY Zenon, <2>4, <5>2
          <5> QED  BY Zenon, <1>2, <4>0, <4>1, <5>1, <5>2, <5>3 DEF Stack
        <4>2. CASE i = m + 1
          <5>1. i - f = L + 1
            <6> HIDE DEF m, L
            <6> QED  BY <1>3, <2>1, <4>2
          <5>2. scopes'[i] = s  BY Zenon, <1>8, <4>2
          <5>3. kind = "txn" => Autocommit  BY Zenon, <1>28 DEF Opens
          <5>4. Autocommit => i = f + 1
            <6> HIDE DEF m, L
            <6> QED  BY <1>3, <2>7, <2>1, <4>2
          <5> QED  BY Zenon, <1>6, <1>28, <2>3, <2>4, <4>0, <5>1, <5>2, <5>3, <5>4
        <4> QED  BY Zenon, <1>23, <4>1, <4>2
      <3>3. f + (L + 1) <= m + 1
        <4> HIDE DEF m, L
        <4> QED  BY <1>3, <2>8
      <3> HIDE DEF m, L
      <3> QED  BY Zenon, <1>8, <1>22, <2>4, <3>2, <3>3 DEF Stack
    <2>10. Marks(f)'
      <3>1. ASSUME NEW j \in 1 .. L + 1
            PROVE  /\ sps'[j].mark <= Len(pending)
                   /\ \A k \in 1 .. Len(pending) :
                        /\ k <= sps'[j].mark => scopes'[f + j].id \notin pending[k].scopes
                        /\ k > sps'[j].mark => pending[k].by >= scopes'[f + j].id
                   /\ WritesOf(scopes[f + j].id, durable)' = {}
                   /\ Written(scopes'[f + j].id, scopes'[f + j].own, AllWrites')
        <4>1. CASE j \in 1 .. L  BY Zenon, <1>2, <1>11, <1>24, <2>4, <4>1 DEF Marks
        <4>2. CASE j = L + 1
          <5>1. f + j = m + 1  BY Zenon, <2>8, <4>2
          <5>2. sps'[j].mark = Len(pending) /\ scopes'[f + j] = s
            BY Zenon, <1>8, <2>3, <2>4, <4>2, <5>1
          <5>3. WritesOf(scopes[f + j].id, durable)' = {}
            BY Zenon, <1>4, <1>6, <1>14, <5>2 DEF WritesOf
          <5>4. \A k \in 1 .. Len(pending) : x \notin pending[k].scopes /\ ~(k > Len(pending))
            <6>1. \A k \in 1 .. Len(pending) : pending[k] \in AllWrites
              BY <1>1 DEF AllWrites, Range, SpTypes
            <6> QED  BY <1>3, <1>13, <6>1
          <5>5. Len(pending) <= Len(pending)  BY <1>3
          <5>6. Written(x, 0, AllWrites')  BY DEF Written
          <5> QED  BY Zenon, <1>6, <5>2, <5>3, <5>4, <5>5, <5>6
        <4> QED  BY Zenon, <2>6, <4>1, <4>2
      <3>2. sps'[1].mark = 0
        <4>1. CASE L = 0
          <5>1. sps = <<>> /\ L + 1 = 1  BY <1>1, <4>1 DEF SpTypes
          <5>2. Len(pending) = 0  BY <1>2, <5>1 DEF Marks
          <5> QED  BY Zenon, <2>3, <2>4, <5>1, <5>2
        <4>2. CASE L # 0
          <5>1. 1 \in 1 .. L /\ sps # <<>>  BY <1>1, <1>3, <4>2 DEF SpTypes
          <5> QED  BY Zenon, <1>2, <2>4, <5>1 DEF Marks
        <4> QED  BY Zenon, <4>1, <4>2
      <3>3. ASSUME NEW j \in 1 .. L + 1, NEW k \in 1 .. L + 1, j <= k
            PROVE  sps'[j].mark <= sps'[k].mark
        <4>1. CASE k \in 1 .. L
          <5>1. j \in 1 .. L
            <6>1. L \in Nat  BY Zenon, <1>3
            <6> HIDE DEF L
            <6> QED  BY <3>3, <4>1, <6>1
          <5> QED  BY Zenon, <1>2, <2>4, <3>3, <4>1, <5>1 DEF Marks
        <4>2. CASE k = L + 1
          <5>1. sps'[k].mark = Len(pending)  BY Zenon, <2>3, <2>4, <4>2
          <5> QED  BY Zenon, <3>1, <5>1
        <4> QED  BY Zenon, <2>6, <4>1, <4>2
      <3> HIDE DEF m, L
      <3> QED  BY Zenon, <1>4, <1>8, <1>25, <2>4, <3>1, <3>2, <3>3 DEF Marks
    <2> QED  BY Zenon, <1>17, <1>19, <1>21, <1>26, <2>5, <2>9, <2>10 DEF SpInv
  <1> QED  BY Zenon, <1>27, <1>28

\* Save, or the savepoint of ExecuteScript.
LEMMA SaveKept ==
  ASSUME SpInv, NEW kind \in {"save", "script"}, NEW name \in Names, Save(kind, name)
  PROVE  SpInv'
  <1>1. kind \in {"save", "script", "txn"} /\ name \in SpNames /\ kind # "txn"
    BY Zenon DEF SpNames
  <1>2. PICK t \in BOOLEAN : t = TRUE  BY Zenon
  <1>3. PICK u \in BOOLEAN : u = FALSE  BY Zenon
  <1>4. InGo /\ UNCHANGED <<doneCh, chClosed>>  BY Zenon DEF Save
  <1>5. CASE /\ ~Interrupted
             /\ sps' = Append(sps, [name |-> name, mark |-> Len(pending)])
             /\ scopes' = Append(scopes, Scope(kind, name, TRUE))
             /\ opened' = opened + 1
             /\ UNCHANGED <<pending, durable>>
    <2>1. Opens(kind, name, t)  BY Zenon, <1>1, <1>2, <1>4, <1>5 DEF Opens
    <2> QED  BY Zenon, <1>1, <2>1, OpensKept
  <1>6. CASE /\ Interrupted
             /\ scopes' = Append(scopes, Scope(kind, name, FALSE))
             /\ opened' = opened + 1
             /\ UNCHANGED <<sps, pending, durable>>
    <2>1. Opens(kind, name, u)  BY Zenon, <1>1, <1>3, <1>4, <1>6 DEF Opens
    <2> QED  BY Zenon, <1>1, <2>1, OpensKept
  <1>7. CASE PanicAround  BY Zenon, <1>4, <1>7, PanicKept
  <1> QED  BY Zenon, <1>5, <1>6, <1>7 DEF Save

\* Transaction, ImmediateTransaction and ExclusiveTransaction.
LEMMA TransactionKept ==
  ASSUME SpInv, NEW mode, Transaction(mode)
  PROVE  SpInv'
  <1>0. PICK kind \in {"save", "script", "txn"} : kind = "txn"  BY Zenon
  <1>1. PICK name \in SpNames : name = "BEGIN"  BY Zenon DEF SpNames
  <1>2. PICK t \in BOOLEAN : t = TRUE  BY Zenon
  <1>3. PICK u \in BOOLEAN : u = FALSE  BY Zenon
  <1>4. InGo /\ UNCHANGED <<doneCh, chClosed>>  BY Zenon DEF Transaction
  <1>5. CASE /\ ~Interrupted /\ Autocommit
             /\ sps' = <<[name |-> "BEGIN", mark |-> 0]>>
             /\ scopes' = Append(scopes, Scope("txn", "BEGIN", TRUE))
             /\ opened' = opened + 1
             /\ UNCHANGED <<pending, durable>>
    <2>1. sps = <<>> /\ Len(pending) = 0
      BY Zenon, <1>5 DEF Autocommit, SpInv, Marks
    <2>2. Append(sps, [name |-> name, mark |-> Len(pending)]) = <<[name |-> "BEGIN", mark |-> 0]>>
      BY <1>1, <2>1
    <2>3. sps' = Append(sps, [name |-> name, mark |-> Len(pending)])  BY Zenon, <1>5, <2>2
    <2>4. Opens(kind, name, t)  BY Zenon, <1>0, <1>1, <1>2, <1>4, <1>5, <2>3 DEF Opens
    <2> QED  BY Zenon, <2>4, OpensKept
  <1>6. CASE /\ Interrupted
             /\ scopes' = Append(scopes, Scope("txn", "BEGIN", FALSE))
             /\ opened' = opened + 1
             /\ UNCHANGED <<sps, pending, durable>>
    <2>1. Opens(kind, name, u)  BY Zenon, <1>0, <1>1, <1>3, <1>4, <1>6 DEF Opens
    <2> QED  BY Zenon, <2>1, OpensKept
  <1>7. CASE PanicAround  BY Zenon, <1>4, <1>7, PanicKept
  <1> QED  BY Zenon, <1>5, <1>6, <1>7 DEF Transaction

\* A statement of the body writes.
LEMMA WriteRowKept == ASSUME SpInv, WriteRow  PROVE SpInv'
  <1>1. SpTypes /\ Phases /\ Ids  BY Zenon DEF SpInv
  <1>2. PICK f \in 0 .. Len(scopes) : Stack(f) /\ Marks(f)  BY Zenon DEF SpInv
  <1> DEFINE m == Len(scopes)
             L == Len(sps)
             q == Len(pending)
             w == [n |-> Top.own + 1, by |-> Top.id, scopes |-> IF Autocommit THEN {} ELSE Around]
             r == [Top EXCEPT !.own = Top.own + 1]
  <1>3. /\ scopes # <<>> /\ Top.pc = "body" /\ ~Interrupted /\ UNCHANGED <<sps, opened, doneCh, chClosed>>
        /\ IF Autocommit THEN durable' = durable \cup {w} /\ UNCHANGED pending
                         ELSE pending' = Append(pending, w) /\ UNCHANGED durable
    BY Zenon DEF WriteRow
  <1>4. m \in Nat \ {0} /\ Top = scopes[m] /\ m \in 1 .. m /\ Top \in ScopeRec
    BY <1>1, <1>3, TopIs
  <1>6. L \in Nat /\ q \in Nat /\ opened \in Nat /\ f \in Int /\ 0 <= f /\ f <= m /\ f + L <= m
    BY <1>1, <1>2, <1>4 DEF SpTypes, Stack
  <1>7. Top.id \in Nat /\ Top.id \in 1 .. opened /\ Top.own \in Nat
    BY Zenon, <1>1, <1>4 DEF Ids, ScopeRec
  <1>9. Around \subseteq 1 .. opened
    <2>1. DOMAIN scopes = 1 .. m  BY <1>1 DEF SpTypes
    <2> QED  BY Zenon, <1>1, <2>1 DEF Around, Ids
  <1>10. /\ w \in WriteRec /\ w.n = Top.own + 1 /\ w.by = Top.id /\ w.scopes \subseteq 1 .. opened
         /\ Autocommit => w.scopes = {}
    <2>1. \A y \in 1 .. opened : y \in Nat  BY <1>6
    <2>2. Top.own + 1 \in Nat  BY <1>7
    <2>3. w.scopes \in SUBSET Nat /\ w.scopes \subseteq 1 .. opened  BY Zenon, <1>9, <2>1
    <2>4. w = [n |-> w.n, by |-> w.by, scopes |-> w.scopes]  BY Zenon
    <2>5. w.n = Top.own + 1 /\ w.by = Top.id /\ (Autocommit => w.scopes = {})  BY Zenon
    <2> HIDE DEF w
    <2>6. w \in WriteRec  BY Zenon, <1>7, <2>2, <2>3, <2>4, <2>5 DEF WriteRec
    <2> QED  BY Zenon, <2>3, <2>5, <2>6
  <1> HIDE DEF w
  <1>11. r \in ScopeRec /\ Kept(r, Top) /\ r.pc = "body" /\ r.old = Top.old /\ r.forgiven = Top.forgiven
         /\ r.own = Top.own + 1
    BY <1>3, <1>4, <1>7 DEF ScopeRec, Kept
  <1>12. LastBecomes(scopes, scopes', r)
    <2>1. scopes' = [scopes EXCEPT ![m].own = @ + 1]  BY Zenon DEF WriteRow
    <2> QED  BY Zenon, <1>1, <1>4, <2>1 DEF LastBecomes, SpTypes
  <1> HIDE DEF r
  <1>13. /\ scopes' \in Seq(ScopeRec) /\ Len(scopes') = m /\ scopes'[m] = r /\ scopes' # <<>>
         /\ \A i \in 1 .. m : i < m => scopes'[i] = scopes[i]
    <2>1. scopes \in Seq(ScopeRec)  BY Zenon, <1>1 DEF SpTypes
    <2> QED  BY <1>3, <1>11, <1>12, <2>1, Replaced
  <1>14. Top' = r  BY Zenon, <1>13 DEF Top
  <1>15. \A i \in 1 .. m : i < m \/ i = m
    <2>1. m \in Nat  BY Zenon, <1>4
    <2> HIDE DEF m
    <2> QED  BY <2>1
  <1>16. doneCh = "ch" /\ ~chClosed
    <2>1. doneCh = "ch"  BY Zenon, <1>1, <1>3 DEF Phases, Holds
    <2> QED  BY Zenon, <1>3, <2>1 DEF Interrupted
  <1>17. ASSUME NEW i \in 1 .. m
         PROVE  /\ Kept(scopes'[i], scopes[i]) /\ scopes'[i].forgiven = scopes[i].forgiven
                /\ scopes'[i].pc = "body" /\ scopes[i].pc = "body" /\ scopes'[i].old = "none"
                /\ scopes[i].begun /\ scopes[i].ch = "ch"
    <2>1. scopes[i].begun /\ scopes[i].ch = "ch"  BY Zenon, <1>1, <1>16 DEF Phases
    <2>2. CASE i < m
      <3>1. scopes'[i] = scopes[i] /\ scopes[i].pc = "body" /\ scopes[i].old = "none"
        BY Zenon, <1>1, <1>13, <2>2 DEF Phases
      <3> QED  BY Zenon, <2>1, <3>1 DEF Kept
    <2>3. CASE i = m
      <3>1. scopes'[i] = r /\ scopes[i] = Top /\ Top.old = "none"
        BY Zenon, <1>1, <1>3, <1>4, <1>13, <2>3 DEF Phases
      <3> QED  BY Zenon, <1>3, <1>11, <2>1, <3>1
    <2> QED  BY Zenon, <1>15, <2>2, <2>3
  <1>18. Phases'
    <2>1. ~Holds'  BY Zenon, <1>11, <1>14 DEF Holds
    <2>2. \A i \in 1 .. m : scopes'[i].ch = "ch" /\ scopes'[i].begun  BY <1>17 DEF Kept
    <2> HIDE DEF m
    <2> QED  BY Zenon, <1>3, <1>13, <1>16, <1>17, <2>1, <2>2 DEF Phases
  <1>19. Returned'  BY Zenon, <1>11, <1>14 DEF Returned
  <1>20. f + L = m
    <2>1. CASE f < m
      <3>1. m \in f + 1 .. m
        <4> HIDE DEF m
        <4> QED  BY <1>4, <1>6, <2>1
      <3>2. ~(m > f + L)  BY Zenon, <1>2, <1>4, <1>17, <3>1 DEF Stack
      <3> HIDE DEF m, L
      <3> QED  BY <1>4, <1>6, <3>2
    <2> HIDE DEF m, L
    <2> QED  BY <1>4, <1>6, <2>1
  <1>21. AllWrites' = AllWrites \cup {w}
    <2>1. CASE Autocommit  BY Zenon, <1>3, <2>1 DEF AllWrites
    <2>2. CASE ~Autocommit
      <3>1. pending' = Append(pending, w) /\ durable' = durable
        BY Zenon, <1>3, <2>2
      <3>2. Range(pending') = Range(pending) \cup {w}
        <4>1. pending \in Seq(WriteRec) /\ GrownBy(pending, pending', w)
          BY Zenon, <1>1, <3>1 DEF SpTypes, GrownBy
        <4>2. /\ pending' \in Seq(WriteRec) /\ Len(pending') = q + 1 /\ pending'[q + 1] = w
              /\ \A k \in 1 .. q : pending'[k] = pending[k]
          BY <1>10, <4>1, Appended
        <4>3. DOMAIN pending' = 1 .. q + 1 /\ DOMAIN pending = 1 .. q  BY <4>1, <4>2
        <4>4. \A k : k \in 1 .. q + 1 <=> k \in 1 .. q \/ k = q + 1
          <5> HIDE DEF q
          <5> QED  BY <1>6
        <4> HIDE DEF q
        <4> QED  BY Zenon, <4>2, <4>3, <4>4 DEF Range
      <3> QED  BY Zenon, <3>1, <3>2 DEF AllWrites
    <2> QED  BY Zenon, <2>1, <2>2
  <1>22. Ids'
    <2>1. \A i \in 1 .. m : scopes'[i].id = scopes[i].id  BY Zenon, <1>17 DEF Kept
    <2>2. Top.id <= opened  BY <1>6, <1>7
    <2>3. \A v \in AllWrites' : v.by <= opened /\ v.scopes \subseteq 1 .. opened
      BY Zenon, <1>1, <1>10, <1>21, <2>2 DEF Ids
    <2> HIDE DEF m
    <2> QED  BY Zenon, <1>1, <1>3, <1>13, <2>1, <2>3 DEF Ids, m
  <1>23. Stack(f)'
    <2>1. ASSUME NEW i \in f + 1 .. m
          PROVE  i \in 1 .. m /\ i <= f + L /\ ~(i > f + L)
      <3>1. i \in Int /\ f + 1 <= i /\ i <= m  BY <1>6, <1>4
      <3> HIDE DEF m, L
      <3> QED  BY <1>4, <1>6, <1>20, <3>1
    <2>2. \A i \in f + 1 .. m :
               /\ scopes'[i].begun /\ scopes'[i].pc # "ret" /\ sps[i - f].name = scopes'[i].name
               /\ scopes'[i].outermost \/ scopes'[i].kind = "txn" => i = f + 1
      <3> TAKE i \in f + 1 .. m
      <3>1. /\ scopes[i].begun /\ sps[i - f].name = scopes[i].name
            /\ scopes[i].outermost \/ scopes[i].kind = "txn" => i = f + 1
        BY Zenon, <1>2, <2>1 DEF Stack
      <3>2. Kept(scopes'[i], scopes[i]) /\ scopes'[i].pc = "body"
        BY Zenon, <1>17, <2>1
      <3> QED  BY Zenon, <3>1, <3>2 DEF Kept
    <2>3. \A i \in 1 .. m : scopes'[i].forgiven <=> i <= f  BY Zenon, <1>2, <1>17 DEF Stack
    <2>4. f + L <= m  BY Zenon, <1>6
    <2> HIDE DEF m
    <2> QED  BY Zenon, <1>3, <1>13, <1>17, <2>1, <2>2, <2>3, <2>4 DEF Stack
  <1>24. f \in 0 .. Len(scopes')  BY Zenon, <1>13
  <1>25. \A i \in f + 1 .. m : scopes'[i].begun
    <2>1. \A i \in f + 1 .. m : i \in 1 .. m
      <3> HIDE DEF m
      <3> QED  BY <1>4, <1>6
    <2> QED  BY Zenon, <1>17, <2>1 DEF Kept
  <1>26. CASE Autocommit
    <2>1. durable' = durable \cup {w} /\ pending' = pending /\ pending = <<>> /\ sps = <<>> /\ q = 0 /\ L = 0
      BY Zenon, <1>2, <1>3, <1>26 DEF Autocommit, Marks
    <2>2. SpTypes'  BY Zenon, <1>1, <1>3, <1>10, <1>13, <2>1 DEF SpTypes
    <2>3. Marks(f)'  BY <1>3, <1>13, <1>25, <2>1 DEF Marks
    <2> QED  BY Zenon, <1>18, <1>19, <1>22, <1>23, <1>24, <2>2, <2>3 DEF SpInv
  <1>27. CASE ~Autocommit
    <2>1. pending' = Append(pending, w) /\ durable' = durable  BY Zenon, <1>3, <1>27
    <2>2. /\ pending' \in Seq(WriteRec) /\ Len(pending') = q + 1 /\ pending'[q + 1] = w /\ pending' # <<>>
          /\ \A k \in 1 .. q : pending'[k] = pending[k]
      <3>1. pending \in Seq(WriteRec) /\ GrownBy(pending, pending', w)
        BY Zenon, <1>1, <2>1 DEF SpTypes, GrownBy
      <3> QED  BY <1>10, <3>1, Appended
    <2>3. \A k \in 1 .. q + 1 : k \in 1 .. q \/ k = q + 1
      <3> HIDE DEF q
      <3> QED  BY <1>6
    <2>5. SpTypes'  BY Zenon, <1>1, <1>3, <1>13, <2>1, <2>2 DEF SpTypes
    <2>7. sps # <<>> /\ L # 0  BY <1>1, <1>27 DEF Autocommit, SpTypes
    <2>8. ASSUME NEW j \in 1 .. L
          PROVE  /\ sps[j].mark <= q + 1
                 /\ \A k \in 1 .. q + 1 :
                        /\ k <= sps[j].mark => scopes'[f + j].id \notin pending'[k].scopes
                        /\ k > sps[j].mark => pending'[k].by >= scopes'[f + j].id
                 /\ WritesOf(scopes[f + j].id, durable)' = {}
                 /\ Written(scopes'[f + j].id, scopes'[f + j].own, AllWrites')
      <3>1. f + j \in 1 .. m /\ (j # L => f + j < m) /\ (j = L => f + j = m)
        <4>1. j \in Int /\ 1 <= j /\ j <= L  BY <1>6
        <4> HIDE DEF m, L
        <4> QED  BY <1>4, <1>6, <1>20, <4>1
      <3>2. PICK x \in Nat : /\ x = scopes[f + j].id /\ scopes'[f + j].id = x /\ x <= Top.id
                             /\ j # L => x < Top.id
        <4>1. scopes[f + j].id \in Nat /\ scopes'[f + j].id = scopes[f + j].id
          <5>1. scopes[f + j].id \in 1 .. opened  BY Zenon, <1>1, <3>1 DEF Ids
          <5>2. Kept(scopes'[f + j], scopes[f + j])  BY Zenon, <1>17, <3>1
          <5>3. scopes[f + j].id \in Nat  BY <1>6, <5>1
          <5> QED  BY Zenon, <5>2, <5>3 DEF Kept
        <4>2. j # L => scopes[f + j].id < Top.id  BY Zenon, <1>1, <1>4, <3>1 DEF Ids
        <4>3. j = L => scopes[f + j].id = Top.id  BY Zenon, <1>4, <3>1
        <4> QED  BY <1>7, <4>1, <4>2, <4>3
      <3>3. /\ sps[j].mark <= q /\ sps[j].mark \in Nat
            /\ \A k \in 1 .. q :
                 /\ k <= sps[j].mark => x \notin pending[k].scopes
                 /\ k > sps[j].mark => pending[k].by >= x
            /\ WritesOf(x, durable) = {}
            /\ Written(x, scopes[f + j].own, AllWrites)
        <4>1. sps \in Seq(Entry)  BY Zenon, <1>1 DEF SpTypes
        <4>2. sps[j] \in Entry  BY <4>1
        <4>3. sps[j].mark \in Nat  BY Zenon, <4>2 DEF Entry
        <4> QED  BY Zenon, <1>2, <3>2, <4>3 DEF Marks
      <3>4. sps[j].mark <= q + 1 /\ ~(q + 1 <= sps[j].mark)
        <4> DEFINE y == sps[j].mark
        <4>1. y \in Nat /\ y <= q  BY Zenon, <3>3
        <4> HIDE DEF y, q
        <4>2. y <= q + 1 /\ ~(q + 1 <= y)  BY <1>6, <4>1
        <4> QED  BY Zenon, <4>2 DEF y
      <3>5. ASSUME NEW k \in 1 .. q + 1
            PROVE  /\ k <= sps[j].mark => x \notin pending'[k].scopes
                   /\ k > sps[j].mark => pending'[k].by >= x
        <4>1. CASE k \in 1 .. q  BY Zenon, <2>2, <3>3, <4>1
        <4>2. CASE k = q + 1
          <5>1. pending'[k].by = Top.id  BY Zenon, <1>10, <2>2, <4>2
          <5>2. Top.id >= x  BY Zenon, <1>7, <3>2
          <5> QED  BY Zenon, <3>4, <4>2, <5>1, <5>2
        <4> QED  BY Zenon, <2>3, <4>1, <4>2
      <3>6. WritesOf(scopes[f + j].id, durable)' = {}
        BY Zenon, <2>1, <3>2, <3>3 DEF WritesOf
      <3>7. Written(x, scopes[f + j].own, AllWrites')
        BY Zenon, <1>21, <3>3, StillWritten
      <3>8. CASE j # L
        <4>1. scopes'[f + j] = scopes[f + j]  BY Zenon, <1>13, <3>1, <3>8
        <4> QED  BY Zenon, <3>2, <3>4, <3>5, <3>6, <3>7, <4>1
      <3>9. CASE j = L
        <4> DEFINE k == Top.own
        <4>1. x = Top.id /\ scopes[f + j] = Top /\ scopes'[f + j].own = k + 1 /\ k \in Nat
          BY Zenon, <1>4, <1>7, <1>11, <1>13, <3>1, <3>2, <3>9
        <4>2. w \in AllWrites' /\ w.by = x /\ w.n = k + 1
          BY Zenon, <1>10, <1>21, <4>1
        <4>3. Written(x, k, AllWrites')  BY Zenon, <3>7, <4>1
        <4>4. \A i \in 1 .. k + 1 : i \in 1 .. k \/ i = k + 1
          <5> HIDE DEF k
          <5> QED  BY <4>1
        <4>5. Written(x, k + 1, AllWrites')  BY Zenon, <4>2, <4>3, <4>4 DEF Written
        <4> QED  BY Zenon, <3>2, <3>4, <3>5, <3>6, <4>1, <4>5
      <3> QED  BY Zenon, <3>8, <3>9
    <2>9. Marks(f)'
      <3>1. /\ sps # <<>> => sps[1].mark = 0
            /\ \A j, k \in 1 .. Len(sps) : j <= k => sps[j].mark <= sps[k].mark
        BY Zenon, <1>2 DEF Marks
      <3> HIDE DEF m, q
      <3> QED  BY Zenon, <1>3, <1>13, <1>25, <2>2, <2>7, <2>8, <3>1 DEF Marks
    <2> QED  BY Zenon, <1>18, <1>19, <1>22, <1>23, <1>24, <2>5, <2>9 DEF SpInv
  <1> QED  BY Zenon, <1>26, <1>27

\* A connection without a transaction.
LEMMA SpInitial == SavepointInit => SpInv
  <1> SUFFICES ASSUME SavepointInit  PROVE SpInv
    BY Zenon
  <1>1. SpTypes
    <2>2. \A S : <<>> \in Seq(S)  OBVIOUS
    <2>3. 0 \in Nat /\ FALSE \in BOOLEAN /\ "ch" \in {"nil", "ch"} /\ {} \in SUBSET WriteRec
      BY Zenon
    <2> QED  BY Zenon, <2>2, <2>3 DEF SavepointInit, SpTypes
  <1>2. AllWrites = {} /\ Len(scopes) = 0 /\ Len(sps) = 0 /\ Len(pending) = 0
    BY DEF SavepointInit, AllWrites, Range
  <1>3. Phases /\ Ids /\ Returned
    BY <1>2 DEF SavepointInit, Phases, Holds, Ids, Returned
  <1>4. PICK f \in 0 .. Len(scopes) : f = 0  BY <1>2
  <1>5. Stack(f)  BY <1>2, <1>4 DEF Stack
  <1>6. Marks(f)  BY <1>2, <1>4 DEF SavepointInit, Marks
  <1> QED  BY Zenon, <1>1, <1>3, <1>5, <1>6 DEF SpInv

\* Every step keeps the invariant.
LEMMA SpStep == SpInv /\ [SavepointNext]_spvars => SpInv'
  <1> SUFFICES ASSUME SpInv, [SavepointNext]_spvars  PROVE SpInv'
    BY Zenon
  <1>0. chClosed \in BOOLEAN  BY Zenon DEF SpInv, SpTypes
  <1>1. CASE UNCHANGED spvars  BY Zenon, <1>0, <1>1, Unmoved DEF spvars
  <1>2. CASE CloseSaved  BY Zenon, <1>0, <1>2, Unmoved DEF CloseSaved
  <1>3. CASE NewDoneCh  BY Zenon, <1>0, <1>3, Unmoved DEF NewDoneCh
  <1>4. ASSUME NEW n \in Names, Save("save", n) \/ Save("script", n)  PROVE SpInv'
    <2>1. PICK kind \in {"save", "script"} : Save(kind, n)  BY Zenon, <1>4
    <2> QED  BY Zenon, <2>1, SaveKept
  <1>5. ASSUME NEW mode \in {"DEFERRED", "IMMEDIATE", "EXCLUSIVE"}, Transaction(mode)  PROVE SpInv'
    BY Zenon, <1>5, TransactionKept
  <1>6. CASE WriteRow  BY Zenon, <1>6, WriteRowKept
  <1>7. CASE WriteRollsBack  BY Zenon, <1>7, WriteRollsBackKept
  <1>8. CASE UserEnds  BY Zenon, <1>8, UserEndsKept
  <1>9. CASE BodyEnds  BY Zenon, <1>9, BodyEndsKept
  <1>10. CASE EndScope  BY Zenon, <1>10, EndScopeKept
  <1>11. CASE TakeDoneCh  BY Zenon, <1>11, TakeDoneChKept
  <1>12. CASE Rollback  BY Zenon, <1>12, RollbackKept
  <1>13. CASE ScopeReturns  BY Zenon, <1>13, ScopeReturnsKept
  <1> QED
    BY Zenon, <1>1, <1>2, <1>3, <1>4, <1>5, <1>6, <1>7, <1>8, <1>9, <1>10, <1>11, <1>12, <1>13
           DEF SavepointNext

\* Every state of a connection satisfies the invariant, however deep the scopes
\* are nested and whatever their names are.
THEOREM SpInvariant == SavepointSpec => []SpInv
  BY SpInitial, SpStep, PTL DEF SavepointSpec

\* Save and Transaction are atomic (savepoint.go:70-131, 185-235), for any
\* number of scopes, names and writes: an error or a panic leaves none of the
\* writes of the body and of the scopes within it, no error leaves all that the
\* body itself has written, and the outermost release leaves no transaction
\* open.
THEOREM ScopesAreAtomic == SavepointSpec => ScopeIsAtomic
  <1> DEFINE A == ScopeReturns =>
         /\ Len(scopes) = 1 => Autocommit
         /\ ~Top.forgiven =>
              IF Top.err \/ Top.panic THEN WritesOf(Top.id, AllWrites) = {}
              ELSE /\ Written(Top.id, Top.own, AllWrites)
                   /\ Top.outermost => WritesOf(Top.id, Range(pending)) = {}
  <1>1. SpInv => A
    <2> SUFFICES ASSUME SpInv, ScopeReturns
                 PROVE  /\ Len(scopes) = 1 => Autocommit
                        /\ ~Top.forgiven =>
                             IF Top.err \/ Top.panic THEN WritesOf(Top.id, AllWrites) = {}
                             ELSE /\ Written(Top.id, Top.own, AllWrites)
                                  /\ Top.outermost => WritesOf(Top.id, Range(pending)) = {}
      BY Zenon
    <2>1. scopes # <<>> /\ Top.pc = "ret"  BY Zenon DEF ScopeReturns
    <2>2. ASSUME Len(scopes) = 1  PROVE Autocommit
      <3>1. SpTypes  BY Zenon DEF SpInv
      <3>2. PICK f \in 0 .. Len(scopes) : Stack(f)  BY Zenon DEF SpInv
      <3>3. Len(sps) \in Nat /\ f \in {0, 1} /\ f + Len(sps) <= 1
        BY <2>2, <3>1, <3>2 DEF SpTypes, Stack
      <3>4. CASE f = 1  BY <3>1, <3>3, <3>4 DEF SpTypes, Autocommit
      <3>5. CASE f = 0
        <4>1. 1 \in f + 1 .. Len(scopes) /\ scopes[1].pc = "ret"
          BY <2>1, <2>2, <3>5 DEF Top
        <4>2. ~(1 <= f + Len(sps))  BY Zenon, <3>2, <4>1 DEF Stack
        <4>3. Len(sps) = 0  BY <3>3, <3>5, <4>2
        <4> QED  BY <3>1, <4>3 DEF SpTypes, Autocommit
      <3> QED  BY Zenon, <3>3, <3>4, <3>5
    <2>3. Returned  BY Zenon DEF SpInv
    <2> QED  BY Zenon, <2>1, <2>2, <2>3 DEF Returned
  <1>2. SavepointSpec => [][A]_spvars  BY <1>1, SpInvariant, PTL
  <1> QED  BY <1>2, PTL DEF ScopeIsAtomic

\* The release function gives doneCh back in every case, and the ROLLBACK it
\* runs meets neither an interrupt nor a missing savepoint
\* (savepoint.go:109-121, 220-228).
THEOREM InterruptIsRestored == SavepointSpec => InterruptRestored
  <1> DEFINE A == /\ ScopeReturns => doneCh = Top.ch
                  /\ Rollback => ~Interrupted /\ Matching(Top.name) # {}
  <1>1. SpInv => A
    <2> SUFFICES ASSUME SpInv  PROVE A
      BY Zenon
    <2>1. ASSUME ScopeReturns  PROVE doneCh = Top.ch
      <3>1. scopes # <<>> /\ Top.pc = "ret"  BY Zenon, <2>1 DEF ScopeReturns
      <3>2. SpTypes /\ Phases  BY Zenon DEF SpInv
      <3>3. Len(scopes) \in 1 .. Len(scopes) /\ Top = scopes[Len(scopes)]
        BY <3>1, <3>2, TopIs
      <3>4. Top.ch = "ch"  BY Zenon, <3>2, <3>3 DEF Phases
      <3> QED  BY Zenon, <3>1, <3>2, <3>4 DEF Phases, Holds
    <2>2. ASSUME Rollback  PROVE ~Interrupted /\ Matching(Top.name) # {}
      <3>1. scopes # <<>> /\ Top.pc = "rollback" /\ Top.old # "none"
        BY Zenon, <2>2 DEF Rollback
      <3> QED  BY Zenon, <3>1, RollbackFinds
    <2> QED  BY Zenon, <2>1, <2>2
  <1>2. SavepointSpec => [][A]_spvars  BY <1>1, SpInvariant, PTL
  <1> QED  BY Zenon, <1>2 DEF InterruptRestored
=============================================================================
