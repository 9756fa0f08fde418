----------------------------- MODULE FileProofs -----------------------------
(***************************************************************************)
(* Proofs about package sqlitefile's File: its positions stay inside its   *)
(* blobs, for every initial capacity and all calls; and about the tables   *)
(* in which a callback finds its connection, for any number of goroutines, *)
(* addresses and openings.                                                 *)
(***************************************************************************)
EXTENDS File, ConnTable, TLAPS

Fits(b, q) == q.index < Len(b) /\ q.pos <= Len(b[q.index + 1])

Types ==
  /\ blobs \in Seq(Seq(Nat))
  /\ off \in Position /\ len \in Position
  /\ seekFailed \in BOOLEAN
  /\ pc \in {"idle", "zero", "write", "read", "seek", "truncate", "closed", "panic"}
  /\ p \in Seq(Nat) /\ left \in Nat /\ i \in Nat
  /\ zeroing \in [from : Position, to : Position, then : {"write", "truncate"}]

InBounds ==
  /\ blobs # <<>>
  /\ Fits(blobs, len)
  /\ ~seekFailed /\ pc # "seek" => Fits(blobs, off)
  /\ pc = "seek" => i < Len(blobs) /\ off.index = i
  /\ pc = "truncate" => i <= Len(blobs)
  /\ pc = "zero" => /\ Fits(blobs, zeroing.from)
                    /\ zeroing.then = "truncate" \/ ~seekFailed =>
                         Fits(blobs, zeroing.to)

FInv == Types /\ (pc # "closed" => InBounds) /\ NoPanic

-----------------------------------------------------------------------------
\* A function on an initial segment is a sequence of that length.
LEMMA Segment ==
  ASSUME NEW k \in Nat, NEW S, NEW f \in [1..k -> S]
  PROVE  f \in Seq(S) /\ Len(f) = k
OBVIOUS

\* The larger and the smaller of two numbers.
LEMMA MinMax ==
  ASSUME NEW a \in Int, NEW b \in Int
  PROVE  /\ Max({a, b}) = (IF a >= b THEN a ELSE b)
         /\ Min({a, b}) = (IF a <= b THEN a ELSE b)
BY DEF Max, Min

\* A write inside a blob keeps its size.
LEMMA OverlayInside ==
  ASSUME NEW d \in Seq(Nat), NEW q \in Nat, NEW s \in Seq(Nat),
         q + Len(s) <= Len(d)
  PROVE  Overlay(d, q, s) \in Seq(Nat) /\ Len(Overlay(d, q, s)) = Len(d)
<1>1. Len(d) \in Nat /\ Len(s) \in Nat
  OBVIOUS
<1>2. Max({Len(d), q + Len(s)}) = Len(d)
  BY <1>1, MinMax
<1>3. \A j \in 1..Len(d) : j \in q + 1..q + Len(s) => s[j - q] \in Nat
  BY <1>1
<1>4. \A j \in 1..Len(d) : d[j] \in Nat
  OBVIOUS
<1>5. Overlay(d, q, s) = [j \in 1..Len(d) |->
                            IF j \in q + 1..q + Len(s) THEN s[j - q]
                            ELSE IF j <= Len(d) THEN d[j] ELSE 0]
  BY Zenon, <1>2 DEF Overlay
<1>6. Overlay(d, q, s) \in [1..Len(d) -> Nat]
  BY SMTT(40), <1>3, <1>4, <1>5
<1> QED BY Zenon, <1>1, <1>6, Segment

\* grow appends a blob and leaves the others alone.
LEMMA Grown ==
  ASSUME NEW b \in Seq(Seq(Nat)), b # <<>>
  PROVE  /\ grow(b) \in Seq(Seq(Nat)) /\ Len(grow(b)) = Len(b) + 1
         /\ \A k \in 1..Len(b) : grow(b)[k] = b[k]
<1>1. Len(b) \in Nat /\ Len(b) > 0 /\ Len(b[Len(b)]) \in Nat
  OBVIOUS
<1>2. 2 * Size(b, Len(b) - 1) \in Nat
  BY <1>1 DEF Size
<1>3. Zeros(2 * Size(b, Len(b) - 1)) \in Seq(Nat)
  BY <1>2, Segment DEF Zeros
<1> QED BY <1>1, <1>3 DEF grow

\* Positions still fit when blobs keep their sizes and some are added.
LEMMA StillFits ==
  ASSUME NEW b \in Seq(Seq(Nat)), NEW c \in Seq(Seq(Nat)), Len(b) <= Len(c),
         \A k \in 1..Len(b) : Len(c[k]) = Len(b[k]),
         NEW q \in Position, Fits(b, q)
  PROVE  Fits(c, q)
<1>1. q.index \in Nat /\ q.pos \in Nat
  BY Zenon DEF Position
<1>2. Len(b) \in Nat /\ Len(c) \in Nat
  OBVIOUS
<1>3. q.index + 1 \in 1..Len(b)
  BY SMTT(20), <1>1, <1>2 DEF Fits
<1>4. Len(c[q.index + 1]) = Len(b[q.index + 1])
  BY Zenon, <1>3
<1> QED BY <1>1, <1>2, <1>4 DEF Fits

\* The blobs after s is written at q of blob k.
Rewritten(b, k, q, s) == [b EXCEPT ![k] = Overlay(@, q, s)]

\* Writing s inside blob k keeps the sizes of all blobs.
LEMMA Patched ==
  ASSUME NEW b \in Seq(Seq(Nat)), NEW k \in 1..Len(b), NEW q \in Nat,
         NEW s \in Seq(Nat), q + Len(s) <= Len(b[k])
  PROVE  /\ Rewritten(b, k, q, s) \in Seq(Seq(Nat))
         /\ Len(Rewritten(b, k, q, s)) = Len(b)
         /\ \A j \in 1..Len(b) : Len(Rewritten(b, k, q, s)[j]) = Len(b[j])
<1>1. b[k] \in Seq(Nat)
  OBVIOUS
<1>2. Overlay(b[k], q, s) \in Seq(Nat) /\ Len(Overlay(b[k], q, s)) = Len(b[k])
  BY Zenon, <1>1, OverlayInside
<1> QED BY <1>2 DEF Rewritten

\* What the length, the position and zero's arguments need when only the blobs
\* change, each keeping its size.
LEMMA BlobsFrame ==
  ASSUME Types, InBounds,
         blobs' \in Seq(Seq(Nat)), Len(blobs) <= Len(blobs'),
         \A k \in 1..Len(blobs) : Len(blobs'[k]) = Len(blobs[k])
  PROVE  /\ blobs' # <<>>
         /\ Fits(blobs', len)
         /\ Fits(blobs, off) => Fits(blobs', off)
         /\ Fits(blobs, zeroing.from) => Fits(blobs', zeroing.from)
         /\ Fits(blobs, zeroing.to) => Fits(blobs', zeroing.to)
<1>1. Len(blobs) \in Nat /\ Len(blobs) > 0 /\ Len(blobs') \in Nat
  BY DEF Types, InBounds
<1>2. zeroing.from \in Position /\ zeroing.to \in Position
  BY Zenon DEF Types
<1>3. blobs' # <<>>
  BY <1>1
<1> QED BY Zenon, <1>2, <1>3, StillFits DEF Types, InBounds

\* The position at which an iteration goes on.
LEMMA Advanced ==
  ASSUME NEW b \in Seq(Seq(Nat)), NEW q \in Position, q.index < Len(b)
  PROVE  /\ Advance(b, q) \in Position
         /\ rem(b, q) = 0 => Advance(b, q).index = q.index + 1 /\ Advance(b, q).pos = 0
         /\ rem(b, q) # 0 => Advance(b, q) = q
         /\ rem(b, q) = Len(b[q.index + 1]) - q.pos /\ Len(b[q.index + 1]) \in Nat
<1>1. q.index \in Nat /\ q.pos \in Nat /\ q.index + 1 \in 1..Len(b)
  BY DEF Position
<1>2. b[q.index + 1] \in Seq(Nat)
  BY <1>1
<1>3. Len(b[q.index + 1]) \in Nat
  BY <1>2
<1>4. [index |-> q.index + 1, pos |-> 0] \in Position
  BY <1>1 DEF Position
<1> QED BY Zenon, <1>1, <1>3, <1>4 DEF Advance, rem, Size

\* Behind q there is more of the blobs if a position that fits is greater.
LEMMA Beyond ==
  ASSUME NEW b \in Seq(Seq(Nat)), NEW q \in Position, NEW r \in Position,
         Fits(b, q), Fits(b, r), gt(b, r, q)
  PROVE  /\ InRange(b, Advance(b, q)) /\ Advance(b, q) \in Position
         /\ Advance(b, q).pos <= Len(b[Advance(b, q).index + 1])
         /\ Advance(b, q).index = r.index => Advance(b, q).pos <= r.pos
<1>1. q.index \in Nat /\ q.pos \in Nat /\ r.index \in Nat /\ r.pos \in Nat
  BY Zenon DEF Position
<1>2. Len(b) \in Nat /\ q.index < Len(b) /\ r.index < Len(b)
  BY DEF Fits
<1>3. r.index > q.index \/ (r.index = q.index /\ r.pos > q.pos)
  BY Zenon, <1>1 DEF gt
<1>4. CASE rem(b, q) # 0
  BY SMTT(40), <1>1, <1>2, <1>3, <1>4, Advanced DEF Fits, InRange
<1>5. CASE rem(b, q) = 0
  <2>1. r.index > q.index
    BY SMTT(40), <1>1, <1>2, <1>3, <1>5, Advanced DEF Fits
  <2>2. q.index + 1 < Len(b)
    BY <1>1, <1>2, <2>1
  <2>3. b[q.index + 1 + 1] \in Seq(Nat)
    BY <1>1, <1>2, <2>2
  <2>4. Len(b[q.index + 1 + 1]) \in Nat
    BY <2>3
  <2> QED BY SMTT(40), <1>1, <1>2, <1>5, <2>2, <2>4, Advanced DEF InRange
<1> QED BY Zenon, <1>4, <1>5

\* Positions that fit do not make eq panic.
LEMMA NoEqPanic ==
  ASSUME NEW b, NEW q, NEW r, Fits(b, q), Fits(b, r)
  PROVE  ~EqPanics(b, q, r)
BY Zenon DEF EqPanics, Fits, InRange

-----------------------------------------------------------------------------
\* Zeroing writes inside a blob.
LEMMA ZeroStepInv == FInv /\ ZeroStep => FInv'
<1> SUFFICES ASSUME FInv, ZeroStep PROVE FInv'
  BY Zenon
<1> DEFINE f == zeroing.from
           t == zeroing.to
           q == Advance(blobs, f)
           w == ZeroLength(blobs, q, t)
<1>1. pc = "zero" /\ Types /\ InBounds
  BY Zenon DEF FInv, ZeroStep
<1>2. f \in Position /\ t \in Position /\ Fits(blobs, f) /\ blobs \in Seq(Seq(Nat))
  BY Zenon, <1>1 DEF Types, InBounds
<1>3. q \in Position /\ q.index < Len(blobs)
  BY Zenon, <1>2, Advanced DEF ZeroStep, InRange, Fits
<1>4. q.index \in Nat /\ q.pos \in Nat /\ t.pos \in Nat
  BY Zenon, <1>2, <1>3 DEF Position
<1>5. Len(blobs[q.index + 1]) \in Nat /\ rem(blobs, q) = Len(blobs[q.index + 1]) - q.pos
  BY Zenon, <1>2, <1>3, Advanced
<1>6. w \in Int /\ (w >= 0 \/ w = rem(blobs, q)) /\ w <= rem(blobs, q)
  <2>1. (IF q.index = t.index THEN t.pos ELSE rem(blobs, q)) \in Int /\ Chunk \in Nat
    BY <1>4, <1>5, FileAssumption
  <2> DEFINE x == IF q.index = t.index THEN t.pos ELSE rem(blobs, q)
  <2>a. w = Min({x, Chunk})
    BY Zenon DEF ZeroLength
  <2>b. x \in Int
    BY Zenon, <2>1
  <2> HIDE DEF x, w
  <2>2. w = IF x <= Chunk THEN x ELSE Chunk
    BY SMTT(40), <2>1, <2>a, <2>b, MinMax
  <2>3. w <= rem(blobs, q)
    BY Zenon DEF ZeroStep, w
  <2> QED BY <1>4, <1>5, <2>1, <2>2, <2>3 DEF x
<1>7. q.pos <= Len(blobs[q.index + 1])
  <2>1. f.index < Len(blobs) /\ f.pos <= Len(blobs[f.index + 1])
    BY Zenon, <1>2 DEF Fits
  <2>2. CASE rem(blobs, f) = 0
    BY <1>2, <1>5, <2>1, <2>2, Advanced
  <2>3. CASE rem(blobs, f) # 0
    BY Zenon, <1>2, <2>1, <2>3, Advanced
  <2> QED BY Zenon, <2>2, <2>3
<1>8. w \in Nat
  BY <1>4, <1>5, <1>6, <1>7
<1>9. Zeros(w) \in Seq(Nat) /\ Len(Zeros(w)) = w
  BY <1>8, Segment DEF Zeros
<1>10. blobs' = [blobs EXCEPT ![q.index + 1] = Overlay(@, q.pos, Zeros(w))]
  BY Zenon DEF ZeroStep
<1>11. zeroing' = [zeroing EXCEPT !.from = [q EXCEPT !.pos = @ + w]]
  BY Zenon DEF ZeroStep
<1>12. UNCHANGED <<off, len, pc, p, left, i, seekFailed>>
  BY Zenon DEF ZeroStep
<1> HIDE DEF q, w
<1>13. q.index + 1 \in 1..Len(blobs) /\ q.pos + Len(Zeros(w)) <= Len(blobs[q.index + 1])
  BY SMTT(20), <1>2, <1>3, <1>4, <1>5, <1>6, <1>9
<1>14. /\ blobs' \in Seq(Seq(Nat)) /\ Len(blobs') = Len(blobs)
       /\ \A k \in 1..Len(blobs) : Len(blobs'[k]) = Len(blobs[k])
  <2> DEFINE k == q.index + 1
             g == q.pos
             z == Zeros(w)
  <2>1. blobs' = Rewritten(blobs, k, g, z)
    BY Zenon, <1>10 DEF Rewritten
  <2>2. k \in 1..Len(blobs) /\ g \in Nat /\ z \in Seq(Nat) /\ g + Len(z) <= Len(blobs[k])
    BY Zenon, <1>4, <1>9, <1>13
  <2> HIDE DEF k, g, z
  <2>3. blobs \in Seq(Seq(Nat))
    BY Zenon, <1>2
  <2>4. /\ Rewritten(blobs, k, g, z) \in Seq(Seq(Nat))
        /\ Len(Rewritten(blobs, k, g, z)) = Len(blobs)
        /\ \A j \in 1..Len(blobs) : Len(Rewritten(blobs, k, g, z)[j]) = Len(blobs[j])
    BY Zenon, <2>2, <2>3, Patched
  <2> QED BY Zenon, <2>1, <2>4
<1>15. /\ zeroing' \in [from : Position, to : Position, then : {"write", "truncate"}]
       /\ zeroing'.to = zeroing.to /\ zeroing'.then = zeroing.then
       /\ zeroing'.from = [index |-> q.index, pos |-> q.pos + w]
  <2>1. [q EXCEPT !.pos = @ + w] = [index |-> q.index, pos |-> q.pos + w]
    BY <1>3 DEF Position
  <2>2. [index |-> q.index, pos |-> q.pos + w] \in Position
    BY <1>4, <1>8 DEF Position
  <2> HIDE DEF Position
  <2> QED BY Zenon, <1>1, <1>11, <2>1, <2>2 DEF Types
<1>16. Fits(blobs', zeroing'.from)
  BY <1>3, <1>4, <1>9, <1>13, <1>14, <1>15 DEF Fits
<1>17. Types'
  BY Zenon, <1>1, <1>12, <1>14, <1>15 DEF Types
<1>18. Len(blobs) <= Len(blobs')
  BY <1>2, <1>14
<1>19. InBounds'
  BY Zenon, <1>1, <1>12, <1>14, <1>15, <1>16, <1>18, BlobsFrame DEF InBounds
<1> QED BY Zenon, <1>1, <1>12, <1>17, <1>19 DEF FInv, NoPanic

\* An iteration of Write stays inside the blob it writes to.
LEMMA WroteBytes ==
  ASSUME Types, InBounds, Writing, NEW w \in 0..Len(p), WriteBytes(w)
  PROVE  /\ blobs' \in Seq(Seq(Nat)) /\ Len(blobs) <= Len(blobs')
         /\ \A k \in 1..Len(blobs) : Len(blobs'[k]) = Len(blobs[k])
         /\ off' \in Position /\ Fits(blobs', off')
         /\ len' \in Position /\ Fits(blobs', len')
<1> DEFINE b == ForWrite
           q == Advance(blobs, off)
           k == q.index + 1
           g == q.pos
           s == SubSeq(p, 1, w)
<1>1. blobs \in Seq(Seq(Nat)) /\ blobs # <<>> /\ off \in Position /\ p \in Seq(Nat)
  BY Zenon DEF Types, InBounds
<1>2. /\ b \in Seq(Seq(Nat)) /\ Len(blobs) <= Len(b)
      /\ \A j \in 1..Len(blobs) : b[j] = blobs[j]
  <2>1. CASE b = blobs
    BY <1>1, <2>1
  <2>2. CASE b = grow(blobs)
    <3>1. /\ grow(blobs) \in Seq(Seq(Nat)) /\ Len(grow(blobs)) = Len(blobs) + 1
          /\ \A j \in 1..Len(blobs) : grow(blobs)[j] = blobs[j]
      BY Zenon, <1>1, Grown
    <3>2. Len(blobs) \in Nat
      BY <1>1
    <3> HIDE DEF b
    <3> QED BY <2>2, <3>1, <3>2
  <2> QED BY Zenon, <2>1, <2>2 DEF ForWrite
<1>3. off.index < Len(blobs) /\ q.index < Len(b)
  BY Zenon DEF Writing, InRange
<1>4. q \in Position
  BY Zenon, <1>1, <1>3, Advanced
<1>5. q.index \in Nat /\ q.pos \in Nat
  BY Zenon, <1>4 DEF Position
<1>6. k \in 1..Len(b) /\ g \in Nat
  BY <1>2, <1>3, <1>5
<1>7. s \in Seq(Nat) /\ Len(s) = w
  BY <1>1
<1>8. Len(b[k]) \in Nat /\ w <= Len(b[k]) - g
  BY Zenon, <1>2, <1>3, <1>4, Advanced DEF WriteBytes
<1>9. /\ blobs' = Rewritten(b, k, g, s)
      /\ off' = [q EXCEPT !.pos = @ + w]
      /\ len' = off' \/ len' = len
  BY Zenon DEF WriteBytes, Rewritten
<1>10. off' = [index |-> q.index, pos |-> g + w]
  BY Zenon, <1>4, <1>9 DEF Position
<1> HIDE DEF b, k, g, s
<1>11. /\ blobs' \in Seq(Seq(Nat)) /\ Len(blobs') = Len(b)
       /\ \A j \in 1..Len(b) : Len(blobs'[j]) = Len(b[j])
  <2>1. Len(s) = w /\ g + Len(s) <= Len(b[k])
    BY <1>6, <1>7, <1>8
  <2>2. b \in Seq(Seq(Nat)) /\ k \in 1..Len(b) /\ g \in Nat /\ s \in Seq(Nat)
    BY Zenon, <1>2, <1>6, <1>7
  <2>3. /\ Rewritten(b, k, g, s) \in Seq(Seq(Nat))
        /\ Len(Rewritten(b, k, g, s)) = Len(b)
        /\ \A j \in 1..Len(b) : Len(Rewritten(b, k, g, s)[j]) = Len(b[j])
    BY Zenon, <2>1, <2>2, Patched
  <2> QED BY Zenon, <1>9, <2>3
<1>12. Len(blobs) <= Len(blobs') /\ \A j \in 1..Len(blobs) : Len(blobs'[j]) = Len(blobs[j])
  BY SMTT(40), <1>1, <1>2, <1>11
<1>13. off' \in Position
  BY <1>5, <1>6, <1>10 DEF Position
<1>14. Fits(blobs', off')
  BY <1>3, <1>5, <1>6, <1>8, <1>10, <1>11 DEF Fits, k
<1>15. len \in Position /\ Fits(blobs', len)
  BY Zenon, <1>11, <1>12, BlobsFrame DEF Types
<1> QED BY Zenon, <1>9, <1>11, <1>12, <1>13, <1>14, <1>15

\* The loop of Write.
LEMMA WriteInv == FInv /\ (WriteStep \/ WriteFails \/ WriteReturns) => FInv'
<1> SUFFICES ASSUME FInv, WriteStep \/ WriteFails \/ WriteReturns PROVE FInv'
  BY Zenon
<1>1. pc = "write" /\ Types /\ InBounds
  BY Zenon DEF FInv, WriteStep, WriteFails, WriteReturns, Writing
<1>2. CASE WriteStep
  <2> DEFINE w == Min({Len(p), rem(ForWrite, Advance(blobs, off))})
  <2>1. Writing /\ WriteBytes(w) /\ p' = SubSeq(p, w + 1, Len(p))
    BY Zenon, <1>2 DEF WriteStep
  <2>2. w \in 0..Len(p)
    <3>1. /\ blobs \in Seq(Seq(Nat)) /\ blobs # <<>> /\ off \in Position
          /\ Len(p) \in Nat
      BY <1>1 DEF Types, InBounds
    <3>2. ForWrite \in Seq(Seq(Nat))
      BY Zenon, <3>1, Grown DEF ForWrite
    <3>3. Advance(blobs, off) \in Position
      BY Zenon, <2>1, <3>1, Advanced DEF Writing, InRange
    <3>4. rem(ForWrite, Advance(blobs, off)) \in Int
      <4> DEFINE b == ForWrite
                 q == Advance(blobs, off)
      <4>1. b \in Seq(Seq(Nat)) /\ q \in Position /\ q.index < Len(b) /\ q.pos \in Nat
        BY Zenon, <2>1, <3>2, <3>3 DEF Writing, InRange, Position
      <4> HIDE DEF b, q
      <4> QED BY <4>1, Advanced DEF b, q
    <3> DEFINE r == rem(ForWrite, Advance(blobs, off))
               l == Len(p)
    <3>a. r \in Int /\ l \in Int
      BY <3>1, <3>4
    <3> HIDE DEF r, l
    <3>b. Min({l, r}) = IF l <= r THEN l ELSE r
      BY Zenon, <3>a, MinMax
    <3>5. w <= Len(p) /\ w \in Int
      BY <3>a, <3>b DEF r, l
    <3>6. 0 <= w
      BY Zenon, <2>1 DEF WriteBytes
    <3> QED BY <3>1, <3>5, <3>6
  <2> HIDE DEF w
  <2>3. p' \in Seq(Nat)
    BY <1>1, <2>1, <2>2 DEF Types
  <2>4. UNCHANGED <<pc, left, i, zeroing, seekFailed>>
    BY Zenon, <1>2 DEF WriteStep
  <2>5. Types' /\ InBounds'
    BY Zenon, <1>1, <2>1, <2>2, <2>3, <2>4, WroteBytes, BlobsFrame DEF Types, InBounds
  <2> QED BY Zenon, <1>1, <2>4, <2>5 DEF FInv, NoPanic
<1>3. CASE WriteFails
  <2>1. p' = <<>> /\ pc' = "idle" /\ UNCHANGED <<left, i, zeroing, seekFailed>> /\ Writing
    BY Zenon, <1>3 DEF WriteFails
  <2>2. CASE \E w \in 0..Len(p) - 1 : WriteBytes(w)
    <3>1. PICK w \in 0..Len(p) - 1 : WriteBytes(w)
      BY Zenon, <2>2
    <3>2. w \in 0..Len(p)
      BY <1>1 DEF Types
    <3>3. Types' /\ InBounds'
      BY <1>1, <2>1, <3>1, <3>2, WroteBytes, BlobsFrame DEF Types, InBounds
    <3> QED BY Zenon, <2>1, <3>3 DEF FInv, NoPanic
  <2>3. CASE UNCHANGED <<blobs, off, len>>
    BY <1>1, <2>1, <2>3 DEF FInv, NoPanic, Types, InBounds
  <2> QED BY Zenon, <1>3, <2>2, <2>3 DEF WriteFails
<1>4. CASE WriteReturns
  BY Zenon, <1>1, <1>4 DEF WriteReturns, FInv, NoPanic, Types, InBounds
<1> QED BY Zenon, <1>2, <1>3, <1>4

\* Calls, and the other ends of zero.
LEMMA CallInv ==
  FInv /\ ((\E s \in Slices : WriteCall(s)) \/ (\E k \in 0..MaxSlice : ReadCall(k))
           \/ (\E d \in -MaxLen..MaxLen, whence \in {"start", "current", "end"} :
                 SeekCall(d, whence))
           \/ (\E size \in 0..MaxLen : TruncateCall(size)) \/ Close)
  => FInv'
<1> SUFFICES ASSUME FInv PROVE
      /\ \A s \in Slices : WriteCall(s) => FInv'
      /\ \A k \in 0..MaxSlice : ReadCall(k) => FInv'
      /\ \A d \in -MaxLen..MaxLen, whence \in {"start", "current", "end"} :
           SeekCall(d, whence) => FInv'
      /\ \A size \in 0..MaxLen : TruncateCall(size) => FInv'
      /\ Close => FInv'
  BY Zenon
<1>1. Types /\ (pc = "idle" => InBounds)
  BY Zenon DEF FInv
<1>2. ASSUME NEW s \in Slices, WriteCall(s) PROVE FInv'
  <2>1. /\ pc = "idle" /\ p' = s
        /\ UNCHANGED <<blobs, off, len, left, i, seekFailed>>
    BY Zenon, <1>2 DEF WriteCall, Called
  <2>2. s \in Seq(Nat)
    <3>1. PICK k \in 0..MaxSlice : s \in [1..k -> Bytes]
      BY Zenon DEF Slices
    <3>2. k \in Nat /\ Bytes \subseteq Nat
      BY FileAssumption
    <3>3. s \in [1..k -> Nat]
      BY Zenon, <3>1, <3>2
    <3> QED BY Zenon, <3>2, <3>3, Segment
  <2>3. CASE pc' = "zero" /\ zeroing' = [from |-> len, to |-> off, then |-> "write"]
    BY Zenon, <1>1, <2>1, <2>2, <2>3 DEF FInv, NoPanic, Types, InBounds
  <2>4. CASE pc' = "write" /\ UNCHANGED zeroing
    BY Zenon, <1>1, <2>1, <2>2, <2>4 DEF FInv, NoPanic, Types, InBounds
  <2> QED BY Zenon, <1>2, <2>3, <2>4 DEF WriteCall
<1>3. ASSUME NEW k \in 0..MaxSlice, ReadCall(k) PROVE FInv'
  <2>1. k \in Nat
    BY FileAssumption
  <2> QED
    BY Zenon, <1>1, <1>3, <2>1 DEF ReadCall, Called, FInv, NoPanic, Types, InBounds
<1>4. ASSUME NEW d \in -MaxLen..MaxLen, NEW whence \in {"start", "current", "end"},
             SeekCall(d, whence)
      PROVE  FInv'
  <2>1. /\ pc = "idle" /\ pc' = "seek" /\ i' = 0
        /\ off' = [off EXCEPT !.index = 0] /\ left' \in 0..MaxLen
        /\ UNCHANGED <<blobs, len, p, zeroing, seekFailed>>
    BY Zenon, <1>4 DEF SeekCall, Called
  <2>2. left' \in Nat
    BY <2>1, FileAssumption
  <2>3. off' \in Position /\ off'.index = 0
    BY Zenon, <1>1, <2>1 DEF Types, Position
  <2>4. Len(blobs) \in Nat /\ Len(blobs) > 0
    BY <1>1, <2>1 DEF Types, InBounds
  <2> QED BY Zenon, <1>1, <2>1, <2>2, <2>3, <2>4 DEF FInv, NoPanic, Types, InBounds
<1>5. ASSUME NEW size \in 0..MaxLen, TruncateCall(size) PROVE FInv'
  <2>1. size \in Nat
    BY FileAssumption
  <2>2. Len(blobs) \in Nat
    BY <1>1 DEF Types
  <2> QED BY <1>1, <1>5, <2>1, <2>2 DEF TruncateCall, FInv, NoPanic, Types, InBounds
<1>6. ASSUME Close PROVE FInv'
  BY <1>1, <1>6 DEF Close, Called, FInv, NoPanic, Types
<1> QED BY Zenon, <1>2, <1>3, <1>4, <1>5, <1>6

\* zero fails, or returns to Write or to Truncate.
LEMMA ZeroEndsInv == FInv /\ (ZeroFails \/ ZeroReturns) => FInv'
<1> SUFFICES ASSUME FInv, ZeroFails \/ ZeroReturns PROVE FInv'
  BY Zenon
<1>1. pc = "zero" /\ Types /\ InBounds
  BY Zenon DEF FInv, ZeroFails, ZeroReturns
<1>2. NoZeroing \in [from : Position, to : Position, then : {"write", "truncate"}]
  BY Zenon DEF NoZeroing, Position
<1>3. zeroing.to \in Position
  BY Zenon, <1>1 DEF Types
<1>4. CASE ZeroFails
  BY <1>1, <1>2, <1>4 DEF ZeroFails, FInv, NoPanic, Types, InBounds
<1>5. CASE ZeroReturns
  BY Zenon, <1>1, <1>2, <1>3, <1>5 DEF ZeroReturns, FInv, NoPanic, Types, InBounds
<1> QED BY Zenon, <1>4, <1>5

\* The loop of Read.
LEMMA ReadInv == FInv /\ (ReadStep \/ ReadFails \/ ReadReturns) => FInv'
<1> SUFFICES ASSUME FInv, ReadStep \/ ReadFails \/ ReadReturns PROVE FInv'
  BY Zenon
<1>1. pc = "read" /\ Types /\ InBounds
  BY Zenon DEF FInv, ReadStep, ReadFails, ReadReturns, Reading
<1>2. ASSUME gt(blobs, len, off), InRange(blobs, off), InRange(blobs, Advance(blobs, off)),
             NEW w \in Nat, w <= left, w <= Readable(Advance(blobs, off)), ReadBytes(w)
      PROVE  off' \in Position /\ (~seekFailed => Fits(blobs, off'))
  <2> DEFINE q == Advance(blobs, off)
  <2>1. blobs \in Seq(Seq(Nat)) /\ off \in Position /\ len \in Position /\ Fits(blobs, len)
    BY Zenon, <1>1 DEF Types, InBounds
  <2>2. q \in Position /\ q.index < Len(blobs)
    BY Zenon, <1>2, <2>1, Advanced DEF InRange
  <2>3. q.index \in Nat /\ q.pos \in Nat /\ len.index \in Nat /\ len.pos \in Nat
    BY Zenon, <2>1, <2>2 DEF Position
  <2>4. off' = [q EXCEPT !.pos = @ + w]
    BY Zenon, <1>2 DEF ReadBytes
  <2>5. off' = [index |-> q.index, pos |-> q.pos + w]
    BY Zenon, <2>2, <2>4 DEF Position
  <2>6. Len(blobs[q.index + 1]) \in Nat
    BY Zenon, <2>1, <2>2, Advanced
  <2>7. q.pos + w <= Len(blobs[q.index + 1])
    <3>1. len.pos <= Len(blobs[len.index + 1])
      BY Zenon, <2>1 DEF Fits
    <3>2. w <= Readable(q)
      BY Zenon, <1>2
    <3> HIDE DEF q
    <3>3. CASE len.index = q.index
      BY <2>3, <2>6, <3>1, <3>2, <3>3 DEF Readable
    <3>4. CASE len.index # q.index
      BY <2>3, <2>6, <3>2, <3>4 DEF Readable, Size
    <3> QED BY Zenon, <3>3, <3>4
  <2> HIDE DEF q
  <2> QED BY <2>2, <2>3, <2>5, <2>7 DEF Fits, Position
<1>3. CASE ReadStep
  <2> DEFINE r == Readable(Advance(blobs, off))
             w == Min({left, r})
  <2>1. /\ gt(blobs, len, off) /\ InRange(blobs, off) /\ InRange(blobs, Advance(blobs, off))
        /\ w >= 0 /\ ReadBytes(w) /\ left' = left - w
        /\ UNCHANGED <<blobs, len, pc, p, i, zeroing, seekFailed>>
    BY Zenon, <1>3 DEF ReadStep
  <2>2. r \in Int /\ left \in Nat
    <3>1. blobs \in Seq(Seq(Nat)) /\ off \in Position /\ len \in Position
      BY Zenon, <1>1 DEF Types
    <3>2. Advance(blobs, off) \in Position
      BY Zenon, <2>1, <3>1, Advanced DEF InRange
    <3>3. Len(blobs[Advance(blobs, off).index + 1]) \in Nat
      BY Zenon, <2>1, <3>1, <3>2, Advanced DEF InRange
    <3>4. Advance(blobs, off).pos \in Nat /\ len.pos \in Nat /\ left \in Nat
      BY Zenon, <1>1, <3>1, <3>2 DEF Position, Types
    <3> QED BY <3>3, <3>4 DEF Readable, Size
  <2> HIDE DEF r
  <2>3. w \in Int /\ w <= left /\ w <= r
    <3>1. w = IF left <= r THEN left ELSE r
      BY <2>2, MinMax
    <3> QED BY <2>2, <3>1
  <2> HIDE DEF w
  <2>4. w \in Nat /\ left' \in Nat
    BY <2>1, <2>2, <2>3
  <2>5. off' \in Position /\ (~seekFailed => Fits(blobs, off'))
    BY Zenon, <1>2, <2>1, <2>3, <2>4 DEF r
  <2> QED BY Zenon, <1>1, <2>1, <2>4, <2>5 DEF FInv, NoPanic, Types, InBounds
<1>4. CASE ReadFails
  <2>1. /\ gt(blobs, len, off) /\ InRange(blobs, off) /\ InRange(blobs, Advance(blobs, off))
        /\ pc' = "idle" /\ left' = 0
        /\ UNCHANGED <<blobs, len, p, i, zeroing, seekFailed>>
    BY Zenon, <1>4 DEF ReadFails
  <2>2. PICK w \in 0..left - 1 : w <= Readable(Advance(blobs, off)) /\ ReadBytes(w)
    BY Zenon, <1>4 DEF ReadFails
  <2>3. w \in Nat /\ w <= left
    BY <1>1 DEF Types
  <2>4. off' \in Position /\ (~seekFailed => Fits(blobs, off'))
    BY Zenon, <1>2, <2>1, <2>2, <2>3
  <2> QED BY Zenon, <1>1, <2>1, <2>4 DEF FInv, NoPanic, Types, InBounds
<1>5. CASE ReadReturns
  BY Zenon, <1>1, <1>5 DEF ReadReturns, FInv, NoPanic, Types, InBounds
<1> QED BY Zenon, <1>3, <1>4, <1>5

\* The loops of Seek and of Truncate.
LEMMA LoopInv ==
  FInv /\ (SeekStep \/ SeekFails \/ SeekReturns
           \/ TruncateStep \/ TruncateFits \/ TruncateGrows \/ TruncateFails) => FInv'
<1> SUFFICES ASSUME FInv, pc \in {"seek", "truncate"}
             PROVE  SeekStep \/ SeekFails \/ SeekReturns
                    \/ TruncateStep \/ TruncateFits \/ TruncateGrows \/ TruncateFails
                    => FInv'
  BY Zenon DEF SeekStep, SeekFails, SeekReturns, TruncateStep, TruncateFits, TruncateGrows,
         TruncateFails
<1>1. Types /\ InBounds
  BY Zenon DEF FInv
<1>2. blobs \in Seq(Seq(Nat)) /\ blobs # <<>> /\ Len(blobs) \in Nat /\ Len(blobs) > 0
  BY <1>1 DEF Types, InBounds
<1>3. i < Len(blobs) => Size(blobs, i) \in Nat /\ Size(blobs, i) = Len(blobs[i + 1])
  <2> SUFFICES ASSUME i < Len(blobs) PROVE Len(blobs[i + 1]) \in Nat
    BY Zenon DEF Size
  <2>1. i + 1 \in 1..Len(blobs)
    BY <1>1, <1>2 DEF Types
  <2> QED BY <1>2, <2>1
<1>4. off.index \in Nat /\ off.pos \in Nat /\ off = [index |-> off.index, pos |-> off.pos]
  BY Zenon, <1>1 DEF Types, Position
<1>5. /\ grow(blobs) \in Seq(Seq(Nat)) /\ Len(grow(blobs)) = Len(blobs) + 1
      /\ \A k \in 1..Len(blobs) : grow(blobs)[k] = blobs[k]
  BY Zenon, <1>2, Grown
<1>6. i \in Nat /\ left \in Nat
  BY Zenon, <1>1 DEF Types
<1>7. ASSUME SeekStep PROVE FInv'
  <2>1. /\ pc = "seek" /\ pc' = "seek" /\ i' = i + 1 /\ left' = left - Size(blobs, i)
        /\ left > Size(blobs, i) /\ off' = [off EXCEPT !.index = i + 1]
        /\ blobs' = IF i = Len(blobs) - 1 THEN grow(blobs) ELSE blobs
        /\ UNCHANGED <<len, p, zeroing, seekFailed>>
    BY Zenon, <1>7 DEF SeekStep
  <2>2. i < Len(blobs)
    BY Zenon, <1>1, <2>1 DEF InBounds
  <2>3. i' \in Nat /\ left' \in Nat
    BY <1>3, <1>6, <2>1, <2>2
  <2>4. off' = [index |-> i + 1, pos |-> off.pos]
    BY Zenon, <1>4, <2>1
  <2>5. off' \in Position
    BY <1>4, <1>6, <2>4 DEF Position
  <2>6. /\ blobs' \in Seq(Seq(Nat)) /\ Len(blobs) <= Len(blobs') /\ i + 1 < Len(blobs')
        /\ \A k \in 1..Len(blobs) : Len(blobs'[k]) = Len(blobs[k])
    <3>1. CASE i = Len(blobs) - 1
      <4>1. blobs' = grow(blobs)
        BY Zenon, <2>1, <3>1
      <4> QED BY <1>2, <1>5, <3>1, <4>1
    <3>2. CASE i # Len(blobs) - 1
      BY <1>2, <1>6, <2>1, <2>2, <3>2
    <3> QED BY Zenon, <3>1, <3>2
  <2>7. blobs' # <<>> /\ Fits(blobs', len)
    BY Zenon, <1>1, <2>6, BlobsFrame
  <2>8. Types'
    BY Zenon, <1>1, <2>1, <2>3, <2>5, <2>6 DEF Types
  <2>9. InBounds'
    BY Zenon, <2>1, <2>4, <2>6, <2>7 DEF InBounds
  <2> QED BY Zenon, <2>1, <2>8, <2>9 DEF FInv, NoPanic
<1>8. ASSUME SeekFails PROVE FInv'
  <2>1. off' = [index |-> i + 1, pos |-> off.pos]
    BY Zenon, <1>4, <1>8 DEF SeekFails
  <2>2. off' \in Position
    BY <1>4, <1>6, <2>1 DEF Position
  <2> QED BY Zenon, <1>1, <1>8, <2>2 DEF SeekFails, FInv, NoPanic, Types, InBounds
<1>9. ASSUME SeekReturns PROVE FInv'
  <2>1. /\ pc = "seek" /\ pc' = "idle" /\ left <= Size(blobs, i)
        /\ off' = [off EXCEPT !.pos = left] /\ left' = 0 /\ i' = 0 /\ seekFailed' = FALSE
        /\ UNCHANGED <<blobs, len, p, zeroing>>
    BY Zenon, <1>9 DEF SeekReturns
  <2>2. i < Len(blobs) /\ off.index = i
    BY Zenon, <1>1, <2>1 DEF InBounds
  <2>3. off' = [index |-> i, pos |-> left]
    BY <1>4, <2>1, <2>2
  <2>4. off' \in Position /\ Fits(blobs, off')
    BY Zenon, <1>3, <1>6, <2>1, <2>2, <2>3 DEF Fits, Position
  <2> QED BY Zenon, <1>1, <2>1, <2>4 DEF FInv, NoPanic, Types, InBounds
<1>10. ASSUME TruncateStep PROVE FInv'
  <2>1. /\ pc = "truncate" /\ i < Len(blobs) /\ i' = i + 1
        /\ left' = left - Size(blobs, i) /\ Size(blobs, i) <= left
        /\ UNCHANGED <<blobs, off, len, pc, p, zeroing, seekFailed>>
    BY Zenon, <1>10 DEF TruncateStep
  <2>2. i' \in Nat /\ i' <= Len(blobs) /\ left' \in Nat
    BY <1>2, <1>3, <1>6, <2>1
  <2> QED BY Zenon, <1>1, <2>1, <2>2 DEF FInv, NoPanic, Types, InBounds
<1>11. ASSUME TruncateFits PROVE FInv'
  <2>1. /\ pc = "truncate" /\ i < Len(blobs) /\ Size(blobs, i) > left /\ pc' = "zero"
        /\ zeroing' = [from |-> len, to |-> [index |-> i, pos |-> left],
                       then |-> "truncate"]
        /\ left' = 0 /\ i' = 0 /\ UNCHANGED <<blobs, off, len, p, seekFailed>>
    BY Zenon, <1>11 DEF TruncateFits
  <2>2. zeroing'.to \in Position /\ Fits(blobs, zeroing'.to)
    BY <1>3, <1>6, <2>1 DEF Fits, Position
  <2>3. Types'
    BY Zenon, <1>1, <2>1, <2>2 DEF Types
  <2> QED BY Zenon, <1>1, <2>1, <2>2, <2>3 DEF FInv, NoPanic, InBounds
<1>12. ASSUME TruncateGrows PROVE FInv'
  <2>1. /\ pc = "truncate" /\ blobs' = grow(blobs) /\ i' = 0
        /\ UNCHANGED <<off, len, pc, p, left, zeroing, seekFailed>>
    BY Zenon, <1>12 DEF TruncateGrows
  <2>2. /\ blobs' \in Seq(Seq(Nat)) /\ Len(blobs) <= Len(blobs') /\ Len(blobs') \in Nat
        /\ \A k \in 1..Len(blobs) : Len(blobs'[k]) = Len(blobs[k])
    BY <1>2, <1>5, <2>1
  <2>3. blobs' # <<>> /\ Fits(blobs', len) /\ (Fits(blobs, off) => Fits(blobs', off))
    BY Zenon, <1>1, <2>2, BlobsFrame
  <2>4. Types'
    BY Zenon, <1>1, <2>1, <2>2 DEF Types
  <2> QED BY <1>1, <2>1, <2>2, <2>3, <2>4 DEF FInv, NoPanic, InBounds
<1>13. ASSUME TruncateFails PROVE FInv'
  BY Zenon, <1>1, <1>13 DEF TruncateFails, FInv, NoPanic, Types, InBounds
<1> QED BY Zenon, <1>7, <1>8, <1>9, <1>10, <1>11, <1>12, <1>13

\* As long as Seek has not failed, no index and no slice is out of range.
LEMMA PanicInv == FInv /\ Panic => FInv'
<1> SUFFICES ASSUME FInv, Panic PROVE FInv'
  BY Zenon
<1>1. pc' = "panic" /\ UNCHANGED <<blobs, off, len, p, left, i, zeroing, seekFailed>>
  BY Zenon DEF Panic
<1>2. Types /\ (pc # "closed" => InBounds)
  BY Zenon DEF FInv
<1>3. OutOfRange
  BY Zenon DEF Panic
<1>4. pc # "closed"
  BY Zenon, <1>3 DEF OutOfRange, Called
<1>5. blobs \in Seq(Seq(Nat)) /\ blobs # <<>> /\ off \in Position /\ len \in Position
  BY Zenon, <1>2, <1>4 DEF Types, InBounds
<1>6. ASSUME ~seekFailed PROVE FALSE
  <2>1. Fits(blobs, len) /\ (pc # "seek" => Fits(blobs, off))
    BY Zenon, <1>2, <1>4, <1>6 DEF InBounds
  <2>2. CASE pc = "idle"
    <3>1. ~EqPanics(blobs, off, len)
      BY Zenon, <2>1, <2>2, NoEqPanic
    <3> QED BY Zenon, <1>3, <2>2, <3>1 DEF OutOfRange, Called
  <2>3. CASE pc = "zero"
    <3>1. /\ Fits(blobs, zeroing.from) /\ Fits(blobs, zeroing.to)
          /\ zeroing.from \in Position /\ zeroing.to \in Position
      BY Zenon, <1>2, <1>6, <2>3 DEF InBounds, Types
    <3>2. ~EqPanics(blobs, zeroing.to, zeroing.from)
      BY Zenon, <3>1, NoEqPanic
    <3>3. gt(blobs, zeroing.to, zeroing.from) => InRange(blobs, Advance(blobs, zeroing.from))
      BY Zenon, <1>5, <3>1, Beyond
    <3> QED BY Zenon, <1>3, <2>3, <3>2, <3>3 DEF OutOfRange, Called
  <2>4. CASE pc = "write"
    <3> DEFINE b == ForWrite
               q == Advance(blobs, off)
    <3>1. off.index \in Nat /\ off.pos \in Nat /\ off.index < Len(blobs)
          /\ off.pos <= Len(blobs[off.index + 1]) /\ Len(blobs) \in Nat
      BY <1>5, <2>1, <2>4 DEF Fits, Position
    <3>2. /\ q \in Position
          /\ rem(blobs, off) = 0 => q.index = off.index + 1 /\ q.pos = 0
          /\ rem(blobs, off) # 0 => q = off
          /\ rem(blobs, off) = Len(blobs[off.index + 1]) - off.pos
          /\ Len(blobs[off.index + 1]) \in Nat
      BY Zenon, <1>5, <3>1, Advanced
    <3>3. b \in Seq(Seq(Nat)) /\ q.index < Len(b)
      <4>1. CASE rem(blobs, off) = 0 /\ off.index = Len(blobs) - 1
        <5>1. b = grow(blobs)
          BY Zenon, <4>1 DEF ForWrite
        <5>2. b \in Seq(Seq(Nat)) /\ Len(b) = Len(blobs) + 1
          BY Zenon, <1>5, <5>1, Grown
        <5> QED BY <3>1, <3>2, <4>1, <5>2
      <4>2. CASE ~(rem(blobs, off) = 0 /\ off.index = Len(blobs) - 1)
        <5>1. b = blobs
          BY Zenon, <4>2 DEF ForWrite
        <5> HIDE DEF q, b
        <5>2. q.index < Len(blobs)
          BY <3>1, <3>2, <4>2
        <5> QED BY Zenon, <1>5, <5>1, <5>2
      <4> QED BY Zenon, <4>1, <4>2
    <3>4. rem(b, q) >= 0
      <4>1. q.index \in Nat /\ q.pos \in Nat
        BY Zenon, <3>2 DEF Position
      <4>2. rem(b, q) = Len(b[q.index + 1]) - q.pos /\ Len(b[q.index + 1]) \in Nat
        BY Zenon, <3>2, <3>3, Advanced
      <4>3. CASE rem(blobs, off) = 0
        <5> HIDE DEF b, q
        <5> QED BY <3>2, <4>2, <4>3
      <4>4. CASE rem(blobs, off) # 0
        <5>1. b = blobs /\ q = off
          BY Zenon, <3>2, <4>4 DEF ForWrite
        <5> HIDE DEF b, q
        <5> QED BY <3>1, <3>2, <4>2, <5>1
      <4> QED BY Zenon, <4>3, <4>4
    <3>5. InRange(blobs, off) /\ InRange(b, q)
      BY Zenon, <3>1, <3>3 DEF InRange
    <3>6. ~(rem(b, q) < 0)
      <4>1. q.pos \in Nat
        BY Zenon, <3>2 DEF Position
      <4>2. rem(b, q) = Len(b[q.index + 1]) - q.pos /\ Len(b[q.index + 1]) \in Nat
        BY Zenon, <3>2, <3>3, Advanced
      <4> HIDE DEF b, q
      <4> QED BY <3>4, <4>1, <4>2
    <3> QED BY Zenon, <1>3, <2>4, <3>5, <3>6 DEF OutOfRange, Called
  <2>5. CASE pc = "read"
    <3> DEFINE q == Advance(blobs, off)
    <3>1. Fits(blobs, off)
      BY Zenon, <2>1, <2>5
    <3>2. ~EqPanics(blobs, len, off)
      BY Zenon, <2>1, <3>1, NoEqPanic
    <3>3. ASSUME gt(blobs, len, off)
          PROVE  InRange(blobs, off) /\ InRange(blobs, q) /\ ~(Readable(q) < 0)
      <4>1. /\ InRange(blobs, q) /\ q \in Position
            /\ q.pos <= Len(blobs[q.index + 1])
            /\ q.index = len.index => q.pos <= len.pos
        BY Zenon, <1>5, <2>1, <3>1, <3>3, Beyond
      <4>2. q.index \in Nat /\ q.pos \in Nat /\ len.index \in Nat /\ len.pos \in Nat
        BY Zenon, <1>5, <4>1 DEF Position
      <4>3. Len(blobs[q.index + 1]) \in Nat
        BY Zenon, <1>5, <4>1, Advanced DEF InRange
      <4>4. InRange(blobs, off)
        BY Zenon, <3>1 DEF InRange, Fits
      <4> HIDE DEF q
      <4> QED BY <4>1, <4>2, <4>3, <4>4 DEF Readable, Size
    <3> QED BY Zenon, <1>3, <2>5, <3>2, <3>3 DEF OutOfRange, Called
  <2>6. pc \in {"idle", "zero", "write", "read"}
    BY Zenon, <1>3 DEF OutOfRange, Called
  <2> QED BY Zenon, <2>2, <2>3, <2>4, <2>5, <2>6
<1>7. seekFailed
  BY Zenon, <1>6
<1> QED BY Zenon, <1>1, <1>2, <1>4, <1>7 DEF FInv, NoPanic, Types, InBounds

-----------------------------------------------------------------------------
\* The positions of a file stay inside its blobs: FInv is an invariant.
THEOREM PositionsFit == Spec => []FInv
<1>1. Init => FInv
  <2> SUFFICES ASSUME Init PROVE FInv
    BY Zenon
  <2>1. Zeros(InitSize) \in Seq(Nat) /\ Len(Zeros(InitSize)) = InitSize /\ InitSize \in Nat
    BY Segment, FileAssumption DEF Zeros
  <2>2. blobs = <<Zeros(InitSize)>>
    BY Zenon DEF Init
  <2> HIDE DEF Zeros
  <2>3. /\ blobs \in Seq(Seq(Nat)) /\ blobs # <<>> /\ Len(blobs) = 1
        /\ blobs[1] = Zeros(InitSize)
    BY <2>1, <2>2
  <2>4. off \in Position /\ off.index = 0 /\ off.pos = 0 /\ len = off
    BY Zenon DEF Init, Position
  <2>5. Fits(blobs, off) /\ Fits(blobs, len)
    BY <2>1, <2>3, <2>4 DEF Fits
  <2>6. Types
    <3>1. NoZeroing \in [from : Position, to : Position, then : {"write", "truncate"}]
      BY Zenon DEF NoZeroing, Position
    <3>2. p \in Seq(Nat) /\ left \in Nat /\ i \in Nat
      BY DEF Init
    <3>3. seekFailed \in BOOLEAN /\ pc = "idle" /\ zeroing = NoZeroing
      BY Zenon DEF Init
    <3> QED BY Zenon, <2>3, <2>4, <3>1, <3>2, <3>3 DEF Types
  <2> QED BY Zenon, <2>3, <2>5, <2>6 DEF Init, FInv, InBounds, NoPanic
<1>2. FInv /\ [Next]_filevars => FInv'
  <2> SUFFICES ASSUME FInv, [Next]_filevars PROVE FInv'
    BY Zenon
  <2>1. CASE Next
    BY Zenon, <2>1, ZeroStepInv, WriteInv, CallInv, ZeroEndsInv, ReadInv, LoopInv, PanicInv
       DEF Next
  <2>2. CASE UNCHANGED filevars
    BY Zenon, <2>2 DEF filevars, FInv, NoPanic, Types, InBounds
  <2> QED BY Zenon, <2>1, <2>2
<1> QED BY <1>1, <1>2, PTL DEF Spec

\* A call of File never indexes beyond the blobs and never slices out of range,
\* unless the last Seek failed half way (file.go:262-265).
THEOREM NoIndexOutOfRange == Spec => []NoPanic
<1>1. FInv => NoPanic
  BY Zenon DEF FInv
<1> QED BY <1>1, PositionsFit, PTL
-----------------------------------------------------------------------------
(***************************************************************************)
(* The tables of connections.                                              *)
(***************************************************************************)

\* From sqlite3_open_v2 to sqlite3_close the connection owns its address.
Owns(g) == cpc[g] \in {"opened", "config", "wal", "busy", "open", "closing"}

Tables ==
    /\ cpc \in [Openers -> {"none", "opened", "config", "wal", "busy", "open",
                            "closing", "auth", "handler", "table"}]
    /\ gen \in [Openers -> Nat]
    /\ addr \in [Openers -> Addrs]
    /\ inUse \in SUBSET Addrs
    /\ table \in [Addrs -> (Openers \X Nat) \cup {NoConn}]
    /\ busyHandlers \in [Addrs -> (Openers \X Nat) \cup {NoConn}]
    /\ authorizers \in [Addrs -> (Openers \X Nat) \cup {NoConn}]
    /\ xBusy \in [Openers -> {"none", "timeout", "callback"}]
    /\ xAuth \in [Openers -> BOOLEAN]

\* Two connections that own their addresses have different ones, and a handler
\* is set only after openConn has entered the connection in allConns.
Addresses ==
    /\ \A g \in Openers : Owns(g) => addr[g] \in inUse
    /\ \A g, h \in Openers : g # h /\ Owns(g) /\ Owns(h) => addr[g] # addr[h]
    /\ \A g \in Openers : cpc[g] = "opened" => xBusy[g] = "none" /\ ~xAuth[g]

ConnTableInv == Tables /\ Addresses /\ NeverAnothersConn
-----------------------------------------------------------------------------
\* Before the first OpenConn the tables are empty.
LEMMA ConnTableStarts == ConnTableInit => ConnTableInv
BY ConnTableAssumption
   DEF ConnTableInit, ConnTableInv, Tables, Addresses, NeverAnothersConn, Owns, Id

\* Every step of OpenConn, of Close and of the application keeps the types.
LEMMA TablesStep ==
    ConnTableInv /\ [ConnTableNext]_ctvars => Tables'
<1> SUFFICES ASSUME ConnTableInv, [ConnTableNext]_ctvars PROVE Tables'
    BY Zenon
<1> USE DEF ConnTableInv, Tables, At, To, Id, IsOpen
<1>1. CASE UNCHANGED ctvars BY Zenon, <1>1 DEF ctvars
<1>2. ASSUME NEW g \in Openers,
             OpenV2(g) \/ Register(g) \/ Configure(g) \/ CloseConn(g)
      PROVE  Tables'
  <2>1. CASE OpenV2(g) BY <2>1 DEF OpenV2
  <2>2. CASE Register(g) BY Zenon, <2>2 DEF Register
  <2>3. CASE Configure(g) BY Zenon, <2>3 DEF Configure
  <2>4. CASE CloseConn(g) BY Zenon, <2>4 DEF CloseConn
  <2> QED BY Zenon, <1>2, <2>1, <2>2, <2>3, <2>4
<1>3. ASSUME NEW g \in Openers, SetWal(g) \/ OpenReturns(g) \/ SetBusy(g)
      PROVE  Tables'
  <2>1. CASE SetWal(g) BY Zenon, <2>1 DEF SetWal, SetBusyTimeout
  <2>2. CASE OpenReturns(g) BY Zenon, <2>2 DEF OpenReturns, SetBlockOnBusy
  <2>3. CASE SetBusy(g)
    <3>1. CASE SetBusyTimeout(g) BY Zenon, <2>3, <3>1 DEF SetBusy, SetBusyTimeout
    <3>2. CASE SetBlockOnBusy(g) BY Zenon, <2>3, <3>2 DEF SetBusy, SetBlockOnBusy
    <3> QED BY Zenon, <2>3, <3>1, <3>2 DEF SetBusy
  <2> QED BY Zenon, <1>3, <2>1, <2>2, <2>3
<1>4. ASSUME NEW g \in Openers, SqliteClose(g) \/ ReleaseAuthorizer(g)
                                \/ DeleteHandler(g) \/ Unregister(g)
      PROVE  Tables'
  <2>1. CASE SqliteClose(g) BY Zenon, <2>1 DEF SqliteClose
  <2>2. CASE ReleaseAuthorizer(g) BY Zenon, <2>2 DEF ReleaseAuthorizer
  <2>3. CASE DeleteHandler(g) BY Zenon, <2>3 DEF DeleteHandler
  <2>4. CASE Unregister(g) BY Zenon, <2>4 DEF Unregister
  <2> QED BY Zenon, <1>4, <2>1, <2>2, <2>3, <2>4
<1>5. ASSUME NEW g \in Openers, SetAuthorizer(g) PROVE Tables'
  BY <1>5 DEF SetAuthorizer
<1>6. ASSUME NEW g \in Openers, CloseDoneCh(g) \/ StepBusy(g) \/ Authorize(g)
      PROVE  Tables'
  BY Zenon, <1>6 DEF CloseDoneCh, StepBusy, Authorize
<1> QED BY Zenon, <1>1, <1>2, <1>3, <1>4, <1>5, <1>6 DEF ConnTableNext

\* malloc gives no address away twice, so the owners keep theirs apart.
LEMMA AddressesStep ==
    ConnTableInv /\ [ConnTableNext]_ctvars => Addresses'
<1> SUFFICES ASSUME ConnTableInv, [ConnTableNext]_ctvars PROVE Addresses'
    BY Zenon
<1> USE DEF ConnTableInv, Tables, Addresses, Owns, At, To, IsOpen
<1>1. CASE UNCHANGED ctvars BY Zenon, <1>1 DEF ctvars
<1>2. ASSUME NEW g \in Openers,
             OpenV2(g) \/ Register(g) \/ Configure(g) \/ CloseConn(g)
      PROVE  Addresses'
  <2>1. CASE OpenV2(g) BY <2>1 DEF OpenV2
  <2>2. CASE Register(g) BY <2>2 DEF Register
  <2>3. CASE Configure(g) BY <2>3 DEF Configure
  <2>4. CASE CloseConn(g) BY <2>4 DEF CloseConn
  <2> QED BY Zenon, <1>2, <2>1, <2>2, <2>3, <2>4
<1>3. ASSUME NEW g \in Openers, SetWal(g) \/ OpenReturns(g) \/ SetBusy(g)
      PROVE  Addresses'
  <2>1. CASE SetWal(g) BY <2>1 DEF SetWal, SetBusyTimeout
  <2>2. CASE OpenReturns(g) BY <2>2 DEF OpenReturns, SetBlockOnBusy
  <2>3. CASE SetBusy(g)
    <3>1. CASE SetBusyTimeout(g) BY Zenon, <2>3, <3>1 DEF SetBusy, SetBusyTimeout
    <3>2. CASE SetBlockOnBusy(g) BY Zenon, <2>3, <3>2 DEF SetBusy, SetBlockOnBusy
    <3> QED BY Zenon, <2>3, <3>1, <3>2 DEF SetBusy
  <2> QED BY Zenon, <1>3, <2>1, <2>2, <2>3
<1>4. ASSUME NEW g \in Openers, SqliteClose(g) \/ ReleaseAuthorizer(g)
                                \/ DeleteHandler(g) \/ Unregister(g)
      PROVE  Addresses'
  <2>1. CASE SqliteClose(g) BY Zenon, <2>1 DEF SqliteClose
  <2>2. CASE ReleaseAuthorizer(g) BY Zenon, <2>2 DEF ReleaseAuthorizer
  <2>3. CASE DeleteHandler(g) BY Zenon, <2>3 DEF DeleteHandler
  <2>4. CASE Unregister(g) BY Zenon, <2>4 DEF Unregister
  <2> QED BY Zenon, <1>4, <2>1, <2>2, <2>3, <2>4
<1>5. ASSUME NEW g \in Openers, SetAuthorizer(g) PROVE Addresses'
  BY <1>5 DEF SetAuthorizer
<1>6. ASSUME NEW g \in Openers, CloseDoneCh(g) \/ StepBusy(g) \/ Authorize(g)
      PROVE  Addresses'
  BY <1>6 DEF CloseDoneCh, StepBusy, Authorize
<1> QED BY Zenon, <1>1, <1>2, <1>3, <1>4, <1>5, <1>6 DEF ConnTableNext

\* A step of one goroutine writes its own connection, or nothing, under an
\* address of its own; late in Close, when the address may be another's, it
\* only deletes.
LEMMA EntriesStep ==
    ConnTableInv /\ [ConnTableNext]_ctvars => NeverAnothersConn'
<1> SUFFICES ASSUME ConnTableInv, [ConnTableNext]_ctvars PROVE NeverAnothersConn'
    BY Zenon
<1> USE DEF ConnTableInv, Tables, Addresses, NeverAnothersConn, Owns, At, To, Id, IsOpen
<1>1. CASE UNCHANGED ctvars BY Zenon, <1>1 DEF ctvars
<1>2. ASSUME NEW g \in Openers,
             OpenV2(g) \/ Register(g) \/ Configure(g) \/ CloseConn(g)
      PROVE  NeverAnothersConn'
  <2>1. CASE OpenV2(g) BY <2>1 DEF OpenV2
  <2>2. CASE Register(g) BY <2>2 DEF Register
  <2>3. CASE Configure(g) BY Zenon, <2>3 DEF Configure
  <2>4. CASE CloseConn(g) BY Zenon, <2>4 DEF CloseConn
  <2> QED BY Zenon, <1>2, <2>1, <2>2, <2>3, <2>4
<1>3. ASSUME NEW g \in Openers, SetWal(g) \/ OpenReturns(g) \/ SetBusy(g)
      PROVE  NeverAnothersConn'
  <2>1. CASE SetWal(g) BY Zenon, <2>1 DEF SetWal, SetBusyTimeout
  <2>2. CASE OpenReturns(g) BY <2>2 DEF OpenReturns, SetBlockOnBusy
  <2>3. CASE SetBusy(g)
    <3>1. CASE SetBusyTimeout(g) BY Zenon, <2>3, <3>1 DEF SetBusy, SetBusyTimeout
    <3>2. CASE SetBlockOnBusy(g) BY <2>3, <3>2 DEF SetBusy, SetBlockOnBusy
    <3> QED BY Zenon, <2>3, <3>1, <3>2 DEF SetBusy
  <2> QED BY Zenon, <1>3, <2>1, <2>2, <2>3
<1>4. ASSUME NEW g \in Openers, SqliteClose(g) \/ ReleaseAuthorizer(g)
                                \/ DeleteHandler(g) \/ Unregister(g)
      PROVE  NeverAnothersConn'
  <2>1. CASE SqliteClose(g) BY Zenon, <2>1 DEF SqliteClose
  <2>2. CASE ReleaseAuthorizer(g) BY Zenon, <2>2 DEF ReleaseAuthorizer
  <2>3. CASE DeleteHandler(g) BY Zenon, <2>3 DEF DeleteHandler
  <2>4. CASE Unregister(g) BY Zenon, <2>4 DEF Unregister
  <2> QED BY Zenon, <1>4, <2>1, <2>2, <2>3, <2>4
<1>5. ASSUME NEW g \in Openers, SetAuthorizer(g) PROVE NeverAnothersConn'
  BY <1>5 DEF SetAuthorizer
<1>6. ASSUME NEW g \in Openers, CloseDoneCh(g) \/ StepBusy(g) \/ Authorize(g)
      PROVE  NeverAnothersConn'
  BY Zenon, <1>6 DEF CloseDoneCh, StepBusy, Authorize
<1> QED BY Zenon, <1>1, <1>2, <1>3, <1>4, <1>5, <1>6 DEF ConnTableNext
-----------------------------------------------------------------------------
\* Context.Conn, callConnectFunc, busyHandlerCallback and authTrampoline find
\* the connection that SQLite calls them for, or nothing, however goroutines
\* open and close connections and addresses are used again.
THEOREM CallbackFindsItsConn == ConnTableSpec => []NeverAnothersConn
<1>1. ConnTableInv /\ [ConnTableNext]_ctvars => ConnTableInv'
  BY Zenon, TablesStep, AddressesStep, EntriesStep DEF ConnTableInv
<1>2. ConnTableInv => NeverAnothersConn BY Zenon DEF ConnTableInv
<1> QED BY ConnTableStarts, <1>1, <1>2, PTL DEF ConnTableSpec
=============================================================================
