-------------------------------- MODULE File --------------------------------
(***************************************************************************)
(* sqlitefile.File: a file that is kept in a series of temporary blobs,     *)
(* each twice as large as the one before, with the read/write position and *)
(* the length as pairs of a blob and a position inside it.  Loops of the   *)
(* code are one step per iteration.  A blob operation or an allocation may *)
(* fail at any time (the connection is interrupted, the disk is full).     *)
(* data and pos are the reference: the byte sequence and the offset that   *)
(* an ordinary file would have after the same calls.                       *)
(***************************************************************************)
EXTENDS Integers, Sequences, FiniteSets, FiniteSetsExt

CONSTANTS InitSize,   \* the capacity NewFileSize is called with
          Chunk,      \* the length of zero's array of zeros (4096)
          Bytes,      \* the bytes that are written, besides 0
          MaxLen,     \* bound: no call reaches beyond this offset
          MaxSlice    \* bound: the longest slice given to Write or Read

ASSUME FileAssumption ==
  /\ InitSize \in Nat \ {0} /\ Chunk \in Nat \ {0}
  /\ Bytes \subseteq Nat
  /\ MaxLen \in Nat /\ MaxSlice \in Nat

VARIABLES
  blobs,      \* the contents of bb.blobs
  off, len,   \* bb.off and bb.len
  err,        \* bb.err # nil
  pc,         \* the loop that is running, or "idle", "closed", "panic"
  p,          \* Write: the bytes left to write
  left,       \* Read: bytes left to read; Seek, Truncate: what is left of the
              \* offset or size
  i,          \* Seek, Truncate: the index of the loop over the blobs
  n,          \* Read: bytes read so far; Truncate: the size asked for
  zeroing,    \* zero: its p1, its p2, and the loop its caller goes on with
  data, pos,  \* the reference file and its offset
  departed,   \* in the last call eq was mistaken, Truncate started over, or Seek
              \* failed half way
  seekFailed  \* the last Seek failed half way

filevars == <<blobs, off, len, err, pc, p, left, i, n, zeroing, data, pos,
              departed, seekFailed>>

Slices == UNION {[1..k -> Bytes] : k \in 0..MaxSlice}
Zeros(k) == [j \in 1..k |-> 0]
NoZeroing == [from |-> [index |-> 0, pos |-> 0],
              to |-> [index |-> 0, pos |-> 0], then |-> "write"]

-----------------------------------------------------------------------------
\* Positions.  b is bb.blobs.

Size(b, k) == Len(b[k + 1])
rem(b, q) == Size(b, q.index) - q.pos
InRange(b, q) == q.index < Len(b)

eq(b, p1, p2) ==
  \/ p1 = p2
  \/ p1.index = p2.index + 1 /\ rem(b, p1) = 0 /\ p2.pos = 0
  \/ p2.index = p1.index + 1 /\ rem(b, p2) = 0 /\ p1.pos = 0

\* Mutant: compares the positions inside the blobs only.
gtIgnoresBlob(b, p1, p2) == ~eq(b, p1, p2) /\ p1.pos > p2.pos

gt(b, p1, p2) ==
  /\ ~eq(b, p1, p2)
  /\ IF p1.index # p2.index THEN p1.index > p2.index ELSE p1.pos > p2.pos

\* eq indexes the blobs with the larger of two adjacent positions.
EqPanics(b, p1, p2) ==
  \/ p1.index = p2.index + 1 /\ ~InRange(b, p1)
  \/ p2.index = p1.index + 1 /\ ~InRange(b, p2)

\* The start of the next blob, at the end of one.
Advance(b, q) == IF rem(b, q) = 0 THEN [index |-> q.index + 1, pos |-> 0] ELSE q

\* Len() and SeekCurrent count the blobs before a position.
Start(b, k) == LET sum[j \in 0..k] == IF j = 0 THEN 0
                                      ELSE sum[j - 1] + Size(b, j - 1)
               IN  sum[k]
Abs(b, q) == Start(b, q.index) + q.pos

\* eq holds of two different offsets.
Mistaken(b, p1, p2) == eq(b, p1, p2) /\ Abs(b, p1) # Abs(b, p2)

grow(b) == Append(b, Zeros(2 * Size(b, Len(b) - 1)))

\* d with s written at offset q, the gap filled with zeros.
Overlay(d, q, s) ==
  [j \in 1..Max({Len(d), q + Len(s)}) |->
     IF j \in q + 1..q + Len(s) THEN s[j - q]
     ELSE IF j <= Len(d) THEN d[j] ELSE 0]

Resize(d, k) == [j \in 1..k |-> IF j <= Len(d) THEN d[j] ELSE 0]

-----------------------------------------------------------------------------
Init ==
  /\ blobs = <<Zeros(InitSize)>>
  /\ off = [index |-> 0, pos |-> 0] /\ len = [index |-> 0, pos |-> 0]
  /\ err = FALSE /\ pc = "idle" /\ p = <<>> /\ left = 0 /\ i = 0 /\ n = 0
  /\ zeroing = NoZeroing
  /\ data = <<>> /\ pos = 0 /\ departed = FALSE /\ seekFailed = FALSE

Called == pc = "idle" /\ ~err

\* The bytes of the file, as Read would return them.
Contents == [j \in 1..Abs(blobs, len) |->
               LET k == CHOOSE k \in 0..Len(blobs) - 1 :
                          Start(blobs, k) < j /\ j <= Start(blobs, k + 1)
               IN  blobs[k + 1][j - Start(blobs, k)]]

\* After a call that departed the comparison starts again from what is there.
RefData == IF departed THEN Contents ELSE data
RefPos == IF departed THEN Abs(blobs, off) ELSE pos

\* zero(p1, p2), one iteration: fill from p1 with zeros.  Inside the blob of p2
\* the code writes p2.pos bytes; SQLite refuses a write beyond the end of a blob.
ZeroLength(b, q, to) ==
  Min({IF q.index = to.index THEN to.pos ELSE rem(b, q), Chunk})

ZeroStep ==
  /\ pc = "zero" /\ ~EqPanics(blobs, zeroing.to, zeroing.from)
  /\ gt(blobs, zeroing.to, zeroing.from)
  /\ LET q == Advance(blobs, zeroing.from)
         w == ZeroLength(blobs, q, zeroing.to)
     IN  /\ InRange(blobs, q)
         /\ w <= rem(blobs, q)
         /\ blobs' = [blobs EXCEPT ![q.index + 1] = Overlay(@, q.pos, Zeros(w))]
         /\ zeroing' = [zeroing EXCEPT !.from = [q EXCEPT !.pos = @ + w]]
  /\ UNCHANGED <<off, len, err, pc, p, left, i, n, data, pos, departed,
                 seekFailed>>

\* zero returns an error: only Write keeps it in bb.err.
ZeroFails ==
  /\ pc = "zero" /\ ~EqPanics(blobs, zeroing.to, zeroing.from)
  /\ gt(blobs, zeroing.to, zeroing.from)
  /\ InRange(blobs, Advance(blobs, zeroing.from))
  /\ err' = (err \/ zeroing.then = "write")
  /\ pc' = "idle" /\ p' = <<>>
  /\ zeroing' = NoZeroing
  /\ n' = 0
  /\ UNCHANGED <<blobs, off, len, left, i, data, pos, departed, seekFailed>>

\* zero is done: Write goes on to its loop, Truncate sets the length.
ZeroReturns ==
  /\ pc = "zero" /\ ~EqPanics(blobs, zeroing.to, zeroing.from)
  /\ ~gt(blobs, zeroing.to, zeroing.from)
  /\ departed' = (departed \/ Mistaken(blobs, zeroing.to, zeroing.from))
  /\ \/ /\ zeroing.then = "write"
        /\ pc' = "write" /\ UNCHANGED <<len, data>>
     \/ /\ zeroing.then = "truncate"
        /\ pc' = "idle" /\ len' = zeroing.to
        /\ data' = Resize(data, n)
  /\ zeroing' = NoZeroing
  /\ n' = 0
  /\ UNCHANGED <<blobs, off, err, p, left, i, pos, seekFailed>>

-----------------------------------------------------------------------------
\* Write.

\* Mutant: does not fill the gap before the offset.
WriteCallLeavesGap(s) ==
  /\ Called /\ ~EqPanics(blobs, off, len)
  /\ Max({Abs(blobs, off), RefPos}) + Len(s) <= MaxLen
  /\ departed' = Mistaken(blobs, off, len)
  /\ data' = RefData /\ pos' = RefPos
  /\ p' = s /\ pc' = "write"
  /\ UNCHANGED <<blobs, off, len, err, left, i, n, zeroing, seekFailed>>

WriteCall(s) ==
  /\ Called /\ ~EqPanics(blobs, off, len)
  /\ Max({Abs(blobs, off), RefPos}) + Len(s) <= MaxLen
  /\ departed' = Mistaken(blobs, off, len)
  /\ data' = RefData /\ pos' = RefPos
  /\ p' = s
  /\ IF gt(blobs, off, len)
     THEN pc' = "zero" /\ zeroing' = [from |-> len, to |-> off, then |-> "write"]
     ELSE pc' = "write" /\ UNCHANGED zeroing
  /\ UNCHANGED <<blobs, off, len, err, left, i, n, seekFailed>>

\* Mutant: grows the file one blob too late.
ForWriteLate == IF rem(blobs, off) = 0 /\ off.index = Len(blobs)
                THEN grow(blobs) ELSE blobs

\* The blobs an iteration writes to.
ForWrite == IF rem(blobs, off) = 0 /\ off.index = Len(blobs) - 1
            THEN grow(blobs) ELSE blobs

WriteBytes(w) ==
  LET q == Advance(blobs, off)
      o == [q EXCEPT !.pos = @ + w]
      s == SubSeq(p, 1, w)
  IN  /\ 0 <= w /\ w <= rem(ForWrite, q)
      /\ blobs' = [ForWrite EXCEPT ![q.index + 1] = Overlay(@, q.pos, s)]
      /\ off' = o
      /\ len' = IF gt(ForWrite, o, len) THEN o ELSE len
      /\ departed' = (departed \/ Mistaken(ForWrite, o, len))
      /\ data' = Overlay(data, pos, s)
      /\ pos' = pos + w

Writing == /\ pc = "write" /\ p # <<>>
           /\ InRange(blobs, off) /\ InRange(ForWrite, Advance(blobs, off))

WriteStep ==
  /\ Writing
  /\ LET w == Min({Len(p), rem(ForWrite, Advance(blobs, off))})
     IN  WriteBytes(w) /\ p' = SubSeq(p, w + 1, Len(p))
  /\ UNCHANGED <<err, pc, left, i, n, zeroing, seekFailed>>

\* The blob operation fails after w bytes, or grow fails.
WriteFails ==
  /\ Writing
  /\ \/ \E w \in 0..Len(p) - 1 : WriteBytes(w)
     \/ ForWrite # blobs /\ UNCHANGED <<blobs, off, len, departed, data, pos>>
  /\ err' = TRUE /\ pc' = "idle" /\ p' = <<>>
  /\ UNCHANGED <<left, i, n, zeroing, seekFailed>>

WriteReturns ==
  /\ pc = "write" /\ p = <<>>
  /\ pc' = "idle"
  /\ UNCHANGED <<blobs, off, len, err, p, left, i, n, zeroing, data, pos,
                 departed, seekFailed>>

-----------------------------------------------------------------------------
\* Read.

ReadCall(k) ==
  /\ Called
  /\ pc' = "read" /\ left' = k /\ n' = 0
  /\ departed' = FALSE /\ data' = RefData /\ pos' = RefPos
  /\ UNCHANGED <<blobs, off, len, err, p, i, zeroing, seekFailed>>

Reading == pc = "read" /\ ~EqPanics(blobs, len, off)

\* What is left of the blob at q, or of the file.
Readable(q) == (IF len.index = q.index THEN len.pos ELSE Size(blobs, q.index))
               - q.pos

ReadBytes(w) ==
  LET q == Advance(blobs, off)
  IN  off' = [q EXCEPT !.pos = @ + w] /\ pos' = pos + w

ReadStep ==
  /\ Reading /\ left > 0 /\ gt(blobs, len, off)
  /\ InRange(blobs, off) /\ InRange(blobs, Advance(blobs, off))
  /\ LET w == Min({left, Readable(Advance(blobs, off))})
     IN  w >= 0 /\ ReadBytes(w) /\ left' = left - w /\ n' = n + w
  /\ UNCHANGED <<blobs, len, err, pc, p, i, zeroing, data, departed,
                 seekFailed>>

ReadFails ==
  /\ Reading /\ left > 0 /\ gt(blobs, len, off)
  /\ InRange(blobs, off) /\ InRange(blobs, Advance(blobs, off))
  /\ \E w \in 0..left - 1 :
       w <= Readable(Advance(blobs, off)) /\ ReadBytes(w)
  /\ err' = TRUE /\ pc' = "idle"
  /\ n' = 0 /\ left' = 0
  /\ UNCHANGED <<blobs, len, p, i, zeroing, data, departed, seekFailed>>

\* The test for io.EOF at the end of Read.
Eof == n = 0 /\ (eq(blobs, off, len) \/ gt(blobs, off, len))

ReadReturns ==
  /\ Reading /\ (left = 0 \/ ~gt(blobs, len, off))
  /\ departed' = (departed \/ Mistaken(blobs, len, off))
  /\ pc' = "idle"
  /\ n' = 0 /\ left' = 0
  /\ UNCHANGED <<blobs, off, len, err, p, i, zeroing, data, pos,
                 seekFailed>>

-----------------------------------------------------------------------------
\* Seek.  whence is what the offset is added to, here and in the reference.

SeekCall(d, whence) ==
  LET base == CASE whence = "start" -> 0
                [] whence = "current" -> Abs(blobs, off)
                [] whence = "end" -> Abs(blobs, len)
      refBase == CASE whence = "start" -> 0
                   [] whence = "current" -> RefPos
                   [] whence = "end" -> Len(RefData)
  IN  /\ Called /\ {base + d, refBase + d} \subseteq 0..MaxLen
      /\ left' = base + d
      /\ departed' = FALSE /\ data' = RefData /\ pos' = refBase + d
      /\ off' = [off EXCEPT !.index = 0] /\ i' = 0
      /\ pc' = "seek"
      /\ UNCHANGED <<blobs, len, err, p, n, zeroing, seekFailed>>

SeekStep ==
  /\ pc = "seek" /\ left > Size(blobs, i)
  /\ i' = i + 1 /\ left' = left - Size(blobs, i)
  /\ off' = [off EXCEPT !.index = i + 1]
  /\ blobs' = IF i = Len(blobs) - 1 THEN grow(blobs) ELSE blobs
  /\ UNCHANGED <<len, err, pc, p, n, zeroing, data, pos, departed, seekFailed>>

\* grow fails: off.index is already beyond the last blob, bb.err is not set.
SeekFails ==
  /\ pc = "seek" /\ left > Size(blobs, i) /\ i = Len(blobs) - 1
  /\ off' = [off EXCEPT !.index = i + 1]
  /\ seekFailed' = TRUE /\ departed' = TRUE
  /\ pc' = "idle" /\ left' = 0 /\ i' = 0
  /\ UNCHANGED <<blobs, len, err, p, n, zeroing, data, pos>>

SeekReturns ==
  /\ pc = "seek" /\ left <= Size(blobs, i)
  /\ off' = [off EXCEPT !.pos = left]
  /\ pc' = "idle" /\ left' = 0 /\ i' = 0 /\ seekFailed' = FALSE
  /\ UNCHANGED <<blobs, len, err, p, n, zeroing, data, pos, departed>>

-----------------------------------------------------------------------------
\* Truncate does not look at bb.err.

TruncateCall(size) ==
  /\ pc = "idle"
  /\ pc' = "truncate" /\ left' = size /\ n' = size /\ i' = 0
  /\ departed' = FALSE /\ data' = RefData /\ pos' = RefPos
  /\ UNCHANGED <<blobs, off, len, err, p, zeroing, seekFailed>>

TruncateStep ==
  /\ pc = "truncate" /\ i < Len(blobs) /\ Size(blobs, i) <= left
  /\ i' = i + 1 /\ left' = left - Size(blobs, i)
  /\ UNCHANGED <<blobs, off, len, err, pc, p, n, zeroing, data, pos, departed,
                 seekFailed>>

TruncateFits ==
  /\ pc = "truncate" /\ i < Len(blobs) /\ Size(blobs, i) > left
  /\ pc' = "zero"
  /\ zeroing' = [from |-> len, to |-> [index |-> i, pos |-> left],
                 then |-> "truncate"]
  /\ left' = 0 /\ i' = 0
  /\ UNCHANGED <<blobs, off, len, err, p, n, data, pos, departed, seekFailed>>

\* The blobs are scanned again with what was left of the size.
TruncateGrows ==
  /\ pc = "truncate" /\ i = Len(blobs)
  /\ blobs' = grow(blobs) /\ i' = 0 /\ departed' = TRUE
  /\ UNCHANGED <<off, len, err, pc, p, left, n, zeroing, data, pos, seekFailed>>

TruncateFails ==
  /\ pc = "truncate" /\ i = Len(blobs)
  /\ pc' = "idle" /\ left' = 0 /\ i' = 0
  /\ n' = 0
  /\ UNCHANGED <<blobs, off, len, err, p, zeroing, data, pos, departed, seekFailed>>

\* Close releases the blobs, unless an earlier call has failed.  Its own errors
\* go to bb.err.
Close ==
  /\ Called
  /\ pc' = "closed" /\ blobs' = <<>> /\ err' \in BOOLEAN
  /\ UNCHANGED <<off, len, p, left, i, n, zeroing, data, pos, departed,
                 seekFailed>>

\* An index or a slice is out of range.
OutOfRange ==
  CASE Called -> EqPanics(blobs, off, len)
    [] pc = "zero" ->
         \/ EqPanics(blobs, zeroing.to, zeroing.from)
         \/ /\ gt(blobs, zeroing.to, zeroing.from)
            /\ ~InRange(blobs, Advance(blobs, zeroing.from))
    [] pc = "write" /\ p # <<>> ->
         \/ ~InRange(blobs, off)
         \/ ~InRange(ForWrite, Advance(blobs, off))
         \/ rem(ForWrite, Advance(blobs, off)) < 0
    [] pc = "read" ->
         \/ EqPanics(blobs, len, off)
         \/ /\ left > 0 /\ gt(blobs, len, off)
            /\ \/ ~InRange(blobs, off)
               \/ ~InRange(blobs, Advance(blobs, off))
               \/ Readable(Advance(blobs, off)) < 0
    [] OTHER -> FALSE

Panic ==
  /\ OutOfRange = TRUE
  /\ pc' = "panic"
  /\ UNCHANGED <<blobs, off, len, err, p, left, i, n, zeroing, data, pos,
                 departed, seekFailed>>

Next ==
  \/ \E s \in Slices : WriteCall(s)
  \/ ZeroStep \/ ZeroFails \/ ZeroReturns
  \/ WriteStep \/ WriteFails \/ WriteReturns
  \/ \E k \in 0..MaxSlice : ReadCall(k)
  \/ ReadStep \/ ReadFails \/ ReadReturns
  \/ \E d \in -MaxLen..MaxLen, whence \in {"start", "current", "end"} :
       SeekCall(d, whence)
  \/ SeekStep \/ SeekFails \/ SeekReturns
  \/ \E size \in 0..MaxLen : TruncateCall(size)
  \/ TruncateStep \/ TruncateFits \/ TruncateGrows \/ TruncateFails
  \/ Close \/ Panic

Spec == Init /\ [][Next]_filevars

-----------------------------------------------------------------------------
Position == [index : Nat, pos : Nat]

\* The types of the variables.
TypeOK ==
  /\ blobs \in Seq(Seq(Bytes \cup {0}))
  /\ off \in Position /\ len \in Position
  /\ err \in BOOLEAN /\ departed \in BOOLEAN /\ seekFailed \in BOOLEAN
  /\ pc \in {"idle", "zero", "write", "read", "seek", "truncate", "closed", "panic"}
  /\ p \in Seq(Bytes) /\ left \in Nat /\ i \in Nat /\ n \in Nat
  /\ zeroing \in [from : Position, to : Position, then : {"write", "truncate"}]
  /\ data \in Seq(Bytes \cup {0}) /\ pos \in Nat

Agrees == Contents = data /\ Abs(blobs, off) = pos

\* Between two calls the file has the bytes and the offset of an ordinary file,
\* whichever of its calls failed, unless eq was mistaken, Truncate had to grow,
\* or Seek failed half way (file.go:87-98, 275-293, 258-268).
LikeReference == pc = "idle" /\ ~departed => Agrees

\* TestFileRand compares the file with an operating system file
\* (file_test.go:51): they agree after any calls, as long as no Seek fails.
LikeOsFile == pc = "idle" /\ ~seekFailed => Agrees

\* A Read that returns less than was asked for is at the end of the file, and if
\* it has read nothing it says io.EOF (file.go:195-226), with the same exceptions.
ReadsToTheEnd ==
  [][pc = "read" /\ pc' = "idle" /\ left > 0 =>
       departed' \/ err' \/ (pos >= Len(data) /\ (n = 0 => Eof))]_filevars

\* No blob index and no slice bound is out of range, unless the last Seek failed
\* half way (file.go:262-265).
NoPanic == pc = "panic" => seekFailed
=============================================================================
