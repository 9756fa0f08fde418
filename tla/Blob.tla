-------------------------------- MODULE Blob --------------------------------
(***************************************************************************)
(* Blob (blob.go): streaming access to one blob of the database through a  *)
(* C buffer of BlobBuf bytes.  A call copies chunk by chunk; any chunk may *)
(* fail (the row changes and the handle expires, I/O).                     *)
(***************************************************************************)
EXTENDS Integers, Sequences, FiniteSetsExt

CONSTANTS
    BlobBuf,      \* blobBufSize
    BlobSize,     \* bytes of the blob
    BlobSlice,    \* longest slice an application passes
    BlobBytes     \* values of a byte

ASSUME BlobAssumption == /\ BlobBuf \in Nat \ {0}
                         /\ BlobSize \in Nat /\ BlobSlice \in Nat
                         /\ BlobBytes # {}

VARIABLES
    bstate,     \* "none" (not opened), "open", "closed" (Blob.blob = 0)
    bbuf,       \* the C buffer is allocated
    bdone,      \* doneCh of the connection is closed
    content,    \* the bytes in the database
    boff,       \* Blob.off
    bcall       \* the call in progress, or the last one

blobvars == <<bstate, bbuf, bdone, content, boff, bcall>>

BlobSlices == UNION {[1 .. n -> BlobBytes] : n \in 0 .. BlobSlice}
Blank(n) == [i \in 1 .. n |-> CHOOSE b \in BlobBytes : TRUE]

\* p: what is left of the slice; n: bytes copied; out: bytes that were read;
\* pre, at, full: the blob, the offset and the slice when the call was made.
Call(op, p) == [op |-> op, pc |-> "loop", p |-> p, n |-> 0, out |-> <<>>,
                pre |-> content, at |-> boff, full |-> p, err |-> "none"]
Refused(op, p, e) == [Call(op, p) EXCEPT !.pc = "ret", !.err = e]
Returned == bcall.pc = "ret"

BlobTypeOK ==
    /\ content \in [1 .. BlobSize -> BlobBytes]
    /\ boff \in 0 .. BlobSize
    /\ bcall.pc \in {"loop", "ret"}

BlobInit ==
    /\ bstate = "none" /\ bbuf = FALSE /\ bdone = FALSE
    /\ content = Blank(BlobSize)
    /\ boff = 0
    /\ bcall = [Call("Open", <<>>) EXCEPT !.pc = "ret"]

\* OpenBlob: interrupted, or sqlite3_blob_open fails (the deferred function
\* frees the buffer), or the blob is open.  After LOCKED_SHAREDCACHE the loop
\* waits and tries again.
OpenBlob ==
    /\ bstate = "none"
    /\ \/ /\ ~bdone
          /\ bstate' = "open" /\ bbuf' = TRUE /\ UNCHANGED bcall
       \/ /\ bcall' = Refused("Open", <<>>, IF bdone THEN "interrupt" ELSE "failed")
          /\ UNCHANGED <<bstate, bbuf>>
    /\ UNCHANGED <<bdone, content, boff>>

Interrupt ==
    /\ bdone' = TRUE
    /\ UNCHANGED <<bstate, bbuf, content, boff, bcall>>

\* Read cuts p to what is left of the blob; WriteTo copies all of that.
CallRead(op, p) ==
    /\ Returned /\ bstate # "none"
    /\ bcall' =
          IF bstate = "closed" THEN Refused(op, p, "invalid")
          ELSE IF boff >= BlobSize THEN Refused(op, p, IF op = "Read" THEN "EOF" ELSE "none")
          ELSE IF bdone THEN Refused(op, p, "interrupt")
          ELSE IF op = "Read" /\ Len(p) <= BlobSize - boff THEN Call(op, p)
          ELSE [Call(op, p) EXCEPT !.p = Blank(BlobSize - boff)]
    /\ UNCHANGED <<bstate, bbuf, bdone, content, boff>>

\* Write, WriteString and ReadFrom.
CallWrite(op, p) ==
    /\ Returned /\ bstate # "none"
    /\ bcall' = IF bstate = "closed" THEN Refused(op, p, "invalid")
                ELSE IF bdone THEN Refused(op, p, "interrupt")
                ELSE Call(op, p)
    /\ UNCHANGED <<bstate, bbuf, bdone, content, boff>>

AdvanceBlob(nn, out) ==
    /\ boff' = boff + nn
    /\ bcall' = [bcall EXCEPT !.p = SubSeq(@, nn + 1, Len(@)), !.n = @ + nn,
                              !.out = @ \o out]

ChunkLen == Min({BlobBuf, Len(bcall.p)})

\* One sqlite3_blob_read.  The writer of WriteTo may take less and fail.
ReadChunk ==
    /\ bcall.pc = "loop" /\ bcall.op \in {"Read", "WriteTo"} /\ bcall.p # <<>>
    /\ \E nn \in 0 .. ChunkLen :
          /\ nn = ChunkLen \/ bcall.op = "WriteTo"
          /\ AdvanceBlob(nn, SubSeq(content, boff + 1, boff + nn))
    /\ UNCHANGED <<bstate, bbuf, bdone, content>>

\* Mutant: Write advances by the size of the buffer, not by what it copied.
WriteChunkWhole ==
    /\ bcall.pc = "loop" /\ bcall.op \in {"Write", "ReadFrom"} /\ bcall.p # <<>>
    /\ \E nn \in 1 .. ChunkLen :
          /\ nn = ChunkLen \/ bcall.op = "ReadFrom"
          /\ boff + nn <= BlobSize
          /\ content' = [i \in DOMAIN content |->
                           IF i \in boff + 1 .. boff + nn THEN bcall.p[i - boff] ELSE content[i]]
          /\ boff' = Min({boff + BlobBuf, BlobSize})
          /\ bcall' = [bcall EXCEPT !.p = SubSeq(@, nn + 1, Len(@)), !.n = @ + nn]
    /\ UNCHANGED <<bstate, bbuf, bdone>>

\* One sqlite3_blob_write, which writes nothing when it would pass the end.
\* The reader of ReadFrom may deliver less than the buffer holds.
WriteChunk ==
    /\ bcall.pc = "loop" /\ bcall.op \in {"Write", "ReadFrom"} /\ bcall.p # <<>>
    /\ \E nn \in 1 .. ChunkLen :
          /\ nn = ChunkLen \/ bcall.op = "ReadFrom"
          /\ boff + nn <= BlobSize
          /\ content' = [i \in DOMAIN content |->
                           IF i \in boff + 1 .. boff + nn THEN bcall.p[i - boff] ELSE content[i]]
          /\ AdvanceBlob(nn, <<>>)
    /\ UNCHANGED <<bstate, bbuf, bdone>>

\* A chunk fails, or the reader or the writer does, perhaps with the last bytes.
ChunkFails ==
    /\ bcall.pc = "loop" /\ (bcall.p # <<>> \/ bcall.op \in {"ReadFrom", "WriteTo"})
    /\ bcall' = [bcall EXCEPT !.pc = "ret", !.err = "failed"]
    /\ UNCHANGED <<bstate, bbuf, bdone, content, boff>>

LoopEnds ==
    /\ bcall.pc = "loop" /\ bcall.p = <<>>
    /\ bcall' = [bcall EXCEPT !.pc = "ret"]
    /\ UNCHANGED <<bstate, bbuf, bdone, content, boff>>

Seek(offset, whence) ==
    LET o == offset + CASE whence = "start" -> 0
                        [] whence = "current" -> boff
                        [] whence = "end" -> BlobSize
        ok == o >= 0 /\ o <= BlobSize
    IN  /\ Returned /\ bstate # "none"
        /\ boff' = IF ok THEN o ELSE boff
        /\ bcall' = [Refused("Seek", <<>>, IF ok THEN "none" ELSE "failed") EXCEPT !.n = offset]
        /\ UNCHANGED <<bstate, bbuf, bdone, content>>

CloseBlob ==
    /\ Returned /\ bstate # "none"
    /\ bcall' = Refused("Close", <<>>, IF bstate = "closed" THEN "invalid" ELSE "none")
    /\ bstate' = "closed" /\ bbuf' = FALSE
    /\ UNCHANGED <<bdone, content, boff>>

BlobNext ==
    \/ OpenBlob \/ Interrupt
    \/ \E n \in 0 .. BlobSlice : CallRead("Read", Blank(n))
    \/ CallRead("WriteTo", <<>>)
    \/ \E p \in BlobSlices : CallWrite("Write", p) \/ CallWrite("ReadFrom", p)
    \/ ReadChunk \/ WriteChunk \/ ChunkFails \/ LoopEnds
    \/ \E d \in -1 .. 1, w \in {"start", "current", "end"} : Seek(d, w)
    \/ CloseBlob

BlobSpec == BlobInit /\ [][BlobNext]_blobvars
-----------------------------------------------------------------------------
\* Every call of Blob does what it would do on a byte slice of fixed length: the
\* count it returns is the number of bytes that were copied and that Blob.off
\* moved, the bytes are those at the offset of the call, nothing else changes,
\* and without an error the count is complete, however the buffer cuts it.  The
\* buffer is allocated as long as the blob is open.
BlobLikeSlice ==
    /\ bbuf = (bstate = "open")
    /\ Returned =>
       LET n == bcall.n
           at == bcall.at
           pre == bcall.pre
           ok == bcall.err = "none"
       IN  CASE bcall.op \in {"Read", "WriteTo"} ->
                  /\ content = pre /\ boff = at + n
                  /\ bcall.out = SubSeq(pre, at + 1, at + n)
                  /\ (ok /\ bcall.op = "Read") => n = Min({Len(bcall.full), BlobSize - at})
                  /\ (ok /\ bcall.op = "WriteTo") => boff = BlobSize
             [] bcall.op \in {"Write", "ReadFrom"} ->
                  /\ content = SubSeq(pre, 1, at) \o SubSeq(bcall.full, 1, n)
                               \o SubSeq(pre, at + n + 1, BlobSize)
                  /\ boff = at + n
                  /\ ok => n = Len(bcall.full)
             [] OTHER -> content = pre /\ boff \in 0 .. BlobSize
=============================================================================
