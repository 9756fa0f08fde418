------------------------------- MODULE Buffer -------------------------------
(***************************************************************************)
(* sqlitefile.Buffer: a queue of bytes with its first and its last page in *)
(* memory (rbuf, wbuf) and the pages between them in temporary blobs.  An  *)
(* iteration of the loop of Write is one step.  unread is the reference:   *)
(* the bytes a queue would hold after the same calls.                      *)
(***************************************************************************)
EXTENDS Integers, Sequences, FiniteSetsExt

CONSTANTS PageSize,    \* cap(rbuf) and cap(wbuf)
          Values,      \* how many different bytes are written, one after the
                       \* other and over again: Buffer does not look at them
          MaxUnread    \* bound: no call makes the queue longer

ASSUME BufferAssumption ==
  PageSize \in Nat \ {0} /\ Values \in Nat \ {0} /\ MaxUnread \in Nat

VARIABLES
  rbuf, roff, wbuf,  \* bb.rbuf, bb.roff, bb.wbuf
  pages,             \* the contents of bb.blobs
  freelist,          \* the sizes of the blobs in bb.freelist
  failed,            \* bb.err # nil
  todo,              \* Write: the bytes left to append
  rows,              \* rows of this buffer in the temporary table
  closed,            \* Close was called
  unread,            \* the reference queue
  recent,            \* the last bytes that were read, at most PageSize
  latest             \* the last byte that was given to Write

buffervars == <<rbuf, roff, wbuf, pages, freelist, failed, todo, rows, closed,
                unread, recent, latest>>

Letters == 0..Values - 1

BufferInit ==
  /\ rbuf = <<>> /\ roff = 0 /\ wbuf = <<>> /\ pages = <<>> /\ freelist = <<>>
  /\ failed = FALSE /\ todo = <<>> /\ rows = 0 /\ closed = FALSE
  /\ unread = <<>> /\ recent = <<>> /\ latest = 0

Ready == todo = <<>> /\ ~closed
ReadDone == roff = Len(rbuf)
Full == Len(wbuf) = PageSize

-----------------------------------------------------------------------------
\* Write, WriteString and WriteByte.

BufferWriteCall(k) ==
  /\ Ready /\ ~failed /\ Len(unread) + k <= MaxUnread
  /\ todo' = [j \in 1..k |-> (latest + j) % Values]
  /\ latest' = (latest + k) % Values
  /\ UNCHANGED <<rbuf, roff, wbuf, pages, freelist, failed, rows, closed, unread,
                 recent>>

\* What an iteration of Write appends to a write buffer b.
AppendTo(b) ==
  LET nn == Min({Len(todo), PageSize - Len(b)})
  IN  /\ wbuf' = b \o SubSeq(todo, 1, nn)
      /\ unread' = unread \o SubSeq(todo, 1, nn)
      /\ todo' = SubSeq(todo, nn + 1, Len(todo))

WriteToBuffer ==
  /\ todo # <<>> /\ ~Full
  /\ AppendTo(wbuf)
  /\ UNCHANGED <<rbuf, roff, pages, freelist, failed, rows, closed, recent, latest>>

\* wbufEnsureSpace, the short cut: the write buffer becomes the read buffer.
ShortCut ==
  /\ todo # <<>> /\ Full /\ pages = <<>> /\ ReadDone
  /\ rbuf' = wbuf /\ roff' = 0
  /\ AppendTo(<<>>)
  /\ UNCHANGED <<pages, freelist, failed, rows, closed, recent, latest>>

Flushing == todo # <<>> /\ Full /\ ~(pages = <<>> /\ ReadDone)

\* alloc: a free blob, or a new one of len(rbuf) bytes.
alloc ==
  IF freelist # <<>>
  THEN freelist' = SubSeq(freelist, 1, Len(freelist) - 1) /\ UNCHANGED rows
  ELSE rows' = rows + 1 /\ UNCHANGED freelist

AllocSize == IF freelist # <<>> THEN freelist[Len(freelist)] ELSE Len(rbuf)

\* Mutant: puts the page before the others.
FlushInFront ==
  /\ Flushing /\ AllocSize >= PageSize
  /\ alloc
  /\ pages' = <<wbuf>> \o pages
  /\ AppendTo(<<>>)
  /\ UNCHANGED <<rbuf, roff, failed, closed, recent, latest>>

\* wbufEnsureSpace writes the page to the blob, which has to be large enough.
Flush ==
  /\ Flushing /\ AllocSize >= PageSize
  /\ alloc
  /\ pages' = Append(pages, wbuf)
  /\ AppendTo(<<>>)
  /\ UNCHANGED <<rbuf, roff, failed, closed, recent, latest>>

\* The blob is too small, or alloc or the blob operation fails: Write returns
\* and a blob that was allocated is in neither list.
FlushFails ==
  /\ Flushing
  /\ \/ alloc
     \/ freelist = <<>> /\ UNCHANGED <<freelist, rows>>
  /\ failed' = TRUE /\ todo' = <<>>
  /\ UNCHANGED <<rbuf, roff, wbuf, pages, closed, unread, recent, latest>>

-----------------------------------------------------------------------------
\* Read and ReadByte: copy at most k bytes from a read buffer b at offset o.

LastBytes(s) == SubSeq(s, Max({1, Len(s) - PageSize + 1}), Len(s))

CopyFrom(b, o, k) ==
  LET c == Min({k, Len(b) - o})
  IN  /\ rbuf' = b /\ roff' = o + c
      /\ recent' = LastBytes(recent \o SubSeq(unread, 1, Min({c, Len(unread)})))
      /\ unread' = SubSeq(unread, c + 1, Len(unread))

ReadFromBuffer(k) ==
  /\ Ready /\ ~failed /\ ~ReadDone
  /\ CopyFrom(rbuf, roff, k)
  /\ UNCHANGED <<wbuf, pages, freelist, failed, todo, rows, closed, latest>>

\* rbufFill: the first blob.
ReadPage(k) ==
  /\ Ready /\ ~failed /\ ReadDone /\ pages # <<>>
  /\ pages' = Tail(pages) /\ freelist' = Append(freelist, Len(Head(pages)))
  /\ CopyFrom(Head(pages), 0, k)
  /\ UNCHANGED <<wbuf, failed, todo, rows, closed, latest>>

\* rbufFill cannot read the blob: it is in neither list any more.
ReadPageFails ==
  /\ Ready /\ ~failed /\ ReadDone /\ pages # <<>>
  /\ roff' = 0 /\ pages' = Tail(pages) /\ failed' = TRUE
  /\ UNCHANGED <<rbuf, wbuf, freelist, todo, rows, closed, unread, recent, latest>>

\* rbufFill: no blobs, the write buffer becomes the read buffer.
ReadWbuf(k) ==
  /\ Ready /\ ~failed /\ ReadDone /\ pages = <<>> /\ wbuf # <<>>
  /\ wbuf' = <<>>
  /\ CopyFrom(wbuf, 0, k)
  /\ UNCHANGED <<pages, freelist, failed, todo, rows, closed, latest>>

\* Otherwise Read returns io.EOF and changes nothing.

\* UnreadByte, and the reference's: the last byte that was read is next again.
UnreadByte ==
  /\ Ready /\ ~failed /\ roff > 0
  /\ roff' = roff - 1
  /\ IF recent = <<>> THEN UNCHANGED <<unread, recent>>
     ELSE /\ unread' = <<recent[Len(recent)]>> \o unread
          /\ recent' = SubSeq(recent, 1, Len(recent) - 1)
  /\ UNCHANGED <<rbuf, wbuf, pages, freelist, failed, todo, rows, closed, latest>>

\* Reset keeps the blobs, and bb.err.
Reset ==
  /\ Ready
  /\ rbuf' = <<>> /\ wbuf' = <<>> /\ roff' = 0
  /\ freelist' = freelist \o [k \in DOMAIN pages |-> Len(pages[k])]
  /\ pages' = <<>> /\ unread' = <<>> /\ recent' = <<>>
  /\ UNCHANGED <<failed, todo, rows, closed, latest>>

\* Close deletes the rows of the blobs in the two lists; each DELETE may fail.
BufferClose ==
  /\ Ready
  /\ \E undeleted \in 0..Len(pages) + Len(freelist) :
       /\ rows' = rows - Len(pages) - Len(freelist) + undeleted
       /\ failed' = (failed \/ undeleted > 0)
  /\ pages' = <<>> /\ freelist' = <<>> /\ closed' = TRUE
  /\ UNCHANGED <<rbuf, roff, wbuf, todo, unread, recent, latest>>

BufferNext ==
  \/ \E k \in 0..MaxUnread : BufferWriteCall(k)
  \/ WriteToBuffer \/ ShortCut \/ Flush \/ FlushFails
  \/ \E k \in 0..PageSize : ReadFromBuffer(k) \/ ReadPage(k) \/ ReadWbuf(k)
  \/ ReadPageFails \/ UnreadByte \/ Reset \/ BufferClose

BufferSpec == BufferInit /\ [][BufferNext]_buffervars

-----------------------------------------------------------------------------
\* bb.Len().
BufferLen == Len(rbuf) - roff + PageSize * Len(pages) + Len(wbuf)

\* The types of the variables; neither buffer outgrows its page.
BufferTypeOK ==
  /\ rbuf \in Seq(Letters) /\ roff \in 0..Len(rbuf) /\ Len(rbuf) <= PageSize
  /\ wbuf \in Seq(Letters) /\ Len(wbuf) <= PageSize
  /\ pages \in Seq(Seq(Letters)) /\ freelist \in Seq(Nat)
  /\ failed \in BOOLEAN /\ closed \in BOOLEAN
  /\ todo \in Seq(Letters) /\ rows \in Nat
  /\ unread \in Seq(Letters) /\ recent \in Seq(Letters) /\ latest \in Letters

\* u is what is left of a read buffer b from offset o on, then the pages ps,
\* every one of them full, then a write buffer w.
InOrder(u, b, o, ps, w) ==
  LET ahead == Len(b) - o
  IN  /\ Len(u) = ahead + PageSize * Len(ps) + Len(w)
      /\ \A j \in 1..ahead : u[j] = b[o + j]
      /\ \A q \in 1..Len(ps) :
           /\ Len(ps[q]) = PageSize
           /\ \A j \in 1..PageSize : u[ahead + PageSize * (q - 1) + j] = ps[q][j]
      /\ \A j \in 1..Len(w) : u[ahead + PageSize * Len(ps) + j] = w[j]

\* The bytes come out in the order in which they went in, none lost and none
\* twice, through both buffers and the blobs, and Len counts them
\* (buffer.go:100-132, 207-242, 276-281).
Fifo ==
  ~failed /\ ~closed =>
    InOrder(unread, rbuf, roff, pages, wbuf) /\ BufferLen = Len(unread)

\* The first o elements of b are the last of s.
EndsWith(s, b, o) == o <= Len(s) /\ \A j \in 1..o : s[Len(s) - o + j] = b[j]

\* UnreadByte gives back bytes that were really read, most recent first
\* (buffer.go:146-155): the read buffer before roff is the end of what was read.
UnreadsWhatWasRead == ~failed => EndsWith(recent, rbuf, roff)

\* "Close releases all resources associated with the file, removing the storage
\* from the database" (buffer.go:300-301): as long as no operation has failed,
\* every row is in one of the lists Close goes through, and in none twice.
NoRowForgotten == ~failed => rows = Len(pages) + Len(freelist)

\* A Buffer is a queue of bytes that keeps no row it does not need, whatever
\* the sizes of the slices that are written and read.
LikeAQueue == Fifo /\ UnreadsWhatWasRead /\ NoRowForgotten
=============================================================================
