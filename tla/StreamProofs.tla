---------------------------- MODULE StreamProofs ----------------------------
(***************************************************************************)
(* Proofs about streams of bytes: a Buffer of package sqlitefile is a      *)
(* queue, for every page size; and a Blob is a slice, for every size of    *)
(* the blob and of the buffer it is copied through.                        *)
(***************************************************************************)
EXTENDS Buffer, Blob, TLAPS

\* A part of a sequence.
LEMMA Slice ==
  ASSUME NEW S, NEW s, NEW lo \in Int, NEW hi \in Int, \A j \in lo .. hi : s[j] \in S
  PROVE  /\ SubSeq(s, lo, hi) \in Seq(S)
         /\ Len(SubSeq(s, lo, hi)) = IF lo <= hi THEN hi - lo + 1 ELSE 0
         /\ \A j \in 1 .. hi - lo + 1 : SubSeq(s, lo, hi)[j] = s[lo + j - 1]
  OBVIOUS

\* What is taken off both sides of an inequality.
LEMMA StillRoom ==
  ASSUME NEW a \in Nat, NEW b \in Nat, NEW c \in Nat, NEW d \in Nat, NEW e \in Nat,
         e >= a + b, d - c >= e - b
  PROVE  d >= a + c
  OBVIOUS

\* The first elements of a sequence.
LEMMA Prefix ==
  ASSUME NEW S, NEW s, NEW n \in Nat, \A j \in 1 .. n : s[j] \in S
  PROVE  /\ SubSeq(s, 1, n) \in Seq(S) /\ Len(SubSeq(s, 1, n)) = n
         /\ \A j \in 1 .. n : SubSeq(s, 1, n)[j] = s[j]
  OBVIOUS

\* One sequence after another.
LEMMA Concatenated ==
  ASSUME NEW S, NEW s \in Seq(S), NEW t \in Seq(S)
  PROVE  /\ s \o t \in Seq(S) /\ Len(s \o t) = Len(s) + Len(t)
         /\ \A j \in 1 .. Len(s) + Len(t) :
               (s \o t)[j] = IF j <= Len(s) THEN s[j] ELSE t[j - Len(s)]
  OBVIOUS

\* A sequence with one more element.
LEMMA Longer ==
  ASSUME NEW S, NEW s \in Seq(S), NEW e \in S
  PROVE  /\ Append(s, e) \in Seq(S) /\ Append(s, e) # <<>>
         /\ Len(Append(s, e)) = Len(s) + 1 /\ Append(s, e)[Len(s) + 1] = e
         /\ \A j \in 1 .. Len(s) : Append(s, e)[j] = s[j]
  OBVIOUS

\* A sequence without its first element.
LEMMA Shorter ==
  ASSUME NEW S, NEW s \in Seq(S), s # <<>>
  PROVE  /\ Head(s) \in S /\ Tail(s) \in Seq(S) /\ Len(Tail(s)) = Len(s) - 1
         /\ \A j \in 1 .. Len(Tail(s)) : Tail(s)[j] = s[j + 1]
  OBVIOUS

\* The empty sequence, and those that are not empty.
LEMMA Nonempty ==
  ASSUME NEW S
  PROVE  /\ <<>> \in Seq(S) /\ Len(<<>>) = 0
         /\ \A s \in Seq(S) : s # <<>> => Len(s) \in Nat \ {0}
  OBVIOUS

\* Min of two numbers.
LEMMA MinOfTwo == ASSUME NEW x \in Int, NEW y \in Int
                  PROVE  Min({x, y}) = IF x <= y THEN x ELSE y
  BY DEF Max, Min
\* Max of two numbers.
LEMMA MaxOfTwo == ASSUME NEW x \in Int, NEW y \in Int
                  PROVE  Max({x, y}) = IF x <= y THEN y ELSE x
  BY DEF Max, Min

\* A sequence with nothing after it.
LEMMA NothingJoined == ASSUME NEW S, NEW s \in Seq(S)  PROVE s \o <<>> = s
  OBVIOUS

\* All of a sequence.
LEMMA Everything == ASSUME NEW S, NEW s \in Seq(S)  PROVE SubSeq(s, 1, Len(s)) = s
  OBVIOUS

\* Sequences with the same elements are the same.
LEMMA SameElements ==
  ASSUME NEW S, NEW s \in Seq(S), NEW t \in Seq(S), Len(s) = Len(t),
         \A j \in 1 .. Len(s) : s[j] = t[j]
  PROVE  s = t
  OBVIOUS

\* Two adjacent parts of a sequence are one part.
LEMMA Adjacent ==
  ASSUME NEW S, NEW s \in Seq(S), NEW lo \in 1 .. Len(s) + 1, NEW mid \in lo - 1 .. Len(s),
         NEW hi \in mid .. Len(s)
  PROVE  SubSeq(s, lo, mid) \o SubSeq(s, mid + 1, hi) = SubSeq(s, lo, hi)
  OBVIOUS

\* A number of a range is at most its end.
LEMMA InRange == ASSUME NEW b \in Nat, NEW i \in 0 .. b  PROVE i <= b
  OBVIOUS
-----------------------------------------------------------------------------
(***************************************************************************)
(* sqlitefile.Buffer.                                                      *)
(***************************************************************************)

\* What is read and written.
ByteSeq == Seq(Letters)

\* The elements of a concatenation.
LEMMA Joined ==
  ASSUME NEW s \in ByteSeq, NEW t \in ByteSeq
  PROVE  /\ s \o t \in ByteSeq /\ Len(s \o t) = Len(s) + Len(t)
         /\ \A j \in 1 .. Len(s) : (s \o t)[j] = s[j]
         /\ \A j \in 1 .. Len(t) : (s \o t)[Len(s) + j] = t[j]
<1>1. s \o t \in ByteSeq /\ Len(s \o t) = Len(s) + Len(t)
  BY Zenon, Concatenated DEF ByteSeq
<1>2. ASSUME NEW j \in 1 .. Len(s)  PROVE (s \o t)[j] = s[j]  BY Concatenated DEF ByteSeq
<1>3. ASSUME NEW j \in 1 .. Len(t)  PROVE (s \o t)[Len(s) + j] = t[j]
  <2> DEFINE k == Len(s)
             l == Len(t)
  <2>1. k \in Nat /\ l \in Nat  BY DEF ByteSeq
  <2> HIDE DEF k, l
  <2>2. j \in 1 .. l  BY Zenon DEF l
  <2>3. k + j \in 1 .. k + l /\ ~(k + j <= k) /\ k + j - k = j  BY <2>1, <2>2
  <2>4. \A g \in 1 .. k + l : (s \o t)[g] = IF g <= k THEN s[g] ELSE t[g - k]
    BY Zenon, Concatenated DEF ByteSeq, k, l
  <2> QED  BY <2>3, <2>4 DEF k
<1> QED  BY Zenon, <1>1, <1>2, <1>3

\* The elements of a slice.
LEMMA Sliced ==
  ASSUME NEW s \in ByteSeq, NEW x \in 1 .. Len(s) + 1, NEW y \in 0 .. Len(s), x <= y + 1
  PROVE  /\ SubSeq(s, x, y) \in ByteSeq /\ Len(SubSeq(s, x, y)) = y - x + 1
         /\ \A j \in 1 .. y - x + 1 : SubSeq(s, x, y)[j] = s[x + j - 1]
<1>1. x \in Int /\ y \in Int /\ Len(s) \in Nat  BY DEF ByteSeq
<1>2. SubSeq(s, x, y) = [j \in 1 .. y - x + 1 |-> s[x + j - 1]]
  BY <1>1 DEF ByteSeq
<1>3. ASSUME NEW j \in 1 .. y - x + 1  PROVE s[x + j - 1] \in Letters
  <2>1. x + j - 1 \in 1 .. Len(s)  BY <1>1
  <2> QED  BY <2>1 DEF ByteSeq
<1>4. y - x + 1 \in Nat  BY <1>1
<1> DEFINE f == [j \in 1 .. y - x + 1 |-> s[x + j - 1]]
<1>5. f \in [1 .. y - x + 1 -> Letters]  BY Zenon, <1>3
<1>6. f \in Seq(Letters) /\ Len(f) = y - x + 1
  <2> DEFINE k == y - x + 1
  <2> HIDE DEF f
  <2> QED  BY <1>4, <1>5
<1> QED  BY Zenon, <1>2, <1>6 DEF ByteSeq

\* A page ends where the next one begins.
LEMMA Slot ==
  ASSUME NEW l \in Nat, NEW q \in 1 .. l
  PROVE  PageSize * (q - 1) \in Nat /\ PageSize * (q - 1) + PageSize <= PageSize * l
<1>1. q - 1 \in Nat /\ q \in Nat /\ q <= l /\ PageSize \in Nat  BY BufferAssumption
<1>2. PageSize * l = PageSize * q + PageSize * (l - q)  BY <1>1
<1>3. PageSize * (l - q) >= 0 /\ PageSize * (l - q) \in Int  BY <1>1
<1>4. PageSize * q = PageSize * (q - 1) + PageSize  BY <1>1
<1>5. PageSize * (q - 1) \in Nat  BY <1>1
<1> DEFINE P == PageSize * (q - 1)
           Q == PageSize * q
           R == PageSize * (l - q)
           L == PageSize * l
<1>6. L = Q + R /\ R >= 0 /\ R \in Int /\ Q = P + PageSize /\ P \in Nat
  BY Zenon, <1>2, <1>3, <1>4, <1>5
<1> HIDE DEF P, Q, R, L
<1>7. P + PageSize <= L  BY <1>1, <1>6
<1> QED  BY Zenon, <1>6, <1>7 DEF P, L

\* Write: what is appended to the write buffer is appended to the queue.
LEMMA AppendsInOrder ==
  ASSUME NEW u \in ByteSeq, NEW b \in ByteSeq, NEW o \in 0 .. Len(b), NEW ps \in Seq(ByteSeq), NEW w \in ByteSeq,
         NEW t \in ByteSeq, InOrder(u, b, o, ps, w)
  PROVE  InOrder(u \o t, b, o, ps, w \o t)
<1> DEFINE m == Len(b) - o
           l == Len(ps)
           L == PageSize * l
           k == Len(w)
           z == Len(t)
           N == Len(u)
<1>1. m \in Nat /\ l \in Nat /\ L \in Nat /\ k \in Nat /\ z \in Nat /\ N \in Nat
  <2>1. PageSize \in Nat /\ l \in Nat  BY BufferAssumption
  <2> QED  BY <2>1 DEF ByteSeq
<1>2. /\ N = m + L + k
      /\ \A j \in 1 .. m : u[j] = b[o + j]
      /\ \A q \in 1 .. l : /\ Len(ps[q]) = PageSize
                           /\ \A j \in 1 .. PageSize : u[m + PageSize * (q - 1) + j] = ps[q][j]
      /\ \A j \in 1 .. k : u[m + L + j] = w[j]
  BY Zenon DEF InOrder
<1>3. /\ Len(u \o t) = N + z
      /\ \A j \in 1 .. N : (u \o t)[j] = u[j]
      /\ \A j \in 1 .. z : (u \o t)[N + j] = t[j]
  BY Zenon, Joined
<1>4. /\ Len(w \o t) = k + z
      /\ \A j \in 1 .. k : (w \o t)[j] = w[j]
      /\ \A j \in 1 .. z : (w \o t)[k + j] = t[j]
  BY Zenon, Joined
<1> DEFINE v == u \o t
           x == w \o t
<1> HIDE DEF m, l, L, k, z, N, v, x
<1>5. ASSUME NEW j \in 1 .. m  PROVE v[j] = b[o + j]
  <2>1. j \in 1 .. N  BY <1>1, <1>2
  <2> QED  BY Zenon, <1>2, <1>3, <2>1 DEF v
<1>6. ASSUME NEW q \in 1 .. l  PROVE /\ Len(ps[q]) = PageSize
                                     /\ \A j \in 1 .. PageSize : v[m + PageSize * (q - 1) + j] = ps[q][j]
  <2>1. ASSUME NEW j \in 1 .. PageSize  PROVE v[m + PageSize * (q - 1) + j] = ps[q][j]
    <3> DEFINE P == PageSize * (q - 1)
    <3>1. P \in Nat /\ P + PageSize <= L  BY Zenon, <1>1, Slot DEF L
    <3> HIDE DEF P
    <3>2. m + P + j \in 1 .. N  BY <1>1, <1>2, <3>1, BufferAssumption
    <3>3. v[m + P + j] = u[m + P + j]  BY Zenon, <1>3, <3>2 DEF v
    <3> QED  BY Zenon, <1>2, <3>3 DEF P
  <2> QED  BY Zenon, <1>2, <2>1
<1>7. ASSUME NEW j \in 1 .. k + z  PROVE v[m + L + j] = x[j]
  <2>1. CASE j <= k
    <3>1. j \in 1 .. k /\ m + L + j \in 1 .. N  BY <1>1, <1>2, <2>1
    <3> QED  BY Zenon, <1>2, <1>3, <1>4, <3>1 DEF v, x
  <2>2. CASE j > k
    <3>1. PICK g \in 1 .. z : j = k + g  
      <4>1. j - k \in 1 .. z /\ j = k + (j - k)  BY <1>1, <2>2
      <4> QED  BY Zenon, <4>1
    <3>2. m + L + j = N + g  BY <1>1, <1>2, <3>1
    <3> QED  BY Zenon, <1>3, <1>4, <3>1, <3>2 DEF v, x
  <2> QED  BY <1>1, <2>1, <2>2
<1>8. Len(v) = m + L + (k + z)  BY <1>1, <1>2, <1>3 DEF v
<1>9. Len(x) = k + z  BY Zenon, <1>4 DEF x
<1>10. InOrder(v, b, o, ps, x)
  BY Zenon, <1>5, <1>6, <1>7, <1>8, <1>9 DEF InOrder, m, l, L
<1> QED  BY Zenon, <1>10 DEF v, x

\* The short cut, and rbufFill without blobs.
LEMMA SwapsInOrder ==
  ASSUME NEW u \in ByteSeq, NEW b \in ByteSeq, NEW w \in ByteSeq, InOrder(u, b, Len(b), <<>>, w)
  PROVE  InOrder(u, w, 0, <<>>, <<>>)
<1>1. PageSize * 0 = 0 /\ Len(b) - Len(b) = 0 /\ Len(b) \in Nat /\ Len(w) \in Nat /\ Len(u) \in Nat
  BY BufferAssumption DEF ByteSeq
<1>2. Len(<<>>) = 0  BY Zenon
<1>3. Len(u) = Len(w) /\ \A j \in 1 .. Len(w) : u[j] = w[j]
  <2>1. Len(u) = 0 + 0 + Len(w) /\ \A j \in 1 .. Len(w) : u[0 + 0 + j] = w[j]
    BY Zenon, <1>1, <1>2 DEF InOrder
  <2>2. \A j \in 1 .. Len(w) : 0 + 0 + j = j  OBVIOUS
  <2> QED  BY <1>1, <2>1, <2>2
<1>4. \A j \in 1 .. Len(w) - 0 : u[j] = w[0 + j]
  <2> TAKE j \in 1 .. Len(w) - 0
  <2>1. j \in 1 .. Len(w) /\ 0 + j = j  BY <1>1
  <2> QED  BY Zenon, <1>3, <2>1
<1>5. Len(u) = Len(w) - 0 + PageSize * Len(<<>>) + Len(<<>>)  BY <1>1, <1>2, <1>3
<1> QED  BY <1>2, <1>4, <1>5 DEF InOrder

\* wbufEnsureSpace: a full write buffer becomes the last page.
LEMMA FlushesInOrder ==
  ASSUME NEW u \in ByteSeq, NEW b \in ByteSeq, NEW o \in 0 .. Len(b), NEW ps \in Seq(ByteSeq), NEW w \in ByteSeq,
         Len(w) = PageSize, InOrder(u, b, o, ps, w)
  PROVE  InOrder(u, b, o, Append(ps, w), <<>>)
<1> DEFINE m == Len(b) - o
           l == Len(ps)
           L == PageSize * l
           N == Len(u)
           xs == Append(ps, w)
<1>1. m \in Nat /\ l \in Nat /\ L \in Nat /\ N \in Nat /\ PageSize \in Nat
  <2>1. PageSize \in Nat /\ l \in Nat  BY BufferAssumption
  <2> QED  BY <2>1 DEF ByteSeq
<1>2. /\ N = m + L + PageSize
      /\ \A j \in 1 .. m : u[j] = b[o + j]
      /\ \A q \in 1 .. l : /\ Len(ps[q]) = PageSize
                           /\ \A j \in 1 .. PageSize : u[m + PageSize * (q - 1) + j] = ps[q][j]
      /\ \A j \in 1 .. PageSize : u[m + L + j] = w[j]
  BY Zenon DEF InOrder
<1>3. Len(xs) = l + 1 /\ xs[l + 1] = w /\ \A q \in 1 .. l : xs[q] = ps[q]
  BY Longer
<1>4. PageSize * (l + 1) = L + PageSize /\ PageSize * (l + 1 - 1) = L
  <2>1. l + 1 - 1 = l /\ PageSize * (l + 1) = PageSize * l + PageSize  BY <1>1
  <2> QED  BY Zenon, <2>1
<1>5. Len(<<>>) = 0  BY Zenon
<1> HIDE DEF m, l, L, N, xs
<1>6. ASSUME NEW q \in 1 .. l + 1  PROVE /\ Len(xs[q]) = PageSize
                                         /\ \A j \in 1 .. PageSize : u[m + PageSize * (q - 1) + j] = xs[q][j]
  <2>1. CASE q \in 1 .. l  BY <1>2, <1>3, <2>1
  <2>2. CASE q = l + 1
    <3>4. q - 1 = l  BY <1>1, <2>2
    <3>5. PageSize * (q - 1) = L  BY Zenon, <3>4 DEF L
    <3>1. PageSize * (q - 1) = L /\ xs[q] = w  BY Zenon, <1>3, <2>2, <3>5
    <3>2. Len(xs[q]) = PageSize  BY Zenon, <3>1
    <3>3. \A j \in 1 .. PageSize : u[m + PageSize * (q - 1) + j] = xs[q][j]
      <4> HIDE DEF L
      <4> TAKE j \in 1 .. PageSize
      <4>1. u[m + L + j] = w[j]  BY Zenon, <1>2
      <4> QED  BY Zenon, <3>1, <4>1
    <3> QED  BY Zenon, <3>2, <3>3
  <2> QED  BY <1>1, <2>1, <2>2
<1>7. N = m + PageSize * (l + 1) + 0  BY <1>1, <1>2, <1>4
<1>8. InOrder(u, b, o, xs, <<>>)  BY <1>2, <1>3, <1>5, <1>6, <1>7 DEF InOrder, m, N
<1> QED  BY Zenon, <1>8 DEF xs

\* rbufFill: the first page becomes the read buffer.
LEMMA FillsInOrder ==
  ASSUME NEW u \in ByteSeq, NEW b \in ByteSeq, NEW ps \in Seq(ByteSeq), NEW w \in ByteSeq,
         ps # <<>>, InOrder(u, b, Len(b), ps, w)
  PROVE  InOrder(u, Head(ps), 0, Tail(ps), w) /\ Len(Head(ps)) = PageSize
<1> DEFINE l == Len(ps)
           L == PageSize * l
           N == Len(u)
           k == Len(w)
           h == ps[1]
           xs == Tail(ps)
<1>1. l \in Nat /\ L \in Nat /\ N \in Nat /\ PageSize \in Nat /\ k \in Nat /\ Len(b) - Len(b) = 0
  <2>1. PageSize \in Nat /\ l \in Nat  BY BufferAssumption
  <2> QED  BY <2>1 DEF ByteSeq
<1>2. /\ N = 0 + L + k
      /\ \A q \in 1 .. l : /\ Len(ps[q]) = PageSize
                           /\ \A j \in 1 .. PageSize : u[0 + PageSize * (q - 1) + j] = ps[q][j]
      /\ \A j \in 1 .. k : u[0 + L + j] = w[j]
  BY <1>1 DEF InOrder
<1>3. l # 0 /\ Len(xs) = l - 1 /\ Head(ps) = h /\ \A q \in 1 .. l - 1 : xs[q] = ps[q + 1]
  BY Shorter, Nonempty
<1>4. L = PageSize + PageSize * (l - 1) /\ PageSize * (l - 1) \in Nat /\ PageSize * (1 - 1) = 0
  BY <1>1, <1>3
<1> HIDE DEF l, L, N, k, h, xs
<1>5. Len(h) = PageSize /\ \A j \in 1 .. PageSize : u[j] = h[j]
  <2>1. 1 \in 1 .. l  BY <1>1, <1>3
  <2>2. Len(h) = PageSize /\ \A j \in 1 .. PageSize : u[0 + 0 + j] = h[j]
    BY Zenon, <1>2, <1>4, <2>1 DEF h
  <2> QED  BY <2>2
<1>6. ASSUME NEW q \in 1 .. l - 1  PROVE /\ Len(xs[q]) = PageSize
                                         /\ \A j \in 1 .. PageSize : u[PageSize - 0 + PageSize * (q - 1) + j] = xs[q][j]
  <2>1. q + 1 \in 1 .. l /\ q \in Nat /\ q + 1 - 1 = q  BY <1>1, <1>3
  <2>2. PageSize * q = PageSize + PageSize * (q - 1) /\ PageSize * (q - 1) \in Nat
    BY <1>1, <2>1
  <2>3. Len(ps[q + 1]) = PageSize /\ \A j \in 1 .. PageSize : u[0 + PageSize * q + j] = ps[q + 1][j]
    <3>1. \A j \in 1 .. PageSize : u[0 + PageSize * (q + 1 - 1) + j] = ps[q + 1][j]
      BY <1>2, <2>1
    <3> QED  BY Zenon, <1>2, <2>1, <3>1
  <2>4. ASSUME NEW j \in 1 .. PageSize  PROVE u[PageSize - 0 + PageSize * (q - 1) + j] = xs[q][j]
    <3> DEFINE P == PageSize * (q - 1)
               Q == PageSize * q
    <3>1. u[0 + Q + j] = ps[q + 1][j] /\ Q = PageSize + P /\ P \in Nat
      BY Zenon, <2>2, <2>3
    <3> HIDE DEF P, Q
    <3>2. PageSize - 0 + P + j = 0 + Q + j  BY <1>1, <3>1
    <3>3. u[PageSize - 0 + P + j] = xs[q][j]  BY Zenon, <1>3, <3>1, <3>2
    <3> QED  BY Zenon, <3>3 DEF P
  <2> QED  BY Zenon, <1>3, <2>3, <2>4
<1>7. N = PageSize - 0 + PageSize * (l - 1) + k
  <2> DEFINE P == PageSize * (l - 1)
  <2> HIDE DEF P
  <2>1. L = PageSize + P /\ P \in Nat  BY Zenon, <1>4 DEF P
  <2>2. N = PageSize - 0 + P + k  BY <1>1, <1>2, <2>1
  <2> QED  BY Zenon, <2>2 DEF P
<1>8. ASSUME NEW j \in 1 .. k  PROVE u[PageSize - 0 + PageSize * (l - 1) + j] = w[j]
  <2> DEFINE P == PageSize * (l - 1)
  <2> HIDE DEF P
  <2>1. L = PageSize + P /\ P \in Nat  BY Zenon, <1>4 DEF P
  <2>2. PageSize - 0 + P + j = 0 + L + j  BY <1>1, <2>1
  <2>3. u[PageSize - 0 + P + j] = w[j]  BY Zenon, <1>2, <2>2
  <2> QED  BY Zenon, <2>3 DEF P
<1>9. \A j \in 1 .. PageSize - 0 : u[j] = h[0 + j]
  <2> TAKE j \in 1 .. PageSize - 0
  <2>1. j \in 1 .. PageSize /\ 0 + j = j  BY <1>1
  <2> QED  BY Zenon, <1>5, <2>1
<1>10. InOrder(u, h, 0, xs, w)  BY <1>3, <1>5, <1>6, <1>7, <1>8, <1>9 DEF InOrder, N, k
<1> QED  BY Zenon, <1>3, <1>5, <1>10 DEF xs

\* Read: what is copied from the read buffer is the front of the queue.
LEMMA ReadsInOrder ==
  ASSUME NEW u \in ByteSeq, NEW b \in ByteSeq, NEW o \in 0 .. Len(b), NEW ps \in Seq(ByteSeq), NEW w \in ByteSeq,
         NEW c \in 0 .. Len(b) - o, InOrder(u, b, o, ps, w)
  PROVE  /\ c <= Len(u) /\ \A j \in 1 .. c : u[j] = b[o + j]
         /\ InOrder(SubSeq(u, c + 1, Len(u)), b, o + c, ps, w)
<1> DEFINE m == Len(b) - o
           l == Len(ps)
           L == PageSize * l
           k == Len(w)
           N == Len(u)
           v == SubSeq(u, c + 1, Len(u))
<1>1. m \in Nat /\ l \in Nat /\ L \in Nat /\ k \in Nat /\ N \in Nat /\ Len(b) \in Nat /\ PageSize \in Nat
  <2>1. PageSize \in Nat /\ l \in Nat  BY BufferAssumption
  <2> QED  BY <2>1 DEF ByteSeq
<1>2. /\ N = m + L + k
      /\ \A j \in 1 .. m : u[j] = b[o + j]
      /\ \A q \in 1 .. l : /\ Len(ps[q]) = PageSize
                           /\ \A j \in 1 .. PageSize : u[m + PageSize * (q - 1) + j] = ps[q][j]
      /\ \A j \in 1 .. k : u[m + L + j] = w[j]
  BY Zenon DEF InOrder
<1>10. c \in 0 .. m  BY Zenon
<1>11. Len(b) - (o + c) = m - c  BY <1>1
<1>12. N = Len(u)  BY Zenon
<1> HIDE DEF m, l, L, k, N
<1>3. c + 1 \in 1 .. N + 1 /\ N \in 0 .. N /\ c + 1 <= N + 1 /\ c <= N  BY <1>1, <1>2, <1>10
<1>4. Len(v) = N - (c + 1) + 1 /\ \A j \in 1 .. N - (c + 1) + 1 : v[j] = u[(c + 1) + j - 1]
  <2>1. c + 1 \in 1 .. Len(u) + 1 /\ Len(u) \in 0 .. Len(u) /\ c + 1 <= Len(u) + 1
    BY Zenon, <1>3, <1>12
  <2> QED  BY Zenon, <1>12, <2>1, Sliced
<1> HIDE DEF v
<1>5. Len(v) = N - c /\ \A j \in 1 .. N - c : v[j] = u[c + j]
  <2>1. N - (c + 1) + 1 = N - c  BY <1>1, <1>10
  <2>2. \A j \in 1 .. N - c : (c + 1) + j - 1 = c + j  BY <1>10
  <2> QED  BY Zenon, <1>4, <2>1, <2>2
<1>6. ASSUME NEW j \in 1 .. m - c  PROVE v[j] = b[o + c + j]
  <2>1. j \in 1 .. N - c /\ c + j \in 1 .. m  BY <1>1, <1>2, <1>10
  <2>2. o + (c + j) = o + c + j  BY <1>1, <1>10
  <2>3. u[c + j] = b[o + (c + j)]  BY Zenon, <1>2, <2>1
  <2> QED  BY Zenon, <1>5, <2>1, <2>2, <2>3
<1>7. ASSUME NEW q \in 1 .. l, NEW j \in 1 .. PageSize
      PROVE  v[m - c + PageSize * (q - 1) + j] = ps[q][j]
  <2> DEFINE P == PageSize * (q - 1)
  <2>1. P \in Nat /\ P + PageSize <= L  BY Zenon, <1>1, Slot DEF L
  <2> HIDE DEF P
  <2>2. m - c + P + j \in 1 .. N - c /\ c + (m - c + P + j) = m + P + j
    BY <1>1, <1>2, <1>10, <2>1
  <2>3. v[m - c + P + j] = u[m + P + j]  BY Zenon, <1>5, <2>2
  <2>4. u[m + P + j] = ps[q][j]  BY Zenon, <1>2 DEF P
  <2> QED  BY Zenon, <2>3, <2>4 DEF P
<1>8. ASSUME NEW j \in 1 .. k  PROVE v[m - c + L + j] = w[j]
  <2>2. N = m + L + k  BY Zenon, <1>2
  <2>3. j \in Nat /\ j >= 1 /\ j <= k /\ c \in Nat /\ c <= m  BY <1>1, <1>10
  <2>1. m - c + L + j \in 1 .. N - c /\ c + (m - c + L + j) = m + L + j  BY <1>1, <2>2, <2>3
  <2> QED  BY Zenon, <1>2, <1>5, <2>1
<1>9. Len(v) = m - c + L + k  BY <1>1, <1>2, <1>5, <1>10
<1>13. InOrder(v, b, o + c, ps, w)
  <2>1. \A q \in 1 .. l : Len(ps[q]) = PageSize  BY Zenon, <1>2
  <2> QED  BY <1>6, <1>7, <1>8, <1>9, <1>11, <2>1 DEF InOrder, l, L, k
<1>14. \A j \in 1 .. c : u[j] = b[o + j]
  <2> TAKE j \in 1 .. c
  <2>1. j \in 1 .. m  BY <1>1, <1>10
  <2> QED  BY Zenon, <1>2, <2>1
<1> QED  BY Zenon, <1>3, <1>12, <1>13, <1>14 DEF v

\* UnreadByte: the byte before roff is the front of the queue again.
LEMMA UnreadInOrder ==
  ASSUME NEW u \in ByteSeq, NEW b \in ByteSeq, NEW o \in 1 .. Len(b), NEW ps \in Seq(ByteSeq), NEW w \in ByteSeq,
         NEW y \in Letters, y = b[o], InOrder(u, b, o, ps, w)
  PROVE  InOrder(<<y>> \o u, b, o - 1, ps, w)
<1> DEFINE m == Len(b) - o
           l == Len(ps)
           L == PageSize * l
           k == Len(w)
           N == Len(u)
           v == <<y>> \o u
<1>1. m \in Nat /\ l \in Nat /\ L \in Nat /\ k \in Nat /\ N \in Nat /\ Len(b) \in Nat /\ PageSize \in Nat
  <2>1. PageSize \in Nat /\ l \in Nat  BY BufferAssumption
  <2> QED  BY <2>1 DEF ByteSeq
<1>2. /\ N = m + L + k
      /\ \A j \in 1 .. m : u[j] = b[o + j]
      /\ \A q \in 1 .. l : /\ Len(ps[q]) = PageSize
                           /\ \A j \in 1 .. PageSize : u[m + PageSize * (q - 1) + j] = ps[q][j]
      /\ \A j \in 1 .. k : u[m + L + j] = w[j]
  BY Zenon DEF InOrder
<1>3. <<y>> \in ByteSeq /\ Len(<<y>>) = 1 /\ <<y>>[1] = y  BY DEF ByteSeq
<1>4. Len(v) = 1 + N /\ v[1] = y /\ \A j \in 1 .. N : v[1 + j] = u[j]
  <2> DEFINE t == <<y>>
  <2> HIDE DEF t
  <2>1. t \in ByteSeq /\ Len(t) = 1 /\ t[1] = y  BY Zenon, <1>3 DEF t
  <2>2. /\ Len(t \o u) = Len(t) + N
        /\ \A j \in 1 .. Len(t) : (t \o u)[j] = t[j]
        /\ \A j \in 1 .. N : (t \o u)[Len(t) + j] = u[j]
    BY Zenon, <2>1, Joined
  <2>3. Len(t \o u) = 1 + N /\ (t \o u)[1] = y /\ \A j \in 1 .. N : (t \o u)[1 + j] = u[j]
    BY <2>1, <2>2
  <2> QED  BY Zenon, <2>3 DEF t
<1>5. Len(b) - (o - 1) = m + 1  BY <1>1
<1>6. N = m + L + k  BY Zenon, <1>2
<1>7. o \in Nat /\ o >= 1  OBVIOUS
<1> HIDE DEF m, l, L, k, N, v
<1>8. ASSUME NEW j \in 1 .. m + 1  PROVE v[j] = b[o - 1 + j]
  <2>1. CASE j = 1
    <3>1. o - 1 + j = o  BY <1>7, <2>1
    <3> QED  BY Zenon, <1>4, <2>1, <3>1
  <2>2. CASE j # 1
    <3>1. PICK g \in 1 .. m : j = 1 + g
      <4>1. j - 1 \in 1 .. m /\ j = 1 + (j - 1)  BY <1>1, <2>2
      <4> QED  BY Zenon, <4>1
    <3>2. g \in 1 .. N /\ o - 1 + j = o + g  BY <1>1, <1>6, <1>7, <3>1
    <3> QED  BY Zenon, <1>2, <1>4, <3>1, <3>2
  <2> QED  BY Zenon, <2>1, <2>2
<1>9. ASSUME NEW q \in 1 .. l, NEW j \in 1 .. PageSize
      PROVE  v[m + 1 + PageSize * (q - 1) + j] = ps[q][j]
  <2> DEFINE P == PageSize * (q - 1)
  <2>1. P \in Nat /\ P + PageSize <= L  BY Zenon, <1>1, Slot DEF L
  <2> HIDE DEF P
  <2>2. m + P + j \in 1 .. N /\ m + 1 + P + j = 1 + (m + P + j)  BY <1>1, <1>6, <2>1
  <2>3. v[m + 1 + P + j] = u[m + P + j]  BY Zenon, <1>4, <2>2
  <2>4. u[m + P + j] = ps[q][j]  BY Zenon, <1>2 DEF P
  <2> QED  BY Zenon, <2>3, <2>4 DEF P
<1>10. ASSUME NEW j \in 1 .. k  PROVE v[m + 1 + L + j] = w[j]
  <2>1. m + L + j \in 1 .. N /\ m + 1 + L + j = 1 + (m + L + j)  BY <1>1, <1>6
  <2> QED  BY Zenon, <1>2, <1>4, <2>1
<1>11. Len(v) = m + 1 + L + k  BY <1>1, <1>4, <1>6
<1>12. InOrder(v, b, o - 1, ps, w)
  <2>1. \A q \in 1 .. l : Len(ps[q]) = PageSize  BY Zenon, <1>2
  <2> QED  BY <1>5, <1>8, <1>9, <1>10, <1>11, <2>1 DEF InOrder, l, L, k
<1> QED  BY Zenon, <1>12 DEF v

\* A page of the bytes that were read is all that UnreadByte can reach.
LEMMA LastBytesKept ==
  ASSUME NEW s \in ByteSeq, NEW b \in ByteSeq, NEW o \in 0 .. PageSize, EndsWith(s, b, o)
  PROVE  LastBytes(s) \in ByteSeq /\ EndsWith(LastBytes(s), b, o)
<1> DEFINE N == Len(s)
           x == Max({1, N - PageSize + 1})
           v == SubSeq(s, x, N)
<1>1. N \in Nat /\ PageSize \in Nat \ {0} /\ LastBytes(s) = v
  BY BufferAssumption DEF ByteSeq, LastBytes
<1>2. o <= N /\ \A j \in 1 .. o : s[N - o + j] = b[j]  BY Zenon DEF EndsWith
<1>3. x = IF 1 <= N - PageSize + 1 THEN N - PageSize + 1 ELSE 1  BY <1>1, MaxOfTwo
<1> HIDE DEF x
<1>4. x \in 1 .. N + 1 /\ x <= N + 1 /\ N \in 0 .. N /\ o <= N - x + 1  BY <1>1, <1>2, <1>3
<1>5. v \in ByteSeq /\ Len(v) = N - x + 1 /\ \A j \in 1 .. N - x + 1 : v[j] = s[x + j - 1]
  BY Zenon, <1>4, Sliced
<1> HIDE DEF N, v
<1>6. ASSUME NEW j \in 1 .. o  PROVE v[N - x + 1 - o + j] = b[j]
  <2>1. o \in Nat /\ x \in Nat  BY <1>1, <1>4
  <2>2. N - x + 1 - o + j \in 1 .. N - x + 1 /\ x + (N - x + 1 - o + j) - 1 = N - o + j
    BY <1>1, <1>4, <2>1
  <2>3. v[N - x + 1 - o + j] = s[N - o + j]  BY Zenon, <1>5, <2>2
  <2> QED  BY Zenon, <1>2, <2>3
<1> QED  BY <1>1, <1>4, <1>5, <1>6 DEF EndsWith

\* Read: the bytes before roff are the end of what was read, also after more is
\* read.
LEMMA RecentGrows ==
  ASSUME NEW s \in ByteSeq, NEW b \in ByteSeq, NEW o \in Nat, NEW t \in ByteSeq,
         o + Len(t) <= PageSize, EndsWith(s, b, o), \A j \in 1 .. Len(t) : t[j] = b[o + j]
  PROVE  LastBytes(s \o t) \in ByteSeq /\ EndsWith(LastBytes(s \o t), b, o + Len(t))
<1> DEFINE N == Len(s)
           z == Len(t)
           v == s \o t
<1>1. N \in Nat /\ z \in Nat /\ PageSize \in Nat  BY BufferAssumption DEF ByteSeq
<1>2. o <= N /\ \A j \in 1 .. o : s[N - o + j] = b[j]  BY Zenon DEF EndsWith
<1>3. /\ v \in ByteSeq /\ Len(v) = N + z
      /\ \A j \in 1 .. N : v[j] = s[j]
      /\ \A j \in 1 .. z : v[N + j] = t[j]
  BY Zenon, Joined
<1>4. o + z <= PageSize /\ \A j \in 1 .. z : t[j] = b[o + j]  BY Zenon
<1> HIDE DEF N, z, v
<1> DEFINE y == o + z
           k == N + z
<1>9. y = o + z /\ k = N + z  BY Zenon
<1> HIDE DEF y, k
<1>5. ASSUME NEW j \in 1 .. y  PROVE v[k - y + j] = b[j]
  <2>1. k - y + j = N - o + j  BY <1>1, <1>9
  <2>2. CASE j <= o
    <3>1. j \in 1 .. o /\ N - o + j \in 1 .. N  BY <1>1, <1>2, <2>2
    <3> QED  BY Zenon, <1>2, <1>3, <2>1, <3>1
  <2>3. CASE j > o
    <3>1. PICK g \in 1 .. z : j = o + g
      <4>1. j - o \in 1 .. z /\ j = o + (j - o)  BY <1>1, <1>9, <2>3
      <4> QED  BY Zenon, <4>1
    <3>2. N - o + j = N + g  BY <1>1, <3>1
    <3> QED  BY Zenon, <1>3, <1>4, <2>1, <3>1, <3>2
  <2> QED  BY <1>1, <2>2, <2>3
<1>6. EndsWith(v, b, o + z)
  <2>1. o + z <= N + z  BY <1>1, <1>2
  <2>2. y <= k /\ Len(v) = k  BY Zenon, <1>3, <1>9, <2>1
  <2>3. EndsWith(v, b, y)  BY Zenon, <1>5, <2>2 DEF EndsWith
  <2> QED  BY Zenon, <1>9, <2>3
<1>7. o + z \in 0 .. PageSize  BY <1>1, <1>4
<1>8. LastBytes(v) \in ByteSeq /\ EndsWith(LastBytes(v), b, o + z)
  BY Zenon, <1>3, <1>6, <1>7, LastBytesKept
<1> QED  BY Zenon, <1>8 DEF v, z

\* UnreadByte: the byte it takes back is the last that was read.
LEMMA RecentShrinks ==
  ASSUME NEW s \in ByteSeq, NEW b \in ByteSeq, NEW o \in 1 .. Len(b), EndsWith(s, b, o)
  PROVE  /\ s # <<>> /\ s[Len(s)] = b[o]
         /\ SubSeq(s, 1, Len(s) - 1) \in ByteSeq /\ EndsWith(SubSeq(s, 1, Len(s) - 1), b, o - 1)
<1> DEFINE N == Len(s)
           v == SubSeq(s, 1, N - 1)
<1>1. N \in Nat /\ o \in Nat /\ o >= 1  BY DEF ByteSeq
<1>2. o <= N /\ \A j \in 1 .. o : s[N - o + j] = b[j]  BY Zenon DEF EndsWith
<1>3. s # <<>>
  <2> SUFFICES ASSUME s = <<>>  PROVE FALSE
    BY Zenon
  <2> QED  BY <1>1, <1>2
<1>4. s[N] = b[o]
  <2>1. N - o + o = N /\ o \in 1 .. o  BY <1>1
  <2> QED  BY Zenon, <1>2, <2>1
<1>5. v \in ByteSeq /\ Len(v) = N - 1 - 1 + 1 /\ \A j \in 1 .. N - 1 - 1 + 1 : v[j] = s[1 + j - 1]
  <2>1. 1 \in 1 .. N + 1 /\ N - 1 \in 0 .. N /\ 1 <= N - 1 + 1  BY <1>1, <1>2
  <2> QED  BY Zenon, <2>1, Sliced
<1> HIDE DEF N, v
<1>6. Len(v) = N - 1  BY <1>1, <1>5
<1>7. ASSUME NEW j \in 1 .. o - 1  PROVE v[N - 1 - (o - 1) + j] = b[j]
  <2>1. N - 1 - (o - 1) + j = N - o + j /\ N - o + j \in 1 .. N - 1 - 1 + 1 /\ 1 + (N - o + j) - 1 = N - o + j /\ j \in 1 .. o
    BY <1>1, <1>2
  <2> QED  BY Zenon, <1>2, <1>5, <2>1
<1>8. o - 1 <= N - 1  BY <1>1, <1>2
<1>9. EndsWith(v, b, o - 1)  BY Zenon, <1>6, <1>7, <1>8 DEF EndsWith
<1> QED  BY Zenon, <1>3, <1>4, <1>5, <1>9 DEF N, v

\* The inductive invariant: the queue is in the two buffers and the pages,
\* every page of them full; the read buffer before roff is what was read last;
\* no row is in the two lists twice.
BufInv ==
    /\ BufferTypeOK
    /\ (failed \/ closed) => todo = <<>>
    /\ (~failed /\ ~closed) => InOrder(unread, rbuf, roff, pages, wbuf)
    /\ ~failed => EndsWith(recent, rbuf, roff)
    /\ rows >= Len(pages) + Len(freelist)
    /\ ~failed => rows = Len(pages) + Len(freelist)

\* What the state of a buffer is.
LEMMA Kinds ==
  ASSUME BufInv
  PROVE  /\ rbuf \in ByteSeq /\ wbuf \in ByteSeq /\ unread \in ByteSeq /\ recent \in ByteSeq /\ todo \in ByteSeq
         /\ roff \in 0 .. Len(rbuf) /\ roff \in Nat /\ Len(rbuf) \in Nat /\ Len(rbuf) <= PageSize
         /\ Len(wbuf) \in Nat /\ Len(wbuf) <= PageSize /\ Len(unread) \in Nat /\ Len(todo) \in Nat
         /\ pages \in Seq(ByteSeq) /\ freelist \in Seq(Nat) /\ Len(pages) \in Nat /\ Len(freelist) \in Nat
         /\ rows \in Nat /\ latest \in Letters
         /\ PageSize \in Nat \ {0} /\ Values \in Nat \ {0} /\ MaxUnread \in Nat
BY BufferAssumption DEF BufInv, BufferTypeOK, ByteSeq

\* NewBuffer: an empty queue.
LEMMA BufferStarts == BufferInit => BufInv
<1> SUFFICES ASSUME BufferInit  PROVE BufInv
  BY Zenon
<1>1. BufferTypeOK
  <2>1. <<>> \in Seq(Letters) /\ <<>> \in Seq(Seq(Letters)) /\ <<>> \in Seq(Nat) /\ Len(<<>>) = 0
    OBVIOUS
  <2>2. 0 \in Letters /\ 0 \in 0 .. 0 /\ 0 <= PageSize /\ 0 \in Nat
    BY BufferAssumption DEF Letters
  <2> QED  BY Zenon, <2>1, <2>2 DEF BufferInit, BufferTypeOK
<1>2. EndsWith(<<>>, <<>>, 0)  BY DEF EndsWith
<1>3. InOrder(<<>>, <<>>, 0, <<>>, <<>>)
  <2>1. PageSize * 0 = 0 /\ Len(<<>>) = 0  BY BufferAssumption
  <2> QED  BY <2>1 DEF InOrder
<1> QED  BY <1>1, <1>2, <1>3 DEF BufferInit, BufInv

\* Write is called.
LEMMA WriteCallKept ==
  ASSUME BufInv, NEW k \in 0 .. MaxUnread, BufferWriteCall(k)
  PROVE  BufInv'
<1>1. k \in Nat /\ Values \in Nat \ {0} /\ latest \in Letters  BY Kinds
<1>2. \A x \in Nat : x % Values \in Letters  BY <1>1 DEF Letters
<1>3. \A j \in 1 .. k : (latest + j) % Values \in Letters  BY <1>1, <1>2 DEF Letters
<1>4. latest' \in Letters
  <2>1. latest + k \in Nat  BY <1>1 DEF Letters
  <2> QED  BY Zenon, <1>2, <2>1 DEF BufferWriteCall
<1>5. todo' \in Seq(Letters)
  <2> DEFINE f == [j \in 1 .. k |-> (latest + j) % Values]
  <2>1. f \in [1 .. k -> Letters]  BY Zenon, <1>3
  <2> HIDE DEF f
  <2>2. f \in Seq(Letters)  BY <1>1, <2>1
  <2> QED  BY Zenon, <2>2 DEF BufferWriteCall, f
<1>6. ~failed' /\ ~closed'  BY Zenon DEF BufferWriteCall, Ready
<1>7. BufferTypeOK'  BY Zenon, <1>4, <1>5 DEF BufferWriteCall, BufInv, BufferTypeOK
<1> QED  BY Zenon, <1>6, <1>7 DEF BufferWriteCall, BufInv

\* What an iteration of Write takes from what is left to write.
LEMMA Taken ==
  ASSUME BufInv, NEW b \in ByteSeq, Len(b) <= PageSize, AppendTo(b)
  PROVE  \E t \in ByteSeq : /\ wbuf' = b \o t /\ unread' = unread \o t /\ Len(b) + Len(t) <= PageSize
                          /\ todo' \in ByteSeq /\ wbuf' \in ByteSeq /\ unread' \in ByteSeq
                          /\ Len(wbuf') <= PageSize
<1> DEFINE N == Len(todo)
           k == Len(b)
           nn == Min({N, PageSize - k})
           t == SubSeq(todo, 1, nn)
           r == SubSeq(todo, nn + 1, N)
<1>1. N \in Nat /\ k \in Nat /\ k <= PageSize /\ PageSize \in Nat  BY Kinds DEF ByteSeq
<1>2. nn = IF N <= PageSize - k THEN N ELSE PageSize - k  BY <1>1, MinOfTwo
<1>3. wbuf' = b \o t /\ unread' = unread \o t /\ todo' = r  BY Zenon DEF AppendTo
<1> HIDE DEF nn
<1>4. nn \in 0 .. N /\ nn + k <= PageSize  BY <1>1, <1>2
<1>5. t \in ByteSeq /\ Len(t) = nn - 1 + 1
  <2>1. 1 \in 1 .. N + 1 /\ 1 <= nn + 1  BY <1>1, <1>4
  <2> QED  BY Zenon, <1>4, <2>1, Kinds, Sliced
<1>6. r \in ByteSeq
  <2>1. nn + 1 \in 1 .. N + 1 /\ N \in 0 .. N /\ nn + 1 <= N + 1  BY <1>1, <1>4
  <2> QED  BY Zenon, <2>1, Kinds, Sliced
<1> HIDE DEF N, k, t, r
<1>7. Len(t) = nn /\ k + Len(t) <= PageSize  BY <1>1, <1>4, <1>5
<1>8. b \o t \in ByteSeq /\ Len(b \o t) = k + Len(t)  BY Zenon, <1>5, Joined DEF k
<1>9. unread \o t \in ByteSeq  BY Zenon, <1>5, Joined, Kinds
<1> QED  BY Zenon, <1>3, <1>5, <1>6, <1>7, <1>8, <1>9 DEF k

\* Write appends to the write buffer.
LEMMA WriteToBufferKept == ASSUME BufInv, WriteToBuffer  PROVE BufInv'
<1>1. todo # <<>> /\ ~failed /\ ~closed /\ AppendTo(wbuf)
  BY Zenon DEF WriteToBuffer, BufInv
<1>2. PICK t \in ByteSeq : /\ wbuf' = wbuf \o t /\ unread' = unread \o t
                         /\ todo' \in ByteSeq /\ wbuf' \in ByteSeq /\ unread' \in ByteSeq /\ Len(wbuf') <= PageSize
  BY Zenon, <1>1, Kinds, Taken
<1>3. InOrder(unread \o t, rbuf, roff, pages, wbuf \o t)
  BY Zenon, <1>1, Kinds, AppendsInOrder DEF BufInv
<1>4. InOrder(unread, rbuf, roff, pages, wbuf)'
  BY Zenon, <1>2, <1>3 DEF WriteToBuffer
<1>5. BufferTypeOK'  BY Zenon, <1>2 DEF WriteToBuffer, BufInv, BufferTypeOK, ByteSeq
<1> QED  BY Zenon, <1>1, <1>4, <1>5 DEF WriteToBuffer, BufInv

\* wbufEnsureSpace takes the short cut.
LEMMA ShortCutKept == ASSUME BufInv, ShortCut  PROVE BufInv'
<1> DEFINE e == <<>>
<1>1. todo # <<>> /\ ~failed /\ ~closed /\ AppendTo(e) /\ pages = e /\ roff = Len(rbuf)
  BY Zenon DEF ShortCut, BufInv, ReadDone
<1>2. e \in ByteSeq /\ Len(e) = 0  BY DEF ByteSeq
<1>6. InOrder(unread, wbuf, 0, e, e)  BY Zenon, <1>1, Kinds, SwapsInOrder DEF BufInv
<1>7. e \in Seq(ByteSeq) /\ pages' = e  BY <1>1 DEF ShortCut
<1> HIDE DEF e
<1>8. PICK t \in ByteSeq : /\ wbuf' = e \o t /\ unread' = unread \o t
                         /\ todo' \in ByteSeq /\ wbuf' \in ByteSeq /\ unread' \in ByteSeq /\ Len(wbuf') <= PageSize
  <2>1. Len(e) <= PageSize  BY <1>2, Kinds
  <2> QED  BY Zenon, <1>1, <1>2, <2>1, Taken
<1>9. 0 \in 0 .. Len(wbuf)  BY Kinds
<1>3. InOrder(unread \o t, wbuf, 0, e, e \o t)
  BY Zenon, <1>2, <1>6, <1>7, <1>9, Kinds, AppendsInOrder
<1>4. InOrder(unread, rbuf, roff, pages, wbuf)'
  BY Zenon, <1>3, <1>7, <1>8 DEF ShortCut
<1>5. BufferTypeOK'
  BY Zenon, <1>8, <1>9 DEF ShortCut, BufInv, BufferTypeOK, ByteSeq
<1>10. EndsWith(recent, rbuf, roff)'
  <2>1. EndsWith(recent, wbuf, 0)  BY Kinds DEF EndsWith, ByteSeq
  <2> QED  BY Zenon, <2>1 DEF ShortCut
<1> QED  BY Zenon, <1>1, <1>4, <1>5, <1>10 DEF ShortCut, BufInv

\* alloc takes a blob of the free list or makes a row.
LEMMA Allocated ==
  ASSUME BufInv, alloc
  PROVE  /\ freelist' \in Seq(Nat) /\ rows' \in Nat /\ Len(freelist') \in Nat
         /\ rows' - Len(freelist') = rows - Len(freelist) + 1
<1>1. freelist \in Seq(Nat) /\ rows \in Nat /\ Len(freelist) \in Nat
  BY Zenon, Kinds
<1>2. CASE freelist # <<>>
  <2>1. freelist' = SubSeq(freelist, 1, Len(freelist) - 1) /\ rows' = rows
    BY Zenon, <1>2 DEF alloc
  <2>2. freelist' \in Seq(Nat) /\ Len(freelist') = Len(freelist) - 1
    <3> DEFINE k == Len(freelist)
    <3>1. k # 0  BY Zenon, <1>1, <1>2, Nonempty
    <3>2. 1 \in 1 .. k + 1 /\ k - 1 \in 0 .. k /\ 1 <= (k - 1) + 1  BY <1>1, <3>1
    <3>3. SubSeq(freelist, 1, k - 1) \in Seq(Nat) /\ Len(SubSeq(freelist, 1, k - 1)) = (k - 1) - 1 + 1
      <4> HIDE DEF k
      <4>1. k \in Nat /\ k # 0 /\ \A g \in 1 .. k : freelist[g] \in Nat  BY <1>1, <3>1 DEF k
      <4>2. \A g \in 1 .. k - 1 : freelist[g] \in Nat  BY <4>1
      <4>3. 1 \in Int /\ k - 1 \in Int  BY <4>1
      <4>4. /\ SubSeq(freelist, 1, k - 1) \in Seq(Nat)
            /\ Len(SubSeq(freelist, 1, k - 1)) = IF 1 <= k - 1 THEN (k - 1) - 1 + 1 ELSE 0
        BY <4>2, <4>3, Slice
      <4> QED  BY <4>1, <4>4
    <3>4. (k - 1) - 1 + 1 = k - 1  BY <1>1
    <3> QED  BY Zenon, <2>1, <3>3, <3>4
  <2>3. Len(freelist') \in Nat  BY <2>2
  <2>4. PICK x \in Nat, y \in Nat, z \in Nat : x = rows /\ y = Len(freelist) /\ z = Len(freelist')
    BY Zenon, <1>1, <2>3
  <2>5. x - z = x - y + 1  BY <2>2, <2>4
  <2> QED  BY Zenon, <2>1, <2>2, <2>3, <2>4, <2>5
<1>3. CASE freelist = <<>>
  <2>1. freelist' = freelist /\ rows' = rows + 1  BY Zenon, <1>3 DEF alloc
  <2> QED  BY <1>1, <2>1
<1> QED  BY Zenon, <1>2, <1>3

\* wbufEnsureSpace writes a page to a blob.
LEMMA FlushKept == ASSUME BufInv, Flush  PROVE BufInv'
<1> DEFINE e == <<>>
           xs == Append(pages, wbuf)
<1>1. todo # <<>> /\ ~failed /\ ~closed /\ AppendTo(e) /\ Len(wbuf) = PageSize /\ pages' = xs /\ alloc
  BY Zenon DEF Flush, Flushing, Full, BufInv
<1>2. e \in ByteSeq /\ Len(e) = 0  BY DEF ByteSeq
<1>6. InOrder(unread, rbuf, roff, xs, e)
  BY Zenon, <1>1, Kinds, FlushesInOrder DEF BufInv
<1>7. xs \in Seq(ByteSeq) /\ Len(xs) = Len(pages) + 1  BY Zenon, Kinds, Longer
<1> HIDE DEF e, xs
<1>8. PICK t \in ByteSeq : /\ wbuf' = e \o t /\ unread' = unread \o t
                         /\ todo' \in ByteSeq /\ wbuf' \in ByteSeq /\ unread' \in ByteSeq /\ Len(wbuf') <= PageSize
  <2>1. Len(e) <= PageSize  BY <1>2, Kinds
  <2> QED  BY Zenon, <1>1, <1>2, <2>1, Taken
<1>3. InOrder(unread \o t, rbuf, roff, xs, e \o t)
  BY Zenon, <1>2, <1>6, <1>7, Kinds, AppendsInOrder
<1>4. InOrder(unread, rbuf, roff, pages, wbuf)'
  BY Zenon, <1>1, <1>3, <1>8 DEF Flush
<1>9. /\ freelist' \in Seq(Nat) /\ rows' \in Nat /\ Len(freelist') \in Nat
      /\ rows' - Len(freelist') = rows - Len(freelist) + 1
  BY Zenon, <1>1, Allocated
<1>5. BufferTypeOK'
  BY Zenon, <1>1, <1>7, <1>8, <1>9 DEF Flush, BufInv, BufferTypeOK, ByteSeq
<1>10. rows' = Len(pages') + Len(freelist')
  <2>1. rows = Len(pages) + Len(freelist)  BY Zenon, <1>1 DEF BufInv
  <2>2. Len(pages') = Len(pages) + 1  BY Zenon, <1>1, <1>7
  <2>3. Len(pages) \in Nat /\ Len(freelist) \in Nat /\ rows \in Nat  BY Zenon, Kinds
  <2> QED  BY <1>9, <2>1, <2>2, <2>3
<1>11. rows' >= Len(pages') + Len(freelist')  BY <1>9, <1>10
<1>12. EndsWith(recent, rbuf, roff)'  BY Zenon, <1>1 DEF Flush, BufInv
<1> QED  BY Zenon, <1>1, <1>4, <1>5, <1>10, <1>11, <1>12 DEF Flush, BufInv

\* A flush that fails.
LEMMA FlushFailsKept == ASSUME BufInv, FlushFails  PROVE BufInv'
<1>1. failed' = TRUE /\ todo' = <<>> /\ pages' = pages  BY Zenon DEF FlushFails
<1>2. /\ freelist' \in Seq(Nat) /\ rows' \in Nat /\ Len(freelist') \in Nat
      /\ rows' - Len(freelist') >= rows - Len(freelist)
  <2>1. CASE alloc  BY <2>1, Allocated, Kinds
  <2>2. CASE UNCHANGED <<freelist, rows>>  BY <2>2, Kinds
  <2> QED  BY Zenon, <2>1, <2>2 DEF FlushFails
<1>3. <<>> \in Seq(Letters)  OBVIOUS
<1>4. BufferTypeOK'  BY Zenon, <1>1, <1>2, <1>3 DEF FlushFails, BufInv, BufferTypeOK
<1>5. rows >= Len(pages) + Len(freelist)  BY Zenon DEF BufInv
<1>6. rows' >= Len(pages') + Len(freelist')
  <2>1. Len(pages') = Len(pages)  BY Zenon, <1>1
  <2>2. Len(pages) \in Nat /\ Len(freelist) \in Nat /\ rows \in Nat  BY Zenon, Kinds
  <2> QED  BY Zenon, <1>2, <1>5, <2>1, <2>2, StillRoom
<1> QED  BY Zenon, <1>1, <1>4, <1>6 DEF BufInv

\* CopyFrom reads from the front of the queue.
LEMMA Copied ==
  ASSUME BufInv, NEW b \in ByteSeq, NEW o \in 0 .. Len(b), NEW ps \in Seq(ByteSeq), NEW w \in ByteSeq,
         NEW k \in 0 .. PageSize, Len(b) <= PageSize,
         InOrder(unread, b, o, ps, w), EndsWith(recent, b, o), CopyFrom(b, o, k)
  PROVE  /\ rbuf' = b /\ roff' \in 0 .. Len(b)
         /\ unread' \in ByteSeq /\ recent' \in ByteSeq
         /\ InOrder(unread', b, roff', ps, w) /\ EndsWith(recent', b, roff')
<1> DEFINE N == Len(unread)
           c == Min({k, Len(b) - o})
           t == SubSeq(unread, 1, c)
<1>1. Len(b) \in Nat /\ N \in Nat /\ PageSize \in Nat /\ unread \in ByteSeq /\ recent \in ByteSeq
  BY Kinds DEF ByteSeq
<1>2. c = IF k <= Len(b) - o THEN k ELSE Len(b) - o  BY <1>1, MinOfTwo
<1> HIDE DEF c
<1>3. c \in 0 .. Len(b) - o /\ o + c \in 0 .. Len(b) /\ c \in Nat  BY <1>1, <1>2
<1>4. /\ c <= N /\ \A j \in 1 .. c : unread[j] = b[o + j]
      /\ InOrder(SubSeq(unread, c + 1, N), b, o + c, ps, w)
  BY Zenon, <1>1, <1>3, ReadsInOrder
<1>5. Min({c, N}) = c  BY <1>1, <1>3, <1>4, MinOfTwo
<1>6. t \in ByteSeq /\ Len(t) = c /\ \A j \in 1 .. c : t[j] = unread[j]
  <2>1. 1 \in 1 .. N + 1 /\ c \in 0 .. N /\ 1 <= c + 1  BY <1>1, <1>3, <1>4
  <2>2. t \in ByteSeq /\ Len(t) = c - 1 + 1 /\ \A j \in 1 .. c - 1 + 1 : t[j] = unread[1 + j - 1]
    BY Zenon, <1>1, <2>1, Sliced
  <2>3. c - 1 + 1 = c /\ \A j \in 1 .. c : 1 + j - 1 = j  BY <1>3
  <2> HIDE DEF t
  <2> QED  BY Zenon, <2>2, <2>3
<1>7. SubSeq(unread, c + 1, N) \in ByteSeq
  <2>1. c + 1 \in 1 .. N + 1 /\ N \in 0 .. N /\ c + 1 <= N + 1  BY <1>1, <1>3, <1>4
  <2> QED  BY Zenon, <1>1, <2>1, Sliced
<1>8. rbuf' = b /\ roff' = o + c /\ recent' = LastBytes(recent \o t) /\ unread' = SubSeq(unread, c + 1, N)
  BY Zenon, <1>5 DEF CopyFrom, c
<1> HIDE DEF t
<1>9. LastBytes(recent \o t) \in ByteSeq /\ EndsWith(LastBytes(recent \o t), b, o + Len(t))
  <2>1. o \in Nat /\ o + Len(t) <= PageSize  BY <1>1, <1>3, <1>6
  <2>2. \A j \in 1 .. Len(t) : t[j] = b[o + j]  BY Zenon, <1>4, <1>6
  <2> QED  BY Zenon, <1>1, <1>6, <2>1, <2>2, RecentGrows
<1> QED  BY Zenon, <1>3, <1>4, <1>6, <1>7, <1>8, <1>9

\* Read finds bytes in the read buffer.
LEMMA ReadFromBufferKept ==
  ASSUME BufInv, NEW k \in 0 .. PageSize, ReadFromBuffer(k)  PROVE BufInv'
<1>1. ~failed /\ ~closed /\ CopyFrom(rbuf, roff, k)
  BY Zenon DEF ReadFromBuffer, Ready
<1>2. /\ rbuf' = rbuf /\ roff' \in 0 .. Len(rbuf) /\ unread' \in ByteSeq /\ recent' \in ByteSeq
      /\ InOrder(unread', rbuf, roff', pages, wbuf) /\ EndsWith(recent', rbuf, roff')
  BY Zenon, <1>1, Kinds, Copied DEF BufInv
<1>3. BufferTypeOK'
  BY Zenon, <1>2 DEF ReadFromBuffer, BufInv, BufferTypeOK, ByteSeq
<1> QED  BY Zenon, <1>1, <1>2, <1>3 DEF ReadFromBuffer, BufInv

\* A new read buffer has nothing before roff.
LEMMA NothingRead == ASSUME NEW s \in ByteSeq, NEW b  PROVE EndsWith(s, b, 0)
BY DEF EndsWith, ByteSeq

\* rbufFill reads a page back.
LEMMA ReadPageKept ==
  ASSUME BufInv, NEW k \in 0 .. PageSize, ReadPage(k)  PROVE BufInv'
<1> DEFINE h == Head(pages)
           xs == Tail(pages)
<1>1. /\ ~failed /\ ~closed /\ pages # <<>> /\ roff = Len(rbuf) /\ CopyFrom(h, 0, k)
      /\ pages' = xs /\ freelist' = Append(freelist, Len(h))
  BY Zenon DEF ReadPage, Ready, ReadDone
<1>2. h \in ByteSeq /\ xs \in Seq(ByteSeq) /\ Len(xs) = Len(pages) - 1
  BY Zenon, <1>1, Kinds, Shorter
<1>3. InOrder(unread, h, 0, xs, wbuf) /\ Len(h) = PageSize
  BY Zenon, <1>1, Kinds, FillsInOrder DEF BufInv
<1> HIDE DEF h, xs
<1>4. 0 \in 0 .. Len(h) /\ Len(h) <= PageSize /\ Len(h) \in Nat  BY <1>3, Kinds
<1>5. EndsWith(recent, h, 0)  BY Zenon, Kinds, NothingRead
<1>6. /\ rbuf' = h /\ roff' \in 0 .. Len(h) /\ unread' \in ByteSeq /\ recent' \in ByteSeq
      /\ InOrder(unread', h, roff', xs, wbuf) /\ EndsWith(recent', h, roff')
  BY Zenon, <1>1, <1>2, <1>3, <1>4, <1>5, Kinds, Copied
<1>7. freelist' \in Seq(Nat) /\ Len(freelist') = Len(freelist) + 1
  BY Zenon, <1>1, <1>4, Kinds, Longer
<1>8. BufferTypeOK'
  BY Zenon, <1>1, <1>2, <1>4, <1>6, <1>7 DEF ReadPage, BufInv, BufferTypeOK, ByteSeq
<1>9. rows' = Len(pages') + Len(freelist') /\ rows' >= Len(pages') + Len(freelist')
  <2>1. rows' = rows /\ rows = Len(pages) + Len(freelist)
    BY Zenon, <1>1 DEF BufInv, ReadPage
  <2>2. Len(pages') = Len(pages) - 1  BY Zenon, <1>1, <1>2
  <2>3. Len(pages) \in Nat /\ Len(freelist) \in Nat  BY Zenon, Kinds
  <2>4. rows' = Len(pages') + Len(freelist')  BY <1>7, <2>1, <2>2, <2>3
  <2> QED  BY <2>1, <2>3, <2>4
<1> QED  BY Zenon, <1>1, <1>6, <1>8, <1>9 DEF ReadPage, BufInv

\* rbufFill fails.
LEMMA ReadPageFailsKept == ASSUME BufInv, ReadPageFails  PROVE BufInv'
<1>1. pages # <<>> /\ pages' = Tail(pages) /\ failed' = TRUE /\ roff' = 0 /\ todo' = <<>>
  BY Zenon DEF ReadPageFails, Ready
<1>2. Tail(pages) \in Seq(ByteSeq) /\ Len(Tail(pages)) = Len(pages) - 1
  BY Zenon, <1>1, Kinds, Shorter
<1>3. 0 \in 0 .. Len(rbuf)  BY Kinds
<1>4. BufferTypeOK'
  BY Zenon, <1>1, <1>2, <1>3 DEF ReadPageFails, BufInv, BufferTypeOK, ByteSeq
<1>5. rows' >= Len(pages') + Len(freelist')
  <2>1. rows' = rows /\ freelist' = freelist /\ rows >= Len(pages) + Len(freelist)
    BY Zenon DEF BufInv, ReadPageFails
  <2>2. Len(pages') = Len(pages) - 1  BY Zenon, <1>1, <1>2
  <2>3. Len(pages) \in Nat /\ Len(freelist) \in Nat /\ rows \in Nat  BY Zenon, Kinds
  <2> QED  BY <2>1, <2>2, <2>3
<1> QED  BY Zenon, <1>1, <1>4, <1>5 DEF ReadPageFails, BufInv

\* rbufFill takes the write buffer.
LEMMA ReadWbufKept ==
  ASSUME BufInv, NEW k \in 0 .. PageSize, ReadWbuf(k)  PROVE BufInv'
<1> DEFINE e == <<>>
<1>1. /\ ~failed /\ ~closed /\ pages = e /\ roff = Len(rbuf) /\ CopyFrom(wbuf, 0, k)
      /\ pages' = e /\ wbuf' = e /\ freelist' = freelist /\ rows' = rows
  BY Zenon DEF ReadWbuf, Ready, ReadDone
<1>2. e \in ByteSeq /\ e \in Seq(ByteSeq) /\ Len(e) = 0 /\ Len(e) <= PageSize
  BY Kinds DEF ByteSeq
<1>3. InOrder(unread, wbuf, 0, e, e)  BY Zenon, <1>1, Kinds, SwapsInOrder DEF BufInv
<1> HIDE DEF e
<1>4. 0 \in 0 .. Len(wbuf) /\ Len(wbuf) <= PageSize  BY Kinds
<1>5. EndsWith(recent, wbuf, 0)  BY Zenon, Kinds, NothingRead
<1>6. /\ rbuf' = wbuf /\ roff' \in 0 .. Len(wbuf) /\ unread' \in ByteSeq /\ recent' \in ByteSeq
      /\ InOrder(unread', wbuf, roff', e, e) /\ EndsWith(recent', wbuf, roff')
  BY Zenon, <1>1, <1>2, <1>3, <1>4, <1>5, Kinds, Copied
<1>8. BufferTypeOK'
  BY Zenon, <1>1, <1>2, <1>4, <1>6 DEF ReadWbuf, BufInv, BufferTypeOK, ByteSeq
<1> QED  BY Zenon, <1>1, <1>6, <1>8 DEF ReadWbuf, BufInv

\* UnreadByte.
LEMMA UnreadByteKept == ASSUME BufInv, UnreadByte  PROVE BufInv'
<1> DEFINE y == recent[Len(recent)]
           s == SubSeq(recent, 1, Len(recent) - 1)
<1>1. ~failed /\ ~closed /\ roff > 0 /\ roff' = roff - 1
  BY Zenon DEF UnreadByte, Ready
<1>2. roff \in 1 .. Len(rbuf) /\ roff - 1 \in 0 .. Len(rbuf)  BY <1>1, Kinds
<1>3. recent # <<>> /\ y = rbuf[roff] /\ s \in ByteSeq /\ EndsWith(s, rbuf, roff - 1)
  BY Zenon, <1>1, <1>2, Kinds, RecentShrinks DEF BufInv
<1>4. unread' = <<y>> \o unread /\ recent' = s  BY Zenon, <1>3 DEF UnreadByte
<1> HIDE DEF y, s
<1>5. y \in Letters  BY <1>2, <1>3, Kinds DEF ByteSeq
<1>6. InOrder(<<y>> \o unread, rbuf, roff - 1, pages, wbuf)
  BY Zenon, <1>1, <1>2, <1>3, <1>5, Kinds, UnreadInOrder DEF BufInv
<1>7. <<y>> \o unread \in ByteSeq
  <2>1. <<y>> \in ByteSeq  BY <1>5 DEF ByteSeq
  <2> QED  BY Zenon, <2>1, Kinds, Joined
<1>8. BufferTypeOK'
  BY Zenon, <1>1, <1>2, <1>3, <1>4, <1>7 DEF UnreadByte, BufInv, BufferTypeOK, ByteSeq
<1> QED  BY Zenon, <1>1, <1>3, <1>4, <1>6, <1>8 DEF UnreadByte, BufInv

\* Reset hands the blobs to the free list.
LEMMA ResetKept == ASSUME BufInv, Reset  PROVE BufInv'
<1> DEFINE e == <<>>
           f == [k \in DOMAIN pages |-> Len(pages[k])]
<1>1. /\ ~closed /\ closed' = closed /\ failed' = failed /\ todo' = todo /\ rows' = rows
      /\ rbuf' = e /\ wbuf' = e /\ roff' = 0 /\ pages' = e /\ unread' = e /\ recent' = e
      /\ freelist' = freelist \o f
  BY Zenon DEF Reset, Ready
<1>2. e \in ByteSeq /\ e \in Seq(ByteSeq) /\ Len(e) = 0 /\ Len(e) <= PageSize /\ 0 \in 0 .. Len(e)
  BY Kinds DEF ByteSeq
<1>3. EndsWith(e, e, 0) /\ InOrder(e, e, 0, e, e)
  <2>1. PageSize * 0 = 0  BY Kinds
  <2> QED  BY <1>2, <2>1 DEF EndsWith, InOrder
<1>4. f \in Seq(Nat) /\ Len(f) = Len(pages)
  <2>1. pages \in Seq(ByteSeq) /\ Len(pages) \in Nat /\ DOMAIN pages = 1 .. Len(pages)
    BY Kinds
  <2>2. \A j \in 1 .. Len(pages) : Len(pages[j]) \in Nat  BY <2>1 DEF ByteSeq
  <2>3. f \in [1 .. Len(pages) -> Nat]  BY Zenon, <2>1, <2>2
  <2> HIDE DEF f
  <2> QED  BY <2>1, <2>3
<1> HIDE DEF e, f
<1>5. freelist' \in Seq(Nat) /\ Len(freelist') = Len(freelist) + Len(pages)
  <2>1. f \in Seq(Nat) /\ freelist \in Seq(Nat)  BY Zenon, <1>4, Kinds
  <2>2. freelist \o f \in Seq(Nat) /\ Len(freelist \o f) = Len(freelist) + Len(f)
    BY Zenon, <2>1, Concatenated
  <2> QED  BY Zenon, <1>1, <1>4, <2>2
<1>6. Len(pages') + Len(freelist') = Len(pages) + Len(freelist)
  <2>1. Len(pages) \in Nat /\ Len(freelist) \in Nat /\ Len(pages') = 0
    BY Zenon, <1>1, <1>2, Kinds
  <2> QED  BY <1>5, <2>1
<1>7. BufferTypeOK'
  BY Zenon, <1>1, <1>2, <1>5 DEF Reset, BufInv, BufferTypeOK, ByteSeq
<1>8. rows' >= Len(pages') + Len(freelist') /\ (~failed' => rows' = Len(pages') + Len(freelist'))
  BY Zenon, <1>1, <1>6 DEF BufInv
<1> QED  BY Zenon, <1>1, <1>3, <1>7, <1>8 DEF BufInv

\* Close, with any number of failing DELETEs.
LEMMA BufferCloseKept == ASSUME BufInv, BufferClose  PROVE BufInv'
<1> DEFINE e == <<>>
<1>1. PICK d \in 0 .. Len(pages) + Len(freelist) :
        rows' = rows - Len(pages) - Len(freelist) + d /\ failed' = (failed \/ d > 0)
  BY Zenon DEF BufferClose
<1>2. pages' = e /\ freelist' = e /\ closed' = TRUE /\ todo' = e /\ todo = e
  BY Zenon DEF BufferClose, Ready
<1>3. e \in ByteSeq /\ e \in Seq(ByteSeq) /\ e \in Seq(Nat) /\ Len(e) = 0  BY DEF ByteSeq
<1> HIDE DEF e
<1>4. Len(pages) \in Nat /\ Len(freelist) \in Nat /\ rows \in Nat /\ rows >= Len(pages) + Len(freelist)
  BY Zenon, Kinds DEF BufInv
<1>5. rows' \in Nat /\ rows' >= 0 + 0  BY <1>1, <1>4
<1>6. ~failed' => ~failed /\ rows' = 0 + 0
  <2> SUFFICES ASSUME ~failed'  PROVE ~failed /\ rows' = 0
    OBVIOUS
  <2>1. ~failed /\ ~(d > 0)  BY Zenon, <1>1
  <2>2. rows = Len(pages) + Len(freelist) /\ d = 0  BY <1>4, <2>1 DEF BufInv
  <2> QED  BY <1>1, <1>4, <2>1, <2>2
<1>7. failed' \in BOOLEAN  BY Zenon, <1>1
<1>8. BufferTypeOK'
  BY Zenon, <1>2, <1>3, <1>5, <1>7 DEF BufferClose, BufInv, BufferTypeOK, ByteSeq
<1>9. rows' >= Len(pages') + Len(freelist') /\ (~failed' => rows' = Len(pages') + Len(freelist'))
  BY Zenon, <1>2, <1>3, <1>5, <1>6
<1>10. todo' = <<>>  BY Zenon, <1>2 DEF e
<1> QED  BY Zenon, <1>2, <1>6, <1>8, <1>9, <1>10 DEF BufferClose, BufInv

\* Every state of a Buffer satisfies the invariant, for every page size and
\* every length of the slices that are written and read.
THEOREM BufferInvariant == BufferSpec => []BufInv
<1>1. ASSUME BufInv, [BufferNext]_buffervars  PROVE BufInv'
  <2>1. CASE UNCHANGED buffervars
    BY Zenon, <1>1, <2>1 DEF buffervars, BufInv, BufferTypeOK
  <2>2. CASE BufferNext
    BY Zenon, <1>1, <2>2, WriteCallKept, WriteToBufferKept, ShortCutKept, FlushKept,
       FlushFailsKept,
       ReadFromBufferKept, ReadPageKept, ReadPageFailsKept, ReadWbufKept, UnreadByteKept, ResetKept,
       BufferCloseKept DEF BufferNext
  <2> QED  BY Zenon, <1>1, <2>1, <2>2
<1> QED  BY <1>1, BufferStarts, PTL DEF BufferSpec

\* A Buffer is a queue of bytes for every page size: bytes come out in the
\* order in which they went in, UnreadByte takes back the last that was read,
\* and as long as no operation has failed every row of the temporary table is
\* in one of the lists Close goes through (buffer.go:100-335).
THEOREM BufferIsAQueue == BufferSpec => []LikeAQueue
<1>1. ASSUME BufInv  PROVE LikeAQueue
  <2>1. ASSUME ~failed, ~closed  PROVE InOrder(unread, rbuf, roff, pages, wbuf) /\ BufferLen = Len(unread)
    <3>1. InOrder(unread, rbuf, roff, pages, wbuf)  BY Zenon, <1>1, <2>1 DEF BufInv
    <3>2. Len(unread) = BufferLen  BY Zenon, <3>1 DEF InOrder, BufferLen
    <3> QED  BY Zenon, <3>1, <3>2
  <2> QED
    BY Zenon, <1>1, <2>1 DEF BufInv, LikeAQueue, Fifo, UnreadsWhatWasRead, NoRowForgotten
<1> QED  BY <1>1, BufferInvariant, PTL

\* The buffers never outgrow a page: "never grows wbuf" (buffer.go:174).
THEOREM BufferTypes == BufferSpec => []BufferTypeOK
<1>1. BufInv => BufferTypeOK  BY Zenon DEF BufInv
<1> QED  BY <1>1, BufferInvariant, PTL
-----------------------------------------------------------------------------
(***************************************************************************)
(* Blob.                                                                   *)
(***************************************************************************)

\* The values of the variables.
BlobContents == [1 .. BlobSize -> BlobBytes]
BlobOps == {"Open", "Read", "WriteTo", "Write", "ReadFrom", "Seek", "Close"}
BlobErrs == {"none", "EOF", "failed", "interrupt", "invalid"}
BlobCalls == [op : BlobOps, pc : {"loop", "ret"}, p : Seq(BlobBytes), n : Int,
              out : Seq(BlobBytes), pre : BlobContents, at : 0 .. BlobSize,
              full : Seq(BlobBytes), err : BlobErrs]

\* The calls that read, and the calls that write.
Reads == {"Read", "WriteTo"}
Writes == {"Write", "ReadFrom"}

\* What a call that reads has done: out is the slice from where it began, and
\* the rest of p still fits.
Reading(op, pc, p, k, out, pre, at, full, err, now, off) ==
    /\ now = pre /\ k \in Nat /\ off = at + k
    /\ out = SubSeq(pre, at + 1, at + k)
    /\ (pc = "loop" /\ op = "Read") => k + Len(p) = Min({Len(full), BlobSize - at})
    /\ (pc = "loop" /\ op = "WriteTo") => off + Len(p) = BlobSize
    /\ (pc = "ret" /\ err = "none" /\ op = "Read") => k = Min({Len(full), BlobSize - at})
    /\ (pc = "ret" /\ err = "none" /\ op = "WriteTo") => off = BlobSize

ReadSoFar(c, now, off) ==
    Reading(c.op, c.pc, c.p, c.n, c.out, c.pre, c.at, c.full, c.err, now, off)

\* now is pre with the first k bytes of full from at on.
Written(now, pre, full, at, k) ==
    \A i \in 1 .. BlobSize : now[i] = IF i \in at + 1 .. at + k THEN full[i - at] ELSE pre[i]

\* What a call that writes has done: the first k bytes are in the blob and the
\* others are left.
Writing(pc, p, k, pre, at, full, err, now, off) ==
    /\ k \in 0 .. Len(full) /\ off = at + k
    /\ p = SubSeq(full, k + 1, Len(full))
    /\ Written(now, pre, full, at, k)
    /\ (pc = "ret" /\ err = "none") => k = Len(full)

WroteSoFar(c, now, off) == Writing(c.pc, c.p, c.n, c.pre, c.at, c.full, c.err, now, off)

\* What is true of a call, while it loops and when it has returned.
CallInv(c, now, off) ==
    /\ c \in BlobCalls /\ now \in BlobContents /\ off \in 0 .. BlobSize
    /\ c.op \in Reads => ReadSoFar(c, now, off)
    /\ c.op \in Writes => WroteSoFar(c, now, off)
    /\ c.op \notin Reads \cup Writes => c.pc = "ret" /\ now = c.pre

\* The inductive invariant: a handle has its buffer while it is open, and its
\* last call has done what it says.
BlobInv == /\ bbuf = (bstate = "open") /\ bstate \in {"none", "open", "closed"}
           /\ CallInv(bcall, content, boff)

\* A new blob is as long as it was made.
LEMMA Blanks == ASSUME NEW k \in Nat
                PROVE  /\ Blank(k) \in [1 .. k -> BlobBytes]
                       /\ Blank(k) \in Seq(BlobBytes) /\ Len(Blank(k)) = k
  <1>1. (CHOOSE b \in BlobBytes : TRUE) \in BlobBytes  BY Zenon, BlobAssumption
  <1>2. Blank(k) \in [1 .. k -> BlobBytes]  BY Zenon, <1>1 DEF Blank
  <1> QED  BY <1>2

\* An empty slice.
LEMMA NoSlice == ASSUME NEW s \in BlobContents, NEW a \in 0 .. BlobSize
                 PROVE  SubSeq(s, a + 1, a) = <<>>
  BY BlobAssumption DEF BlobContents

\* The record of a call has its type.
LEMMA ACall ==
  ASSUME NEW op \in BlobOps, NEW pc \in {"loop", "ret"}, NEW p \in Seq(BlobBytes), NEW k \in Int,
         NEW out \in Seq(BlobBytes), NEW pre \in BlobContents, NEW at \in 0 .. BlobSize,
         NEW full \in Seq(BlobBytes), NEW err \in BlobErrs
  PROVE  [op |-> op, pc |-> pc, p |-> p, n |-> k, out |-> out, pre |-> pre, at |-> at,
          full |-> full, err |-> err] \in BlobCalls
  BY Zenon DEF BlobCalls

\* The rest of the rest of a slice.
LEMMA Rest ==
  ASSUME NEW S, NEW s \in Seq(S), NEW a \in 0 .. Len(s), NEW b \in 0 .. Len(s) - a
  PROVE  /\ SubSeq(s, a + 1, Len(s)) \in Seq(S) /\ Len(SubSeq(s, a + 1, Len(s))) = Len(s) - a
         /\ \A i \in 1 .. Len(s) - a : SubSeq(s, a + 1, Len(s))[i] = s[a + i]
         /\ SubSeq(SubSeq(s, a + 1, Len(s)), b + 1, Len(s) - a) = SubSeq(s, a + b + 1, Len(s))
  <1> DEFINE t == SubSeq(s, a + 1, Len(s))
             u == SubSeq(t, b + 1, Len(s) - a)
             v == SubSeq(s, a + b + 1, Len(s))
  <1>0. \A i \in 1 .. Len(s) : s[i] \in S  OBVIOUS
  <1>1. /\ t \in Seq(S) /\ Len(t) = Len(s) - a
        /\ \A i \in 1 .. Len(s) - a : t[i] = s[a + i]
    <2>1. \A i \in a + 1 .. Len(s) : s[i] \in S  BY <1>0
    <2>2. /\ t \in Seq(S) /\ Len(t) = IF a + 1 <= Len(s) THEN Len(s) - (a + 1) + 1 ELSE 0
          /\ \A i \in 1 .. Len(s) - (a + 1) + 1 : t[i] = s[a + 1 + i - 1]
      BY <2>1, Slice
    <2> QED  BY <2>2
  <1>2. /\ v \in Seq(S) /\ Len(v) = Len(s) - a - b
        /\ \A i \in 1 .. Len(s) - a - b : v[i] = s[a + b + i]
    <2>1. \A i \in a + b + 1 .. Len(s) : s[i] \in S  BY <1>0
    <2>2. /\ v \in Seq(S) /\ Len(v) = IF a + b + 1 <= Len(s) THEN Len(s) - (a + b + 1) + 1 ELSE 0
          /\ \A i \in 1 .. Len(s) - (a + b + 1) + 1 : v[i] = s[a + b + 1 + i - 1]
      BY <2>1, Slice
    <2> QED  BY <2>2
  <1> HIDE DEF t, v
  <1>3. /\ u \in Seq(S) /\ Len(u) = Len(s) - a - b
        /\ \A i \in 1 .. Len(s) - a - b : u[i] = t[b + i]
    <2>1. \A i \in b + 1 .. Len(s) - a : t[i] \in S  BY <1>1
    <2>2. /\ u \in Seq(S) /\ Len(u) = IF b + 1 <= Len(s) - a THEN Len(s) - a - (b + 1) + 1 ELSE 0
          /\ \A i \in 1 .. Len(s) - a - (b + 1) + 1 : u[i] = t[b + 1 + i - 1]
      BY <2>1, Slice
    <2> QED  BY <2>2
  <1> HIDE DEF u
  <1>4. ASSUME NEW i \in 1 .. Len(u)  PROVE u[i] = v[i]
    <2>1. i \in 1 .. Len(s) - a - b /\ b + i \in 1 .. Len(s) - a  BY <1>3
    <2>2. u[i] = t[b + i] /\ t[b + i] = s[a + (b + i)] /\ v[i] = s[a + b + i]
      BY Zenon, <1>1, <1>2, <1>3, <2>1
    <2>3. a + (b + i) = a + b + i  BY <2>1
    <2> QED  BY Zenon, <2>2, <2>3
  <1>5. u = v  BY Zenon, <1>2, <1>3, <1>4, SameElements
  <1> QED  BY Zenon, <1>1, <1>5 DEF t, u, v

\* A chunk of Read or WriteTo goes on where the call is.
LEMMA ReadsOn ==
  ASSUME NEW op \in Reads, NEW p \in Seq(BlobBytes), NEW m, NEW out, NEW pre \in BlobContents,
         NEW at \in 0 .. BlobSize, NEW full \in Seq(BlobBytes), NEW err, NEW now,
         NEW off \in 0 .. BlobSize, Reading(op, "loop", p, m, out, pre, at, full, err, now, off),
         NEW k \in 0 .. Len(p)
  PROVE  LET q == SubSeq(p, k + 1, Len(p))
             o == out \o SubSeq(now, off + 1, off + k)
         IN  /\ q \in Seq(BlobBytes) /\ o \in Seq(BlobBytes)
             /\ off + k \in 0 .. BlobSize /\ m + k \in Int
             /\ Reading(op, "loop", q, m + k, o, pre, at, full, err, now, off + k)
  <1> USE BlobAssumption
  <1> DEFINE q == SubSeq(p, k + 1, Len(p))
             o == out \o SubSeq(now, off + 1, off + k)
             L == Len(p)
             F == Len(full)
             M == Min({F, BlobSize - at})
  <1>1. /\ now = pre /\ m \in Nat /\ off = at + m /\ out = SubSeq(pre, at + 1, at + m)
        /\ op = "Read" => m + L = M
        /\ op = "WriteTo" => off + L = BlobSize
    BY Zenon DEF Reading
  <1>2. L \in Nat /\ F \in Nat /\ k \in 0 .. L  OBVIOUS
  <1>3. q \in Seq(BlobBytes) /\ Len(q) = L - k
    <2>1. 0 \in 0 .. L - k  BY <1>2
    <2> QED  BY Zenon, <2>1, Rest
  <1> HIDE DEF q, L, F
  <1>4. M <= BlobSize - at  BY <1>2, MinOfTwo
  <1> HIDE DEF M
  <1>5. off + L <= BlobSize
    <2>1. op = "Read" \/ op = "WriteTo"  BY Zenon DEF Reads
    <2>2. CASE op = "Read"
      <3>1. m + L <= BlobSize - at  BY Zenon, <1>1, <1>4, <2>2
      <3> QED  BY <1>1, <1>2, <3>1
    <2>3. CASE op = "WriteTo"  BY <1>1, <2>3
    <2> QED  BY Zenon, <2>1, <2>2, <2>3
  <1>6. /\ at + 1 \in 1 .. BlobSize + 1 /\ off \in (at + 1) - 1 .. BlobSize
        /\ off + k \in off .. BlobSize /\ off + k \in 0 .. BlobSize /\ m + k \in Nat
        /\ off + k = at + (m + k)
    BY <1>1, <1>2, <1>5
  <1>7. o \in Seq(BlobBytes) /\ o = SubSeq(pre, at + 1, off + k)
    <2>1. pre \in Seq(BlobBytes) /\ Len(pre) = BlobSize  BY DEF BlobContents
    <2>2. o = SubSeq(pre, at + 1, off + k)
      <3>1. SubSeq(pre, at + 1, off) \o SubSeq(pre, off + 1, off + k) = SubSeq(pre, at + 1, off + k)
        BY Zenon, <1>6, <2>1, Adjacent
      <3> QED  BY Zenon, <1>1, <3>1
    <2>3. \A i \in at + 1 .. off + k : pre[i] \in BlobBytes
      <3> TAKE i \in at + 1 .. off + k
      <3>1. i \in 1 .. BlobSize  BY <1>6
      <3> QED  BY Zenon, <3>1 DEF BlobContents
    <2>4. SubSeq(pre, at + 1, off + k) \in Seq(BlobBytes)
      <3>1. at + 1 \in Int /\ off + k \in Int  BY <1>6
      <3> QED  BY Zenon, <2>3, <3>1, Slice
    <2> QED  BY Zenon, <2>2, <2>4
  <1> HIDE DEF o
  <1>8. /\ op = "Read" => m + k + Len(q) = M
        /\ op = "WriteTo" => off + k + Len(q) = BlobSize
    BY <1>1, <1>2, <1>3
  <1>9. Reading(op, "loop", q, m + k, o, pre, at, full, err, now, off + k)
    <2>1. o = SubSeq(pre, at + 1, at + (m + k))  BY Zenon, <1>6, <1>7
    <2> QED  BY Zenon, <1>1, <1>6, <1>8, <2>1 DEF Reading, M, F
  <1> QED  BY <1>3, <1>6, <1>7, <1>9 DEF q, o, L

\* What a chunk of a call that writes makes of the blob.
Patch(now, off, k, p) ==
    [i \in DOMAIN now |-> IF i \in off + 1 .. off + k THEN p[i - off] ELSE now[i]]

\* A chunk of Write, WriteString or ReadFrom goes on where the call is.
LEMMA WritesOn ==
  ASSUME NEW p \in Seq(BlobBytes), NEW m, NEW pre, NEW at \in 0 .. BlobSize,
         NEW full \in Seq(BlobBytes), NEW err, NEW now \in BlobContents,
         NEW off \in 0 .. BlobSize, Writing("loop", p, m, pre, at, full, err, now, off),
         NEW k \in 1 .. Len(p), off + k <= BlobSize
  PROVE  LET q == SubSeq(p, k + 1, Len(p))
             new == Patch(now, off, k, p)
         IN  /\ q \in Seq(BlobBytes) /\ new \in BlobContents
             /\ off + k \in 0 .. BlobSize /\ m + k \in Int
             /\ Writing("loop", q, m + k, pre, at, full, err, new, off + k)
  <1> USE BlobAssumption
  <1> DEFINE q == SubSeq(p, k + 1, Len(p))
             new == Patch(now, off, k, p)
             t == SubSeq(full, m + 1, Len(full))
             L == Len(p)
             F == Len(full)
  <1>1. m \in 0 .. F /\ off = at + m /\ p = t /\ Written(now, pre, full, at, m)
    BY Zenon DEF Writing
  <1>2. F \in Nat /\ L \in Nat /\ k \in 1 .. L  OBVIOUS
  <1>3. 0 \in 0 .. F - m  BY <1>1, <1>2
  <1>4. Len(t) = F - m /\ \A i \in 1 .. F - m : t[i] = full[m + i]
    BY Zenon, <1>1, <1>3, Rest
  <1>5. L = F - m /\ \A i \in 1 .. F - m : p[i] = full[m + i]  BY Zenon, <1>1, <1>4
  <1>6. /\ k \in 0 .. F - m /\ 0 \in 0 .. L - k
        /\ off + k \in 0 .. BlobSize /\ m + k \in Int /\ m + k \in 0 .. F /\ off + k = at + (m + k)
    <2> HIDE DEF L, F, t
    <2> QED  BY <1>1, <1>2, <1>5
  <1>7. q = SubSeq(full, m + k + 1, F) /\ q \in Seq(BlobBytes)
    <2>1. SubSeq(t, k + 1, F - m) = SubSeq(full, m + k + 1, F)  BY Zenon, <1>1, <1>6, Rest
    <2>2. q = SubSeq(t, k + 1, F - m)  BY Zenon, <1>1, <1>5
    <2>3. k \in 0 .. Len(p)  BY <1>2
    <2>4. q \in Seq(BlobBytes)  BY Zenon, <1>6, <2>3, Rest
    <2> QED  BY Zenon, <2>1, <2>2, <2>4
  <1>8. \A i \in 1 .. L : p[i] \in BlobBytes  OBVIOUS
  <1> HIDE DEF q, t, L, F
  <1>9. ASSUME NEW i \in 1 .. BlobSize
        PROVE  /\ new[i] \in BlobBytes
               /\ new[i] = IF i \in at + 1 .. at + (m + k) THEN full[i - at] ELSE pre[i]
    <2>1. now[i] \in BlobBytes /\ i \in DOMAIN now  BY Zenon DEF BlobContents
    <2>2. now[i] = IF i \in at + 1 .. at + m THEN full[i - at] ELSE pre[i]
      BY Zenon, <1>1 DEF Written
    <2>3. CASE i \in off + 1 .. off + k
      <3>1. new[i] = p[i - off]  BY Zenon, <2>1, <2>3 DEF Patch
      <3>2. i - off \in 1 .. F - m /\ i - off \in 1 .. L /\ m + (i - off) = i - at
            /\ i \in at + 1 .. at + (m + k)
        BY <1>1, <1>2, <1>5, <2>3
      <3>3. p[i - off] = full[m + (i - off)]  BY Zenon, <1>5, <3>2
      <3>4. p[i - off] \in BlobBytes  BY Zenon, <1>8, <3>2
      <3> HIDE DEF new
      <3> QED  BY Zenon, <3>1, <3>2, <3>3, <3>4
    <2>4. CASE i \notin off + 1 .. off + k
      <3>1. new[i] = now[i]  BY Zenon, <2>1, <2>4 DEF Patch
      <3>2. i \in at + 1 .. at + (m + k) <=> i \in at + 1 .. at + m
        BY <1>1, <1>2, <2>4
      <3> HIDE DEF new
      <3> QED  BY Zenon, <2>1, <2>2, <3>1, <3>2
    <2> QED  BY Zenon, <2>3, <2>4
  <1>10. new \in BlobContents
    <2>1. DOMAIN now = 1 .. BlobSize  BY Zenon DEF BlobContents
    <2>2. new = [i \in 1 .. BlobSize |-> new[i]]  BY Zenon, <2>1 DEF Patch
    <2> HIDE DEF new
    <2> QED  BY Zenon, <1>9, <2>2 DEF BlobContents
  <1> HIDE DEF new
  <1>11. Written(new, pre, full, at, m + k)  BY Zenon, <1>9 DEF Written
  <1>12. Writing("loop", q, m + k, pre, at, full, err, new, off + k)
    BY Zenon, <1>6, <1>7, <1>11 DEF Writing, F
  <1> QED  BY Zenon, <1>6, <1>7, <1>10, <1>12 DEF q, new, L

\* A call that reads returns, with all that it wants or with an error.
LEMMA ReadsEnd ==
  ASSUME NEW op, NEW p \in Seq(BlobBytes), NEW m, NEW out, NEW pre, NEW at \in 0 .. BlobSize,
         NEW full, NEW err, NEW now, NEW off \in 0 .. BlobSize,
         Reading(op, "loop", p, m, out, pre, at, full, err, now, off),
         NEW e, e = "none" => p = <<>>
  PROVE  Reading(op, "ret", p, m, out, pre, at, full, e, now, off)
  <1>1. e = "none" => Len(p) = 0  OBVIOUS
  <1> DEFINE M == Min({Len(full), BlobSize - at})
             L == Len(p)
  <1>2. /\ m \in Nat
        /\ op = "Read" => m + L = M
        /\ op = "WriteTo" => off + L = BlobSize
    BY Zenon DEF Reading
  <1> HIDE DEF M, L
  <1>3. (e = "none" /\ op = "Read") => m = M  BY <1>1, <1>2 DEF L
  <1>4. (e = "none" /\ op = "WriteTo") => off = BlobSize  BY <1>1, <1>2 DEF L
  <1> QED  BY Zenon, <1>3, <1>4 DEF Reading, M

\* A call that writes returns, having written everything or with an error.
LEMMA WritesEnd ==
  ASSUME NEW p \in Seq(BlobBytes), NEW m, NEW pre, NEW at, NEW full \in Seq(BlobBytes), NEW err,
         NEW now, NEW off, Writing("loop", p, m, pre, at, full, err, now, off),
         NEW e, e = "none" => p = <<>>
  PROVE  Writing("ret", p, m, pre, at, full, e, now, off)
  <1> DEFINE F == Len(full)
             t == SubSeq(full, m + 1, F)
  <1>1. m \in 0 .. F /\ p = t  BY Zenon DEF Writing
  <1>2. F \in Nat  OBVIOUS
  <1>3. 0 \in 0 .. F - m  BY <1>1, <1>2
  <1>4. Len(t) = F - m  BY Zenon, <1>1, <1>3, Rest
  <1>5. e = "none" => Len(p) = 0  OBVIOUS
  <1>6. e = "none" => F - m = 0  BY Zenon, <1>1, <1>4, <1>5
  <1> HIDE DEF F, t
  <1>7. e = "none" => m = F  BY <1>1, <1>2, <1>6
  <1> QED  BY Zenon, <1>7 DEF Writing, F

\* A call that reads starts with all that it wants in p.
LEMMA ReadsStart ==
  ASSUME NEW op, NEW p, NEW q \in Seq(BlobBytes), NEW now \in BlobContents, NEW off \in 0 .. BlobSize,
         op = "Read" => Len(q) = Min({Len(p), BlobSize - off}),
         op = "WriteTo" => off + Len(q) = BlobSize
  PROVE  Reading(op, "loop", q, 0, <<>>, now, off, p, "none", now, off)
  <1> USE BlobAssumption
  <1> DEFINE M == Min({Len(p), BlobSize - off})
             L == Len(q)
  <1>1. L \in Nat  OBVIOUS
  <1> HIDE DEF L, M
  <1>2. off = off + 0 /\ 0 \in Nat  OBVIOUS
  <1>3. <<>> = SubSeq(now, off + 1, off + 0)  BY Zenon, <1>2, NoSlice
  <1>4. op = "Read" => 0 + L = M  BY <1>1 DEF L, M
  <1> QED  BY Zenon, <1>2, <1>3, <1>4 DEF Reading, M, L

\* A call that reads and is refused, or finds nothing to copy, has read nothing.
LEMMA ReadsNothing ==
  ASSUME NEW op, NEW p, NEW now \in BlobContents, NEW off \in 0 .. BlobSize, NEW e,
         e # "none" \/ (op = "WriteTo" /\ off = BlobSize)
  PROVE  Reading(op, "ret", p, 0, <<>>, now, off, p, e, now, off)
  <1> USE BlobAssumption
  <1>1. off = off + 0 /\ 0 \in Nat  OBVIOUS
  <1>2. <<>> = SubSeq(now, off + 1, off + 0)  BY Zenon, <1>1, NoSlice
  <1> QED  BY Zenon, <1>1, <1>2 DEF Reading

\* A call that writes has written nothing yet.
LEMMA WritesStart ==
  ASSUME NEW pc, NEW p \in Seq(BlobBytes), NEW now, NEW off \in 0 .. BlobSize, NEW e,
         pc = "loop" \/ e # "none"
  PROVE  Writing(pc, p, 0, now, off, p, e, now, off)
  <1> USE BlobAssumption
  <1>1. off = off + 0 /\ 0 \in 0 .. Len(p) /\ 0 + 1 = 1  OBVIOUS
  <1>2. p = SubSeq(p, 0 + 1, Len(p))  BY Zenon, <1>1, Everything
  <1>3. \A i \in 1 .. BlobSize : i \notin off + 1 .. off + 0  OBVIOUS
  <1>4. Written(now, now, p, off, 0)  BY Zenon, <1>3 DEF Written
  <1> QED  BY Zenon, <1>1, <1>2, <1>4 DEF Writing

\* A call that starts, or is refused.
LEMMA Started ==
  ASSUME NEW op \in BlobOps, NEW p \in Seq(BlobBytes), NEW e \in BlobErrs, CallInv(bcall, content, boff)
  PROVE  /\ Call(op, p) \in BlobCalls /\ Refused(op, p, e) \in BlobCalls
         /\ (e # "none" \/ op \notin Reads \cup Writes \/ (op = "WriteTo" /\ boff = BlobSize)) => CallInv(Refused(op, p, e), content, boff)
  <1>1. content \in BlobContents /\ boff \in 0 .. BlobSize  BY Zenon DEF CallInv
  <1>2. <<>> \in Seq(BlobBytes) /\ 0 \in Int /\ "loop" \in {"loop", "ret"} /\ "none" \in BlobErrs
    BY DEF BlobErrs
  <1>3. Call(op, p) \in BlobCalls  BY Zenon, <1>1, <1>2, ACall DEF Call
  <1> DEFINE c == Refused(op, p, e)
  <1>4. /\ c.op = op /\ c.pc = "ret" /\ c.p = p /\ c.n = 0 /\ c.out = <<>>
        /\ c.pre = content /\ c.at = boff /\ c.full = p /\ c.err = e
    BY Zenon DEF Call, Refused
  <1>5. c \in BlobCalls  BY Zenon, <1>1, <1>2, <1>3 DEF Refused, BlobCalls
  <1> HIDE DEF c
  <1>6. ASSUME e # "none" \/ op \notin Reads \cup Writes \/ (op = "WriteTo" /\ boff = BlobSize)
        PROVE  CallInv(c, content, boff)
    <2>1. ASSUME op \in Reads  PROVE ReadSoFar(c, content, boff)
      <3>1. Reading(op, "ret", p, 0, <<>>, content, boff, p, e, content, boff)
        BY Zenon, <1>1, <1>6, <2>1, ReadsNothing
      <3> QED  BY Zenon, <1>4, <3>1 DEF ReadSoFar
    <2>2. ASSUME op \in Writes  PROVE WroteSoFar(c, content, boff)
      <3>1. e # "none"  BY Zenon, <1>6, <2>2 DEF Writes
      <3>2. Writing("ret", p, 0, content, boff, p, e, content, boff)
        BY Zenon, <1>1, <3>1, WritesStart
      <3> QED  BY Zenon, <1>4, <3>2 DEF WroteSoFar
    <2> QED  BY Zenon, <1>1, <1>4, <1>5, <2>1, <2>2 DEF CallInv
  <1> QED  BY Zenon, <1>3, <1>5, <1>6 DEF c

\* ReadChunk.
LEMMA ReadGoesOn ==
  ASSUME BlobInv, ReadChunk
  PROVE  CallInv(bcall', content', boff')
  <1> USE BlobAssumption
  <1> DEFINE c == bcall
             d == bcall'
  <1>1. /\ c \in BlobCalls /\ content \in BlobContents /\ boff \in 0 .. BlobSize
        /\ c.op \in Reads /\ c.pc = "loop" /\ content' = content
        /\ ReadSoFar(c, content, boff)
    BY Zenon DEF BlobInv, CallInv, ReadChunk, Reads
  <1>2. /\ c.p \in Seq(BlobBytes) /\ c.full \in Seq(BlobBytes) /\ c.at \in 0 .. BlobSize
        /\ c.pre \in BlobContents
    BY Zenon, <1>1 DEF BlobCalls
  <1>3. PICK k \in 0 .. ChunkLen : AdvanceBlob(k, SubSeq(content, boff + 1, boff + k))
    BY Zenon DEF ReadChunk
  <1>4. k \in 0 .. Len(c.p)
    <2> DEFINE L == Len(c.p)
    <2>1. L \in Nat  BY <1>2
    <2>2. ChunkLen = Min({BlobBuf, L})  BY Zenon DEF ChunkLen
    <2> HIDE DEF L
    <2>3. k \in 0 .. L  BY <2>1, <2>2, MinOfTwo
    <2> QED  BY Zenon, <2>3 DEF L
  <1> DEFINE q == SubSeq(c.p, k + 1, Len(c.p))
             o == c.out \o SubSeq(content, boff + 1, boff + k)
  <1>5. Reading(c.op, "loop", c.p, c.n, c.out, c.pre, c.at, c.full, c.err, content, boff)
    BY Zenon, <1>1 DEF ReadSoFar
  <1>6. /\ q \in Seq(BlobBytes) /\ o \in Seq(BlobBytes)
        /\ boff + k \in 0 .. BlobSize /\ c.n + k \in Int
        /\ Reading(c.op, "loop", q, c.n + k, o, c.pre, c.at, c.full, c.err, content, boff + k)
    BY Zenon, <1>1, <1>2, <1>4, <1>5, ReadsOn
  <1>7. d = [c EXCEPT !.p = q, !.n = c.n + k, !.out = o] /\ boff' = boff + k
    BY Zenon, <1>3 DEF AdvanceBlob
  <1> HIDE DEF q, o
  <1>8. /\ d.op = c.op /\ d.pc = c.pc /\ d.p = q /\ d.n = c.n + k /\ d.out = o
        /\ d.pre = c.pre /\ d.at = c.at /\ d.full = c.full /\ d.err = c.err
    BY Zenon, <1>1, <1>7 DEF BlobCalls
  <1>9. d \in BlobCalls  BY Zenon, <1>1, <1>6, <1>7 DEF BlobCalls
  <1> HIDE DEF c, d
  <1>10. ReadSoFar(d, content', boff')  BY Zenon, <1>1, <1>6, <1>7, <1>8 DEF ReadSoFar
  <1>11. d.op \in Reads /\ d.op \notin Writes
    BY Zenon, <1>1, <1>8 DEF Reads, Writes
  <1> QED  BY Zenon, <1>1, <1>6, <1>7, <1>9, <1>10, <1>11 DEF CallInv, d

\* WriteChunk.
LEMMA WriteGoesOn ==
  ASSUME BlobInv, WriteChunk
  PROVE  CallInv(bcall', content', boff')
  <1> USE BlobAssumption
  <1> DEFINE c == bcall
             d == bcall'
  <1>1. /\ c \in BlobCalls /\ content \in BlobContents /\ boff \in 0 .. BlobSize
        /\ c.op \in Writes /\ c.pc = "loop" /\ WroteSoFar(c, content, boff)
    BY Zenon DEF BlobInv, CallInv, WriteChunk, Writes
  <1>2. /\ c.p \in Seq(BlobBytes) /\ c.full \in Seq(BlobBytes) /\ c.at \in 0 .. BlobSize
        /\ c.out \in Seq(BlobBytes)
    BY Zenon, <1>1 DEF BlobCalls
  <1>3. PICK k \in 1 .. ChunkLen :
          /\ boff + k <= BlobSize
          /\ content' = Patch(content, boff, k, c.p)
          /\ AdvanceBlob(k, <<>>)
    BY Zenon DEF WriteChunk, Patch
  <1>4. k \in 1 .. Len(c.p)
    <2> DEFINE L == Len(c.p)
    <2>1. L \in Nat  BY <1>2
    <2>2. ChunkLen = Min({BlobBuf, L})  BY Zenon DEF ChunkLen
    <2> HIDE DEF L
    <2>3. k \in 1 .. L  BY <2>1, <2>2, MinOfTwo
    <2> QED  BY Zenon, <2>3 DEF L
  <1> DEFINE q == SubSeq(c.p, k + 1, Len(c.p))
             o == c.out \o <<>>
             new == Patch(content, boff, k, c.p)
  <1>5. Writing("loop", c.p, c.n, c.pre, c.at, c.full, c.err, content, boff)
    BY Zenon, <1>1 DEF WroteSoFar
  <1>6. /\ q \in Seq(BlobBytes) /\ new \in BlobContents
        /\ boff + k \in 0 .. BlobSize /\ c.n + k \in Int
        /\ Writing("loop", q, c.n + k, c.pre, c.at, c.full, c.err, new, boff + k)
    BY Zenon, <1>1, <1>2, <1>3, <1>4, <1>5, WritesOn
  <1>7. d = [c EXCEPT !.p = q, !.n = c.n + k, !.out = o] /\ boff' = boff + k /\ content' = new
    BY Zenon, <1>3 DEF AdvanceBlob
  <1>8. o \in Seq(BlobBytes)  BY Zenon, <1>2, NothingJoined
  <1> HIDE DEF q, o, new
  <1>9. /\ d.op = c.op /\ d.pc = c.pc /\ d.p = q /\ d.n = c.n + k
        /\ d.pre = c.pre /\ d.at = c.at /\ d.full = c.full /\ d.err = c.err
    BY Zenon, <1>1, <1>7 DEF BlobCalls
  <1>10. d \in BlobCalls  BY Zenon, <1>1, <1>6, <1>7, <1>8 DEF BlobCalls
  <1> HIDE DEF c, d
  <1>11. WroteSoFar(d, content', boff')  BY Zenon, <1>1, <1>6, <1>7, <1>9 DEF WroteSoFar
  <1>12. d.op \in Writes /\ d.op \notin Reads
    BY Zenon, <1>1, <1>9 DEF Reads, Writes
  <1> QED  BY Zenon, <1>6, <1>7, <1>10, <1>11, <1>12 DEF CallInv, d

\* The loop of a call ends, or the call fails.
LEMMA CallReturns ==
  ASSUME BlobInv, LoopEnds \/ ChunkFails
  PROVE  CallInv(bcall', content', boff')
  <1> DEFINE c == bcall
             d == bcall'
  <1>1. /\ c \in BlobCalls /\ content \in BlobContents /\ boff \in 0 .. BlobSize
        /\ c.pc = "loop" /\ content' = content /\ boff' = boff
        /\ c.op \in Reads \cup Writes
        /\ c.op \in Reads => ReadSoFar(c, content, boff)
        /\ c.op \in Writes => WroteSoFar(c, content, boff)
    BY Zenon DEF BlobInv, CallInv, LoopEnds, ChunkFails
  <1>2. PICK e \in BlobErrs : /\ d = [c EXCEPT !.pc = "ret", !.err = e]
                              /\ e = "none" => c.p = <<>>
    <2>1. c.err \in BlobErrs  BY Zenon, <1>1 DEF BlobCalls
    <2>2. CASE LoopEnds
      <3>1. [c EXCEPT !.pc = "ret"] = [c EXCEPT !.pc = "ret", !.err = c.err]
        BY Zenon, <1>1 DEF BlobCalls
      <3> QED  BY Zenon, <2>1, <2>2, <3>1 DEF LoopEnds
    <2>3. CASE ChunkFails  BY Zenon, <2>3 DEF ChunkFails, BlobErrs
    <2> QED  BY Zenon, <2>2, <2>3
  <1>3. d = [c EXCEPT !.pc = "ret", !.err = e] /\ e \in BlobErrs  BY Zenon, <1>2
  <1>4. /\ d.op = c.op /\ d.pc = "ret" /\ d.p = c.p /\ d.n = c.n /\ d.out = c.out
        /\ d.pre = c.pre /\ d.at = c.at /\ d.full = c.full /\ d.err = e
    BY Zenon, <1>1, <1>3 DEF BlobCalls
  <1>5. d \in BlobCalls  BY Zenon, <1>1, <1>3 DEF BlobCalls
  <1>6. c.p \in Seq(BlobBytes) /\ c.full \in Seq(BlobBytes) /\ c.at \in 0 .. BlobSize
    BY Zenon, <1>1 DEF BlobCalls
  <1> HIDE DEF c, d
  <1>7. ASSUME c.op \in Reads  PROVE ReadSoFar(d, content', boff')
    <2>1. Reading(c.op, "loop", c.p, c.n, c.out, c.pre, c.at, c.full, c.err, content, boff)
      BY Zenon, <1>1, <1>7 DEF ReadSoFar
    <2>2. Reading(c.op, "ret", c.p, c.n, c.out, c.pre, c.at, c.full, e, content, boff)
      BY Zenon, <1>1, <1>2, <1>6, <2>1, ReadsEnd
    <2> QED  BY Zenon, <1>1, <1>4, <2>2 DEF ReadSoFar
  <1>8. ASSUME c.op \in Writes  PROVE WroteSoFar(d, content', boff')
    <2>1. Writing("loop", c.p, c.n, c.pre, c.at, c.full, c.err, content, boff)
      BY Zenon, <1>1, <1>8 DEF WroteSoFar
    <2>2. Writing("ret", c.p, c.n, c.pre, c.at, c.full, e, content, boff)
      BY Zenon, <1>2, <1>6, <2>1, WritesEnd
    <2> QED  BY Zenon, <1>1, <1>4, <2>2 DEF WroteSoFar
  <1> QED  BY Zenon, <1>1, <1>4, <1>5, <1>7, <1>8 DEF CallInv, d

\* Read and WriteTo are called.
LEMMA ReadBegins ==
  ASSUME BlobInv, NEW op \in Reads, NEW p \in Seq(BlobBytes), CallRead(op, p)
  PROVE  CallInv(bcall', content', boff')
  <1> USE BlobAssumption
  <1>1. /\ content \in BlobContents /\ boff \in 0 .. BlobSize /\ CallInv(bcall, content, boff)
        /\ content' = content /\ boff' = boff /\ op \in BlobOps
    BY Zenon DEF BlobInv, CallInv, CallRead, Reads, BlobOps
  <1> DEFINE d == bcall'
  <1>2. CASE bstate = "closed"
    BY Zenon, <1>1, <1>2, Started DEF CallRead, BlobErrs
  <1>3. CASE bstate # "closed" /\ boff >= BlobSize
    <2> DEFINE e == IF op = "Read" THEN "EOF" ELSE "none"
    <2>1. bcall' = Refused(op, p, e)  BY Zenon, <1>3 DEF CallRead
    <2>2. e \in BlobErrs /\ (e # "none" \/ (op = "WriteTo" /\ boff = BlobSize))
      BY <1>1, <1>3 DEF BlobErrs, Reads
    <2> HIDE DEF e
    <2> QED  BY Zenon, <1>1, <2>1, <2>2, Started
  <1>4. CASE bstate # "closed" /\ ~(boff >= BlobSize) /\ bdone
    BY Zenon, <1>1, <1>4, Started DEF CallRead, BlobErrs
  <1>5. CASE bstate # "closed" /\ ~(boff >= BlobSize) /\ ~bdone
    <2> DEFINE b == BlobSize - boff
               fit == op = "Read" /\ Len(p) <= b
               q == IF fit THEN p ELSE Blank(b)
    <2>1. b \in Nat /\ Len(p) \in Nat  BY <1>1, <1>5
    <2>2. q \in Seq(BlobBytes) /\ Len(q) = IF fit THEN Len(p) ELSE b
      BY Zenon, <2>1, Blanks
    <2>3. d = IF fit THEN Call(op, p) ELSE [Call(op, p) EXCEPT !.p = Blank(b)]
      BY Zenon, <1>5 DEF CallRead
    <2>4. Call(op, p) = [op |-> op, pc |-> "loop", p |-> p, n |-> 0, out |-> <<>>, pre |-> content,
                         at |-> boff, full |-> p, err |-> "none"]
      BY Zenon DEF Call
    <2>5. d = [op |-> op, pc |-> "loop", p |-> q, n |-> 0, out |-> <<>>, pre |-> content,
               at |-> boff, full |-> p, err |-> "none"]
      <3>1. CASE fit  BY Zenon, <2>3, <2>4, <3>1
      <3>2. CASE ~fit
        <4>1. d = [Call(op, p) EXCEPT !.p = q]  BY Zenon, <2>3, <3>2
        <4> HIDE DEF q, fit, b
        <4> QED  BY <2>4, <4>1
      <3> QED  BY Zenon, <3>1, <3>2
    <2>6. op = "Read" => Len(q) = Min({Len(p), BlobSize - boff})  BY <2>1, <2>2, MinOfTwo
    <2> HIDE DEF q
    <2>7. op = "WriteTo" => boff + Len(q) = BlobSize
      <3>1. op = "WriteTo" => Len(q) = b  BY Zenon, <2>2
      <3> QED  BY <1>1, <3>1
    <2>8. d \in BlobCalls
      <3>1. <<>> \in Seq(BlobBytes) /\ 0 \in Int /\ "loop" \in {"loop", "ret"} /\ "none" \in BlobErrs
        BY DEF BlobErrs
      <3> QED  BY Zenon, <1>1, <2>2, <2>5, <3>1, ACall
    <2>9. /\ d.op = op /\ d.pc = "loop" /\ d.p = q /\ d.n = 0 /\ d.out = <<>>
          /\ d.pre = content /\ d.at = boff /\ d.full = p /\ d.err = "none"
      BY Zenon, <2>5
    <2> HIDE DEF d
    <2>10. Reading(op, "loop", q, 0, <<>>, content, boff, p, "none", content, boff)
      BY Zenon, <1>1, <2>2, <2>6, <2>7, ReadsStart
    <2>11. ReadSoFar(d, content, boff)  BY Zenon, <2>9, <2>10 DEF ReadSoFar
    <2> QED  BY Zenon, <1>1, <2>8, <2>9, <2>11 DEF CallInv, Reads, Writes, d
  <1> QED  BY Zenon, <1>2, <1>3, <1>4, <1>5

\* Write and ReadFrom are called.
LEMMA WriteBegins ==
  ASSUME BlobInv, NEW op \in Writes, NEW p \in Seq(BlobBytes), CallWrite(op, p)
  PROVE  CallInv(bcall', content', boff')
  <1>1. /\ content \in BlobContents /\ boff \in 0 .. BlobSize /\ CallInv(bcall, content, boff)
        /\ content' = content /\ boff' = boff /\ op \in BlobOps
    BY Zenon DEF BlobInv, CallInv, CallWrite, Writes, BlobOps
  <1> DEFINE d == bcall'
  <1>2. CASE bstate = "closed" \/ bdone
    BY Zenon, <1>1, <1>2, Started DEF CallWrite, BlobErrs
  <1>3. CASE bstate # "closed" /\ ~bdone
    <2>1. d = Call(op, p)  BY Zenon, <1>3 DEF CallWrite
    <2>2. d \in BlobCalls  BY Zenon, <1>1, <2>1, Started DEF BlobErrs
    <2>3. /\ d.op = op /\ d.pc = "loop" /\ d.p = p /\ d.n = 0 /\ d.pre = content /\ d.at = boff
          /\ d.full = p /\ d.err = "none"
      BY Zenon, <2>1 DEF Call
    <2> HIDE DEF d
    <2>4. Writing("loop", p, 0, content, boff, p, "none", content, boff)
      BY Zenon, <1>1, WritesStart
    <2>5. WroteSoFar(d, content, boff)  BY Zenon, <2>3, <2>4 DEF WroteSoFar
    <2> QED  BY Zenon, <1>1, <2>2, <2>3, <2>5 DEF CallInv, Reads, Writes, d
  <1> QED  BY Zenon, <1>2, <1>3

\* Seek stays within the blob.
LEMMA SeekKept ==
  ASSUME BlobInv, NEW x \in -1 .. 1, NEW w \in {"start", "current", "end"}, Seek(x, w)
  PROVE  CallInv(bcall', content', boff')
  <1> USE BlobAssumption
  <1>1. /\ content \in BlobContents /\ boff \in 0 .. BlobSize /\ CallInv(bcall, content, boff)
        /\ content' = content
    BY Zenon DEF BlobInv, CallInv, Seek
  <1>2. boff' \in 0 .. BlobSize  BY <1>1 DEF Seek
  <1>3. PICK e \in {"none", "failed"} : bcall' = [Refused("Seek", <<>>, e) EXCEPT !.n = x]
    BY Zenon DEF Seek
  <1> DEFINE c == Refused("Seek", <<>>, e)
             d == bcall'
  <1>4. c \in BlobCalls
    <2>1. <<>> \in Seq(BlobBytes) /\ "Seek" \in BlobOps /\ e \in BlobErrs
      BY DEF BlobOps, BlobErrs
    <2> QED  BY Zenon, <1>1, <2>1, Started
  <1>5. c.op = "Seek" /\ c.pc = "ret" /\ c.pre = content  BY Zenon DEF Refused, Call
  <1>6. d = [c EXCEPT !.n = x]  BY Zenon, <1>3
  <1> HIDE DEF c, d
  <1>7. d \in BlobCalls /\ d.op = "Seek" /\ d.pc = "ret" /\ d.pre = content
    <2>1. x \in Int  OBVIOUS
    <2> QED  BY Zenon, <1>4, <1>5, <1>6, <2>1 DEF BlobCalls
  <1> QED  BY Zenon, <1>1, <1>2, <1>7 DEF CallInv, Reads, Writes, d

\* Every step keeps the invariant.
LEMMA BlobKept == BlobInv /\ [BlobNext]_blobvars => BlobInv'
  <1> SUFFICES ASSUME BlobInv, [BlobNext]_blobvars  PROVE BlobInv'
    BY Zenon
  <1> USE BlobAssumption
  <1>0. /\ CallInv(bcall, content, boff) /\ bbuf = (bstate = "open")
        /\ bstate \in {"none", "open", "closed"}
    BY Zenon DEF BlobInv
  <1>a. <<>> \in Seq(BlobBytes) /\ "Open" \in BlobOps \ (Reads \cup Writes)
        /\ "Close" \in BlobOps \ (Reads \cup Writes)
    BY DEF BlobOps, Reads, Writes
  <1>1. CASE OpenBlob
    <2>1. content' = content /\ boff' = boff /\ bstate = "none"
      BY Zenon, <1>1 DEF OpenBlob
    <2>2. CASE bstate' = "open" /\ bbuf' = TRUE /\ bcall' = bcall
      BY Zenon, <1>0, <2>1, <2>2 DEF BlobInv
    <2>3. ASSUME NEW e \in {"interrupt", "failed"}, bcall' = Refused("Open", <<>>, e),
                 bstate' = bstate, bbuf' = bbuf
          PROVE  BlobInv'
      <3>1. e \in BlobErrs  BY Zenon DEF BlobErrs
      <3>2. CallInv(bcall', content', boff')
        BY Zenon, <1>0, <1>a, <2>1, <2>3, <3>1, Started
      <3> QED  BY Zenon, <1>0, <2>3, <3>2 DEF BlobInv
    <2> QED  BY Zenon, <1>1, <2>2, <2>3 DEF OpenBlob
  <1>2. CASE Interrupt  BY Zenon, <1>0, <1>2 DEF Interrupt, BlobInv
  <1>3. ASSUME NEW k \in 0 .. BlobSlice, CallRead("Read", Blank(k))  PROVE BlobInv'
    <2>1. Blank(k) \in Seq(BlobBytes) /\ "Read" \in Reads  BY Blanks DEF Reads
    <2>2. CallInv(bcall', content', boff')  BY Zenon, <1>3, <2>1, ReadBegins
    <2> QED  BY Zenon, <1>0, <1>3, <2>2 DEF CallRead, BlobInv
  <1>4. CASE CallRead("WriteTo", <<>>)
    <2>1. "WriteTo" \in Reads  BY Zenon DEF Reads
    <2>2. CallInv(bcall', content', boff')  BY Zenon, <1>4, <1>a, <2>1, ReadBegins
    <2> QED  BY Zenon, <1>0, <1>4, <2>2 DEF CallRead, BlobInv
  <1>5. ASSUME NEW p \in BlobSlices, NEW op \in Writes, CallWrite(op, p)  PROVE BlobInv'
    <2>1. p \in Seq(BlobBytes)  BY DEF BlobSlices
    <2>2. CallInv(bcall', content', boff')  BY Zenon, <1>5, <2>1, WriteBegins
    <2> QED  BY Zenon, <1>0, <1>5, <2>2 DEF CallWrite, BlobInv
  <1>6. CASE ReadChunk
    <2>1. CallInv(bcall', content', boff')  BY Zenon, <1>6, ReadGoesOn
    <2> QED  BY Zenon, <1>0, <1>6, <2>1 DEF ReadChunk, BlobInv
  <1>7. CASE WriteChunk
    <2>1. CallInv(bcall', content', boff')  BY Zenon, <1>7, WriteGoesOn
    <2> QED  BY Zenon, <1>0, <1>7, <2>1 DEF WriteChunk, BlobInv
  <1>8. CASE ChunkFails \/ LoopEnds
    <2>1. CallInv(bcall', content', boff')  BY Zenon, <1>8, CallReturns
    <2> QED  BY Zenon, <1>0, <1>8, <2>1 DEF ChunkFails, LoopEnds, BlobInv
  <1>9. ASSUME NEW x \in -1 .. 1, NEW w \in {"start", "current", "end"}, Seek(x, w)  PROVE BlobInv'
    <2>1. CallInv(bcall', content', boff')  BY Zenon, <1>9, SeekKept
    <2>2. bstate' = bstate /\ bbuf' = bbuf  BY Zenon, <1>9 DEF Seek
    <2> QED  BY Zenon, <1>0, <2>1, <2>2 DEF BlobInv
  <1>10. CASE CloseBlob
    <2> DEFINE e == IF bstate = "closed" THEN "invalid" ELSE "none"
    <2>1. /\ bcall' = Refused("Close", <<>>, e) /\ content' = content /\ boff' = boff
          /\ bstate' = "closed" /\ bbuf' = FALSE
      BY Zenon, <1>10 DEF CloseBlob
    <2>2. e \in BlobErrs  BY Zenon DEF BlobErrs
    <2> HIDE DEF e
    <2>3. CallInv(bcall', content', boff')  BY Zenon, <1>0, <1>a, <2>1, <2>2, Started
    <2> QED  BY Zenon, <2>1, <2>3 DEF BlobInv
  <1>11. CASE UNCHANGED blobvars  BY Zenon, <1>0, <1>11 DEF blobvars, BlobInv
  <1>12. "Write" \in Writes /\ "ReadFrom" \in Writes  BY Zenon DEF Writes
  <1> QED
    BY Zenon, <1>1, <1>2, <1>3, <1>4, <1>5, <1>6, <1>7, <1>8, <1>9, <1>10, <1>11, <1>12
       DEF BlobNext

\* A blob in three pieces: before, what was written, and after.
Assembled(pre, full, at, k) ==
    SubSeq(pre, 1, at) \o SubSeq(full, 1, k) \o SubSeq(pre, at + k + 1, BlobSize)

\* What was written, in the three pieces of the slice.
LEMMA Pieces ==
  ASSUME NEW now \in BlobContents, NEW pre \in BlobContents, NEW full \in Seq(BlobBytes),
         NEW at \in Nat, NEW k \in 0 .. Len(full), at + k <= BlobSize,
         Written(now, pre, full, at, k)
  PROVE  now = Assembled(pre, full, at, k)
  <1> USE BlobAssumption
  <1> DEFINE a == SubSeq(pre, 1, at)
             b == SubSeq(full, 1, k)
             c == SubSeq(pre, at + k + 1, BlobSize)
  <1>0. /\ at \in Int /\ 0 <= at /\ k \in Int /\ 0 <= k /\ at + k <= BlobSize /\ BlobSize \in Int
        /\ Len(full) \in Nat /\ k <= Len(full)
    OBVIOUS
  <1>1. /\ a \in Seq(BlobBytes) /\ Len(a) = at /\ \A i \in 1 .. at : a[i] = pre[i]
    <2>1. \A i \in 1 .. at : pre[i] \in BlobBytes  BY <1>0 DEF BlobContents
    <2>2. at \in Nat  BY <1>0
    <2> QED  BY <2>1, <2>2, Prefix
  <1>2. /\ b \in Seq(BlobBytes) /\ Len(b) = k /\ \A i \in 1 .. k : b[i] = full[i]
    <2>1. \A i \in 1 .. k : full[i] \in BlobBytes  BY <1>0
    <2>2. k \in Nat  BY <1>0
    <2> QED  BY <2>1, <2>2, Prefix
  <1>3. /\ c \in Seq(BlobBytes) /\ Len(c) = BlobSize - at - k
        /\ \A i \in 1 .. BlobSize - at - k : c[i] = pre[at + k + i]
    <2>1. \A i \in at + k + 1 .. BlobSize : pre[i] \in BlobBytes  BY <1>0 DEF BlobContents
    <2>2. /\ c \in Seq(BlobBytes)
          /\ Len(c) = IF at + k + 1 <= BlobSize THEN BlobSize - (at + k + 1) + 1 ELSE 0
          /\ \A i \in 1 .. BlobSize - (at + k + 1) + 1 : c[i] = pre[at + k + 1 + i - 1]
      BY <1>0, <2>1, Slice
    <2> HIDE DEF c
    <2> QED  BY <1>0, <2>2
  <1> HIDE DEF a, b, c
  <1> DEFINE ab == a \o b
             abc == ab \o c
  <1>4. /\ ab \in Seq(BlobBytes) /\ Len(ab) = at + k
        /\ \A i \in 1 .. at + k : ab[i] = IF i <= at THEN a[i] ELSE b[i - at]
    <2>1. /\ ab \in Seq(BlobBytes) /\ Len(ab) = Len(a) + Len(b)
          /\ \A i \in 1 .. Len(a) + Len(b) : ab[i] = IF i <= Len(a) THEN a[i] ELSE b[i - Len(a)]
      <3>1. a \in Seq(BlobBytes) /\ b \in Seq(BlobBytes)  BY Zenon, <1>1, <1>2
      <3> QED  BY Zenon, <3>1, Concatenated
    <2>2. Len(a) = at /\ Len(b) = k  BY Zenon, <1>1, <1>2
    <2> HIDE DEF ab
    <2> QED  BY Zenon, <2>1, <2>2
  <1> HIDE DEF ab
  <1>5. /\ abc \in Seq(BlobBytes) /\ Len(abc) = BlobSize
        /\ \A i \in 1 .. BlobSize : abc[i] = IF i <= at + k THEN ab[i] ELSE c[i - (at + k)]
    <2>1. Len(ab) + Len(c) = BlobSize  BY SMTT(20), <1>0, <1>3, <1>4
    <2> QED  BY <1>3, <1>4, <2>1, Concatenated
  <1> HIDE DEF abc
  <1>6. now \in Seq(BlobBytes) /\ Len(now) = BlobSize  BY DEF BlobContents
  <1>7. ASSUME NEW i \in 1 .. Len(now)  PROVE now[i] = abc[i]
    <2>0. i \in Int /\ 1 <= i /\ i <= BlobSize /\ i \in 1 .. BlobSize  BY <1>0, <1>6
    <2>4. now[i] = IF i \in at + 1 .. at + k THEN full[i - at] ELSE pre[i]
      BY Zenon, <2>0 DEF Written
    <2>1. CASE i <= at
      <3>1. abc[i] = ab[i] /\ ab[i] = a[i] /\ a[i] = pre[i]
        BY <1>0, <1>1, <1>4, <1>5, <2>0, <2>1
      <3>2. now[i] = pre[i]
        <4>1. i \notin at + 1 .. at + k  BY <1>0, <2>0, <2>1
        <4> QED  BY Zenon, <2>4, <4>1
      <3> QED  BY Zenon, <3>1, <3>2
    <2>2. CASE at < i /\ i <= at + k
      <3>1. abc[i] = ab[i] /\ ab[i] = b[i - at]  BY <1>0, <1>4, <1>5, <2>0, <2>2
      <3>2. b[i - at] = full[i - at]  BY <1>0, <1>2, <2>0, <2>2
      <3>3. now[i] = full[i - at]
        <4>1. i \in at + 1 .. at + k  BY <1>0, <2>0, <2>2
        <4> QED  BY Zenon, <2>4, <4>1
      <3> QED  BY Zenon, <3>1, <3>2, <3>3
    <2>3. CASE at + k < i
      <3>1. abc[i] = c[i - (at + k)]  BY <1>0, <1>5, <2>0, <2>3
      <3>2. i - (at + k) \in 1 .. BlobSize - at - k  BY <1>0, <2>0, <2>3
      <3>3. c[i - (at + k)] = pre[at + k + (i - (at + k))]  BY Zenon, <1>3, <3>2
      <3>4. at + k + (i - (at + k)) = i  BY <1>0, <2>0
      <3>5. now[i] = pre[i]
        <4>1. i \notin at + 1 .. at + k  BY <1>0, <2>0, <2>3
        <4> QED  BY Zenon, <2>4, <4>1
      <3> QED  BY Zenon, <3>1, <3>3, <3>4, <3>5
    <2> QED  BY <1>0, <2>0, <2>1, <2>2, <2>3
  <1>8. now = abc  BY Zenon, <1>5, <1>6, <1>7, SameElements
  <1> QED  BY Zenon, <1>8 DEF a, b, c, ab, abc, Assembled

\* For every size of the blob and of its chunks, Read, WriteTo, Write, ReadFrom
\* and Seek of a Blob do what they would do to a slice of bytes: they return
\* how much they did, what they read is what is there, and they write that much
\* and nothing else, also when a chunk fails or the connection is interrupted
\* between chunks (blob.go:132-286).
THEOREM BlobIsASlice == BlobSpec => []BlobLikeSlice
  <1> USE BlobAssumption
  <1>1. BlobInit => BlobInv
    <2> SUFFICES ASSUME BlobInit  PROVE BlobInv
      BY Zenon
    <2> DEFINE c == Call("Open", <<>>)
               d == bcall
    <2>1. content \in BlobContents /\ boff = 0
      BY Zenon, Blanks DEF BlobInit, BlobContents
    <2>2. c \in BlobCalls
      <3>1. <<>> \in Seq(BlobBytes) /\ 0 \in Int /\ "loop" \in {"loop", "ret"} /\ "none" \in BlobErrs
            /\ 0 \in 0 .. BlobSize /\ "Open" \in BlobOps
        BY DEF BlobErrs, BlobOps
      <3> QED  BY <2>1, <3>1, ACall, Zenon DEF Call
    <2>3. c.op = "Open" /\ c.pre = content  BY Zenon DEF Call
    <2>4. d = [c EXCEPT !.pc = "ret"]  BY Zenon DEF BlobInit
    <2> HIDE DEF c, d
    <2>5. d \in BlobCalls /\ d.op = "Open" /\ d.pc = "ret" /\ d.pre = content
      BY Zenon, <2>2, <2>3, <2>4 DEF BlobCalls
    <2>6. CallInv(d, content, boff)  BY <2>1, <2>5 DEF CallInv, Reads, Writes
    <2> QED  BY Zenon, <2>6 DEF BlobInit, BlobInv, d
  <1>2. BlobInv => BlobLikeSlice
    <2> SUFFICES ASSUME BlobInv  PROVE BlobLikeSlice
      BY Zenon
    <2> DEFINE c == bcall
    <2>1. /\ c \in BlobCalls /\ content \in BlobContents /\ boff \in 0 .. BlobSize
          /\ c.op \in Reads => ReadSoFar(c, content, boff)
          /\ c.op \in Writes => WroteSoFar(c, content, boff)
          /\ c.op \notin Reads \cup Writes => content = c.pre
          /\ bbuf = (bstate = "open")
      BY Zenon DEF BlobInv, CallInv
    <2>2. CASE c.op \in Writes
      <3>1. /\ c.full \in Seq(BlobBytes) /\ c.pre \in BlobContents /\ c.at \in 0 .. BlobSize
        BY Zenon, <2>1 DEF BlobCalls
      <3>2. /\ c.n \in 0 .. Len(c.full) /\ boff = c.at + c.n
            /\ Written(content, c.pre, c.full, c.at, c.n)
            /\ (c.pc = "ret" /\ c.err = "none") => c.n = Len(c.full)
        BY Zenon, <2>1, <2>2 DEF WroteSoFar, Writing
      <3>3. c.at \in Nat /\ c.at + c.n <= BlobSize
        <4>1. c.at \in Nat  BY <3>1
        <4> QED  BY Zenon, <2>1, <3>2, <4>1, BlobAssumption, InRange
      <3>4. content = SubSeq(c.pre, 1, c.at) \o SubSeq(c.full, 1, c.n)
                      \o SubSeq(c.pre, c.at + c.n + 1, BlobSize)
        <4> DEFINE k == c.n
                   at == c.at
                   full == c.full
                   pre == c.pre
        <4>1. /\ full \in Seq(BlobBytes) /\ pre \in BlobContents /\ at \in Nat
              /\ k \in 0 .. Len(full) /\ at + k <= BlobSize /\ content \in BlobContents
              /\ Written(content, pre, full, at, k)
          BY Zenon, <2>1, <3>1, <3>2, <3>3
        <4> HIDE DEF k, at, full, pre
        <4>2. content = Assembled(pre, full, at, k)  BY Zenon, <4>1, Pieces
        <4> QED  BY Zenon, <4>2 DEF k, at, full, pre, Assembled
      <3>5. c.op \notin {"Read", "WriteTo"} /\ c.op \in {"Write", "ReadFrom"}
        BY Zenon, <2>2 DEF Writes
      <3> QED  BY Zenon, <2>1, <3>2, <3>4, <3>5 DEF BlobLikeSlice, Returned
    <2>3. CASE c.op \in Reads
      BY Zenon, <2>1, <2>3 DEF BlobLikeSlice, Returned, ReadSoFar, Reading, Reads
    <2>4. CASE c.op \notin Reads \cup Writes
      BY Zenon, <2>1, <2>4 DEF BlobLikeSlice, Returned, Reads, Writes
    <2> QED  BY Zenon, <2>2, <2>3, <2>4
  <1> QED  BY <1>1, <1>2, BlobKept, PTL DEF BlobSpec
=============================================================================

