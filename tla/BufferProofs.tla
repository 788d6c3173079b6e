---------------------------- MODULE BufferProofs ----------------------------
(***************************************************************************)
(* Buffer for every size, alphabet and write length: the positions and     *)
(* flags stay consistent, buffer_map offers bytes of the stream, and the   *)
(* ring implements a bounded stream of bytes.                              *)
(***************************************************************************)
EXTENDS Buffer, SequenceTheorems, TLAPS

\* The only arithmetic of the ring: an index below 2 * Size is reduced by at
\* most one subtraction.
LEMMA ModOnce ==
  ASSUME NEW x \in Nat, x < 2 * Size
  PROVE  /\ x % Size = IF x < Size THEN x ELSE x - Size
         /\ x % Size \in Index
<1> USE SizeAssumption
<1>1. CASE x < Size
  BY <1>1 DEF Index
<1>2. CASE x >= Size
  BY <1>2 DEF Index
<1> QED BY <1>1, <1>2

\* The distance from the read to the write position is less than the ring.
LEMMA GapInRing ==
  ASSUME NEW b \in Buffers
  PROVE  /\ Gap(b) \in Index
         /\ Gap(b) = IF b.wp < b.rp THEN b.wp + Size - b.rp ELSE b.wp - b.rp
<1>1. b.wp + Size - b.rp \in Nat /\ b.wp + Size - b.rp < 2 * Size
  BY SizeAssumption DEF Buffers, Index
<1>2. Gap(b) \in Index
  BY <1>1, ModOnce DEF Gap
<1>3. Gap(b) = IF b.wp < b.rp THEN b.wp + Size - b.rp ELSE b.wp - b.rp
  BY <1>1, ModOnce, SizeAssumption, SMTT(30) DEF Gap, Buffers, Index
<1> QED BY <1>2, <1>3

-----------------------------------------------------------------------------
\* Type and flag consistency of one buffer, as a predicate on the record.
Consistent(b) ==
  /\ b \in Buffers
  /\ ~(b.full /\ b.empty)
  /\ (b.wp = b.rp) <=> (b.full \/ b.empty)

\* buffer_clear leaves a consistent buffer.
LEMMA ClearedConsistent ==
  ASSUME NEW b \in Buffers
  PROVE  Consistent(Cleared(b))
<1>1. Cleared(b) \in Buffers
  BY SizeAssumption DEF Cleared, Buffers, Index
<1>2. /\ Cleared(b).wp = 0
      /\ Cleared(b).rp = 0
      /\ Cleared(b).full = FALSE
      /\ Cleared(b).empty = TRUE
  BY DEF Cleared, Buffers
<1> QED BY <1>1, <1>2 DEF Consistent

\* buffer_delete keeps a buffer consistent, whatever length it is given.
LEMMA DeletedConsistent ==
  ASSUME NEW b, Consistent(b), NEW n \in Int
  PROVE  Consistent(Deleted(b, n))
<1> USE SizeAssumption
<1>0. b \in Buffers
  BY DEF Consistent
<1>1. CASE n <= 0
  BY <1>1 DEF Deleted
<1>2. CASE n > 0 /\ n >= Gap(b)
  <2>1. Deleted(b, n) = Cleared(b)
    BY <1>2 DEF Deleted
  <2> QED BY <2>1, <1>0, ClearedConsistent
<1>3. CASE n > 0 /\ n < Gap(b)
  <2> DEFINE rp == (b.rp + n) % Size
  <2>0. Gap(b) \in Index /\ Gap(b) = IF b.wp < b.rp THEN b.wp + Size - b.rp ELSE b.wp - b.rp
    BY <1>0, GapInRing
  <2>1. b.rp + n \in Nat /\ b.rp + n < 2 * Size
    BY <1>0, <1>3, <2>0 DEF Buffers, Index
  <2>2. rp \in Index /\ rp = IF b.rp + n < Size THEN b.rp + n ELSE b.rp + n - Size
    <3> DEFINE x == b.rp + n
    <3>1. x \in Nat /\ x < 2 * Size
      BY <2>1
    <3> HIDE DEF x
    <3>2. x % Size \in Index /\ x % Size = IF x < Size THEN x ELSE x - Size
      BY <3>1, ModOnce
    <3>3. b.rp \in Int
      BY <1>0 DEF Buffers, Index
    <3> QED BY <3>2, <3>3 DEF x
  <2>3. rp # b.wp
    BY <1>0, <1>3, <2>0, <2>2, SMTT(30) DEF Buffers, Index
  <2>4. b.wp # b.rp
    BY <1>0, <1>3, <2>0 DEF Buffers, Index
  <2>5. ~b.full /\ ~b.empty
    BY <2>4 DEF Consistent
  <2>6. Deleted(b, n) = [data |-> b.data, wp |-> b.wp, rp |-> rp,
                              full |-> FALSE, empty |-> b.empty]
    BY <1>3, <2>0 DEF Deleted, Index
  <2>7. Deleted(b, n) \in Buffers
    BY <1>0, <2>2, <2>6 DEF Buffers
  <2> HIDE DEF rp
  <2> QED BY <2>3, <2>5, <2>6, <2>7 DEF Consistent
<1> QED BY <1>1, <1>2, <1>3, GapInRing, <1>0 DEF Index

\* buffer_put keeps a buffer consistent: the cells stay bytes, and the write
\* position meets the read position exactly when the full flag is set.
LEMMA PutConsistent ==
  ASSUME NEW b, Consistent(b), NEW s \in Seq(Byte), CanPut(b, s)
  PROVE  Consistent(PutDone(b, s))
<1> USE SizeAssumption
<1>0. b \in Buffers /\ Len(s) \in Nat
  BY DEF Consistent
<1>1. CASE s = <<>>
  BY <1>1 DEF PutDone
<1>2. CASE s # <<>>
  <2> DEFINE wp == (b.wp + Len(s)) % Size
             off(i) == (i + Size - b.wp) % Size
             full == wp = b.rp
             d == [i \in Index |-> IF off(i) < Len(s) THEN s[off(i) + 1] ELSE b.data[i]]
  <2>1. PutDone(b, s) = [data |-> d, wp |-> wp, rp |-> b.rp,
                         full |-> full, empty |-> FALSE]
    BY <1>2 DEF PutDone
  <2>2. wp \in Index
    BY <1>0 DEF Buffers, Index
  <2>3. ASSUME NEW i \in Index
        PROVE  (IF off(i) < Len(s) THEN s[off(i) + 1] ELSE b.data[i]) \in Byte
    <3>1. i + Size - b.wp \in Nat /\ i + Size - b.wp < 2 * Size
      BY <1>0 DEF Buffers, Index
    <3>2. off(i) \in Nat
      BY <1>0 DEF Buffers, Index
    <3> HIDE DEF off
    <3>3. b.data[i] \in Byte
      BY <1>0 DEF Buffers
    <3>4. off(i) < Len(s) => s[off(i) + 1] \in Byte
      BY <1>0, <3>2
    <3> QED BY <3>3, <3>4
  <2>4. d \in [Index -> Byte]
    BY <2>3
  <2> HIDE DEF d, wp, full
  <2>5. full \in BOOLEAN
    BY DEF full
  <2>6. PutDone(b, s) \in Buffers
    BY <1>0, <2>1, <2>2, <2>4, <2>5 DEF Buffers
  <2>7. /\ PutDone(b, s).wp = wp
        /\ PutDone(b, s).rp = b.rp
        /\ PutDone(b, s).full = full
        /\ PutDone(b, s).empty = FALSE
    BY <2>1
  <2> QED BY <2>6, <2>7 DEF Consistent, full
<1> QED BY <1>1, <1>2

\* buffer_putchr keeps a buffer consistent.
LEMMA PutChrConsistent ==
  ASSUME NEW b, Consistent(b), NEW c \in Byte
  PROVE  Consistent(PutChrDone(b, c))
<1> USE SizeAssumption
<1> DEFINE wp == (b.wp + 1) % Size
           full == wp = b.rp
           d == [b.data EXCEPT ![b.wp] = c]
<1>0. b \in Buffers
  BY DEF Consistent
<1>1. PutChrDone(b, c) = [data |-> d, wp |-> wp, rp |-> b.rp,
                          full |-> full, empty |-> FALSE]
  BY DEF PutChrDone
<1>2. wp \in Index
  BY <1>0 DEF Buffers, Index
<1>3. d \in [Index -> Byte]
  BY <1>0 DEF Buffers
<1> HIDE DEF d, wp, full
<1>4. full \in BOOLEAN
  BY DEF full
<1>5. PutChrDone(b, c) \in Buffers
  BY <1>0, <1>1, <1>2, <1>3, <1>4 DEF Buffers
<1>6. /\ PutChrDone(b, c).wp = wp
      /\ PutChrDone(b, c).rp = b.rp
      /\ PutChrDone(b, c).full = full
      /\ PutChrDone(b, c).empty = FALSE
  BY <1>1
<1> QED BY <1>5, <1>6 DEF Consistent, full

-----------------------------------------------------------------------------
\* The length a consistent buffer reports is a number of cells.
LEMMA LengthInt ==
  ASSUME NEW b \in Buffers
  PROVE  Length(b) \in 0 .. Size
BY GapInRing, SizeAssumption DEF Length, Index

\* Writes only ever hands sequences of bytes to buffer_put.
LEMMA WritesAreSequences ==
  ASSUME NEW s \in Writes
  PROVE  s \in Seq(Byte)
BY MaxWriteAssumption DEF Writes

\* Every operation of the module keeps the buffer consistent.
LEMMA NextConsistent ==
  ASSUME Consistent(buf), [Next]_vars
  PROVE  Consistent(buf)'
<1>0. buf \in Buffers
  BY DEF Consistent
<1>1. ASSUME NEW s \in Writes, Put(s)
      PROVE  Consistent(buf)'
  <2>1. CASE CanPut(buf, s) /\ buf' = PutDone(buf, s)
    BY <2>1, PutConsistent, WritesAreSequences
  <2>2. CASE UNCHANGED buf
    BY <2>2
  <2> QED BY <1>1, <2>1, <2>2 DEF Put
<1>2. ASSUME NEW c \in Byte, PutChr(c)
      PROVE  Consistent(buf)'
  <2>1. CASE buf' = PutChrDone(buf, c)
    BY <2>1, PutChrConsistent
  <2>2. CASE UNCHANGED buf
    BY <2>2
  <2> QED BY <1>2, <2>1, <2>2 DEF PutChr
<1>3. ASSUME NEW n \in 0 .. Size + 1, Delete(n)
      PROVE  Consistent(buf)'
  BY <1>3, DeletedConsistent DEF Delete
<1>4. ASSUME NEW n \in 0 .. Size + 1, Get(n)
      PROVE  Consistent(buf)'
  <2>1. AtMost(n, Length(buf)) \in Int
    BY <1>0, LengthInt, SizeAssumption DEF AtMost
  <2> QED BY <1>4, <2>1, DeletedConsistent DEF Get
<1>5. CASE GetChr
  <2>1. CASE buf' = Deleted(buf, 1)
    BY <2>1, DeletedConsistent
  <2>2. CASE UNCHANGED buf
    BY <2>2
  <2> QED BY <1>5, <2>1, <2>2 DEF GetChr
<1>6. CASE Clear
  BY <1>0, <1>6, ClearedConsistent DEF Clear
<1>7. CASE UNCHANGED vars
  BY <1>7 DEF vars
<1> QED BY <1>1, <1>2, <1>3, <1>4, <1>5, <1>6, <1>7 DEF Next

\* buffer_init leaves an empty ring.
LEMMA InitConsistent == Init => Consistent(buf)
<1> SUFFICES ASSUME Init PROVE Consistent(buf)
  OBVIOUS
<1> PICK d \in [Index -> Byte] :
      buf = [data |-> d, wp |-> 0, rp |-> 0, full |-> FALSE, empty |-> TRUE]
  BY DEF Init, FreshBuffers
<1>1. 0 \in Index
  BY SizeAssumption DEF Index
<1>2. buf \in Buffers
  BY <1>1 DEF Buffers
<1> QED BY <1>2 DEF Consistent

\* After any sequence of buffer calls, the positions of a ring of any size
\* are cells of it and meet exactly when one of the two flags says why (buffer.c:62-80, 150-166).
THEOREM BufferFlagsAgree == Spec => []FlagsAgree
<1>1. Consistent(buf) => FlagsAgree
  BY DEF Consistent, TypeOK, FlagsAgree
<1> QED BY InitConsistent, NextConsistent, <1>1, PTL DEF Spec
-----------------------------------------------------------------------------
\* What the length of a consistent buffer is, without a remainder.
LEMMA LengthIs ==
  ASSUME NEW b, Consistent(b)
  PROVE  /\ Length(b) \in 0 .. Size
         /\ b.full <=> Length(b) = Size
         /\ b.empty <=> Length(b) = 0
         /\ b.wp < b.rp => Length(b) = b.wp + Size - b.rp
         /\ b.rp < b.wp => Length(b) = b.wp - b.rp
         /\ ~b.empty /\ ~b.full => b.wp # b.rp /\ Length(b) = Gap(b)
<1>1. b \in Buffers /\ b.wp \in Index /\ b.rp \in Index
  BY DEF Consistent, Buffers
<1>2. /\ Gap(b) \in Index
      /\ Gap(b) = IF b.wp < b.rp THEN b.wp + Size - b.rp ELSE b.wp - b.rp
  BY <1>1, GapInRing
<1>3. CASE b.empty
  <2>1. ~b.full /\ b.wp = b.rp
    BY <1>3 DEF Consistent
  <2>2. Length(b) = 0
    BY <1>3 DEF Length
  <2> QED BY <1>1, <1>3, <2>1, <2>2, SizeAssumption DEF Index
<1>4. CASE ~b.empty /\ b.full
  <2>1. b.wp = b.rp
    BY <1>4 DEF Consistent
  <2>2. Length(b) = Size
    BY <1>4 DEF Length
  <2> QED BY <1>1, <1>4, <2>1, <2>2, SizeAssumption DEF Index
<1>5. CASE ~b.empty /\ ~b.full
  <2>1. b.wp # b.rp
    BY <1>5 DEF Consistent
  <2>2. Length(b) = Gap(b)
    BY <1>5 DEF Length
  <2> QED BY <1>1, <1>2, <1>5, <2>1, <2>2, SizeAssumption DEF Index
<1> QED BY <1>3, <1>4, <1>5

\* buffer_map offers the unread bytes of a buffer that is neither full nor
\* wrapped around, nothing of a full one, and runs past the end of a wrapped one.
LEMMA SpanOffersContent ==
  ASSUME NEW b, Consistent(b)
  PROVE  /\ b.full => Span(b).len = 0
         /\ b.rp < b.wp =>
              Content(b) = [i \in 1 .. Span(b).len |-> b.data[Span(b).from + i - 1]]
         /\ (Span(b).from + Span(b).len > Size) <=> (b.wp # 0 /\ b.wp < b.rp)
<1>1. b \in Buffers /\ b.wp \in Index /\ b.rp \in Index
  BY DEF Consistent, Buffers
<1>2. /\ Gap(b) \in Index
      /\ Gap(b) = IF b.wp < b.rp THEN b.wp + Size - b.rp ELSE b.wp - b.rp
  BY <1>1, GapInRing
<1>3. Span(b).from = b.rp /\ Span(b).len = IF b.empty THEN 0 ELSE Gap(b)
  BY DEF Span
<1>4. (b.full \/ b.empty) <=> b.wp = b.rp
  BY DEF Consistent
<1>5. b.full => Span(b).len = 0
  BY <1>1, <1>2, <1>3, <1>4, SizeAssumption DEF Index
<1>6. ASSUME b.rp < b.wp
      PROVE  Content(b) = [i \in 1 .. Span(b).len |-> b.data[Span(b).from + i - 1]]
  <2>1. ~b.empty /\ ~b.full
    BY <1>1, <1>4, <1>6, SizeAssumption DEF Index
  <2>2. Length(b) = b.wp - b.rp /\ Span(b).len = b.wp - b.rp
    BY <1>1, <1>2, <1>3, <1>6, <2>1, LengthIs, SizeAssumption DEF Index
  <2>3. ASSUME NEW i \in 1 .. b.wp - b.rp
        PROVE  (b.rp + i - 1) % Size = b.rp + i - 1
    <3> DEFINE x == b.rp + i - 1
    <3>1. x \in Nat /\ x < Size /\ x < 2 * Size
      BY <1>1, <1>6, SizeAssumption DEF Index
    <3> HIDE DEF x
    <3>2. x % Size = x
      BY <3>1, ModOnce
    <3> QED BY <3>2 DEF x
  <2> QED BY <1>3, <2>2, <2>3 DEF Content
<1>7. (Span(b).from + Span(b).len > Size) <=> (b.wp # 0 /\ b.wp < b.rp)
  BY <1>1, <1>2, <1>3, <1>4, SizeAssumption DEF Index
<1> QED BY <1>5, <1>6, <1>7

\* Whatever has been called before, buffer_map offers the socket the unread
\* stream as long as the ring is neither full nor wrapped (buffer.c:169-176).
THEOREM BufferMapOffersStream == Spec => []MapOffersStream
<1>1. Consistent(buf) => MapOffersStream
  BY SpanOffersContent DEF MapOffersStream
<1> QED BY InitConsistent, NextConsistent, <1>1, PTL DEF Spec

-----------------------------------------------------------------------------
(* Buffer implements ByteStream: what each operation makes of the content.  *)

\* The unread bytes are a sequence of bytes as long as buffer_len says.
LEMMA ContentIs ==
  ASSUME NEW b, Consistent(b)
  PROVE  /\ Content(b) \in Seq(Byte)
         /\ Len(Content(b)) = Length(b)
         /\ \A i \in 1 .. Length(b) : Content(b)[i] = b.data[(b.rp + i - 1) % Size]
<1>1. b \in Buffers /\ b.rp \in Index /\ b.data \in [Index -> Byte]
  BY DEF Consistent, Buffers
<1>2. Length(b) \in 0 .. Size
  BY LengthIs
<1>3. ASSUME NEW i \in 1 .. Length(b)
      PROVE  b.data[(b.rp + i - 1) % Size] \in Byte
  <2>1. b.rp + i - 1 \in Nat /\ b.rp + i - 1 < 2 * Size
    BY <1>1, <1>2, SizeAssumption DEF Index
  <2>2. (b.rp + i - 1) % Size \in Index
    BY <2>1, ModOnce
  <2> QED BY <1>1, <2>2
<1>4. Content(b) \in [1 .. Length(b) -> Byte]
  BY <1>3 DEF Content
<1>5. Length(b) \in Nat
  BY <1>2, SizeAssumption
<1> QED BY <1>4, <1>5 DEF Content

\* Two sequences with the same elements are the same.
LEMMA SameBytes ==
  ASSUME NEW s \in Seq(Byte), NEW t \in Seq(Byte), Len(s) = Len(t),
         \A i \in 1 .. Len(s) : s[i] = t[i]
  PROVE  s = t
BY SeqEqual

\* The reduced sum of a position and an offset within the ring.
LEMMA Wrapped ==
  ASSUME NEW p \in Index, NEW k \in Nat, k <= Size
  PROVE  /\ (p + k) % Size \in Index
         /\ (p + k) % Size = IF p + k < Size THEN p + k ELSE p + k - Size
<1> DEFINE x == p + k
<1>1. x \in Nat /\ x < 2 * Size
  BY SizeAssumption DEF Index
<1> HIDE DEF x
<1>2. x % Size \in Index /\ x % Size = IF x < Size THEN x ELSE x - Size
  BY <1>1, ModOnce
<1>3. p \in Int /\ k \in Int
  BY DEF Index
<1> QED BY <1>2, <1>3, SizeAssumption DEF x

\* The distance of a cell from a position, as the two memcpy calls of
\* buffer_put take it.
LEMMA Distance ==
  ASSUME NEW p \in Index, NEW i \in Index
  PROVE  (i + Size - p) % Size = IF p <= i THEN i - p ELSE i + Size - p
<1> DEFINE x == i + Size - p
<1>1. x \in Nat /\ x < 2 * Size
  BY SizeAssumption DEF Index
<1> HIDE DEF x
<1>2. x % Size = IF x < Size THEN x ELSE x - Size
  BY <1>1, ModOnce
<1> QED BY <1>2, SizeAssumption DEF x, Index

\* buffer_clear empties the stream.
LEMMA ClearedContent ==
  ASSUME NEW b, Consistent(b)
  PROVE  Content(Cleared(b)) = <<>>
<1>1. Consistent(Cleared(b))
  BY ClearedConsistent DEF Consistent
<1>2. Cleared(b).empty
  BY DEF Cleared
<1>3. Length(Cleared(b)) = 0
  BY <1>1, <1>2, LengthIs
<1> QED BY <1>1, <1>3, ContentIs, EmptySeq

\* buffer_put refuses exactly what the bounded stream refuses.
LEMMA CanPutIsFits ==
  ASSUME NEW b, Consistent(b), NEW s \in Seq(Byte)
  PROVE  CanPut(b, s) <=> Len(Content(b)) < Size /\ Len(Content(b)) + Len(s) <= Size
<1>1. b.wp \in Index /\ b.rp \in Index
  BY DEF Consistent, Buffers
<1>2. Len(Content(b)) = Length(b)
  BY ContentIs
<1>3. Len(s) \in Nat /\ (s = <<>> <=> Len(s) = 0)
  BY EmptySeq
<1>4. Length(b) \in 0 .. Size /\ (b.full <=> Length(b) = Size) /\ (b.empty <=> Length(b) = 0)
  BY LengthIs
<1>5. CASE b.full
  BY <1>2, <1>3, <1>4, <1>5, SizeAssumption DEF CanPut
<1>6. CASE b.empty
  <2>1. Room(b) = Size /\ ~b.full
    BY <1>6 DEF Room, Consistent
  <2> QED BY <1>2, <1>3, <1>4, <1>6, <2>1, SizeAssumption DEF CanPut
<1>7. CASE ~b.full /\ ~b.empty
  <2>1. Room(b) = (b.rp + Size - b.wp) % Size
    BY <1>7 DEF Room
  <2>2. b.wp # b.rp
    BY <1>7, LengthIs
  <2>3. Room(b) = IF b.wp <= b.rp THEN b.rp - b.wp ELSE b.rp + Size - b.wp
    BY <1>1, <2>1, Distance
  <2>4. /\ b.wp < b.rp => Length(b) = b.wp + Size - b.rp
        /\ b.rp < b.wp => Length(b) = b.wp - b.rp
    BY LengthIs
  <2>5. Room(b) = Size - Length(b)
    BY <1>1, <2>2, <2>3, <2>4, SizeAssumption DEF Index
  <2> QED BY <1>2, <1>3, <1>4, <1>7, <2>5, SizeAssumption DEF CanPut
<1> QED BY <1>5, <1>6, <1>7

\* The length l between read position r and write position w, while not full.
Apart(N, w, r, l) ==
  /\ w < r => l = w + N - r
  /\ r < w => l = w - r
  /\ w = r => l = 0

\* The same when bytes have just been put there.
Filled(N, w, r, l) ==
  /\ w < r => l = w + N - r
  /\ r < w => l = w - r
  /\ w = r => l = N

\* Position v is k cells behind position p in a ring of N.
Moved(N, p, k, v) == v = IF p + k < N THEN p + k ELSE p + k - N

\* The numbers behind buffer_put: n bytes more make the length n greater, be
\* the write position moved within the ring or around its end.
LEMMA PutLength ==
  ASSUME NEW N \in Nat, NEW w \in 0 .. N - 1, NEW r \in 0 .. N - 1,
         NEW l \in Nat, NEW n \in Nat, n > 0, l + n <= N, Apart(N, w, r, l),
         NEW v \in 0 .. N - 1, Moved(N, w, n, v),
         NEW m \in 0 .. N, Filled(N, v, r, m)
  PROVE  m = l + n
<1>1. CASE w + n < N
  BY <1>1 DEF Apart, Moved, Filled
<1>2. CASE w + n >= N
  BY <1>2 DEF Apart, Moved, Filled
<1> QED BY <1>1, <1>2

\* The i-th unread byte lies at cell x, off cells behind the write position: an
\* old one out of reach of what fits, a new one in the cell of its number.
LEMMA PutOffset ==
  ASSUME NEW N \in Nat, NEW w \in 0 .. N - 1, NEW r \in 0 .. N - 1,
         NEW l \in Nat, l <= N, Apart(N, w, r, l),
         NEW k \in 0 .. N - 1, NEW x \in 0 .. N - 1, Moved(N, r, k, x),
         NEW off \in 0 .. N - 1, Moved(N, w, off, x)
  PROVE  /\ k < l => off >= N - l
         /\ k >= l => off = k - l
<1>1. CASE r + k < N
  BY <1>1 DEF Apart, Moved
<1>2. CASE r + k >= N
  BY <1>2 DEF Apart, Moved
<1> QED BY <1>1, <1>2

\* buffer_put appends: the new bytes come behind all that are unread, in
\* their order, though they may lie on both sides of the ring's end.
LEMMA PutContent ==
  ASSUME NEW b, Consistent(b), NEW s \in Seq(Byte), CanPut(b, s)
  PROVE  Content(PutDone(b, s)) = Content(b) \o s
<1> DEFINE c == PutDone(b, s)
<1>a. b \in Buffers /\ b.wp \in Index /\ b.rp \in Index
  BY DEF Consistent, Buffers
<1>b. Len(s) \in Nat /\ Len(Content(b)) = Length(b)
  BY ContentIs
<1>c. Length(b) \in 0 .. Size /\ Length(b) < Size /\ Length(b) + Len(s) <= Size
  BY <1>b, CanPutIsFits, LengthIs
<1>0. /\ b \in Buffers /\ b.wp \in Index /\ b.rp \in Index
      /\ Len(s) \in Nat /\ Len(Content(b)) = Length(b)
      /\ Length(b) \in 0 .. Size /\ Length(b) < Size /\ Length(b) + Len(s) <= Size
  BY <1>a, <1>b, <1>c
<1>d. b.wp \in 0 .. Size - 1 /\ b.rp \in 0 .. Size - 1 /\ Size \in Nat /\ Size > 0
  BY <1>0, SizeAssumption DEF Index
<1>1. CASE s = <<>>
  BY <1>1, ContentIs, ConcatEmptySeq DEF PutDone
<1>2. CASE s # <<>>
  <2>1. Consistent(c)
    BY PutConsistent
  <2>2. /\ c.wp = (b.wp + Len(s)) % Size /\ c.rp = b.rp /\ c.empty = FALSE
        /\ c.data = [i \in Index |-> IF (i + Size - b.wp) % Size < Len(s)
                                     THEN s[((i + Size - b.wp) % Size) + 1] ELSE b.data[i]]
    BY <1>2 DEF PutDone
  <2>3. Len(s) > 0 /\ Len(s) <= Size
    BY <1>0, <1>2, EmptySeq, SizeAssumption
  <2>4. c.wp \in Index /\ c.wp = IF b.wp + Len(s) < Size THEN b.wp + Len(s) ELSE b.wp + Len(s) - Size
    BY <1>0, <2>2, <2>3, Wrapped
  <2>5. Apart(Size, b.wp, b.rp, Length(b))
    BY <1>0, LengthIs, SizeAssumption DEF Index, Apart
  <2>6. Length(c) = Length(b) + Len(s)
    <3>1. Length(c) \in 0 .. Size /\ Length(c) # 0 /\ (c.wp = c.rp => Length(c) = Size)
      BY <2>1, <2>2, LengthIs DEF Consistent
    <3>2. /\ c.wp < c.rp => Length(c) = c.wp + Size - c.rp
          /\ c.rp < c.wp => Length(c) = c.wp - c.rp
      BY <2>1, LengthIs
    <3>3. c.rp = b.rp /\ c.wp \in 0 .. Size - 1
      BY <2>2, <2>4 DEF Index
    <3>4. Moved(Size, b.wp, Len(s), c.wp)
      BY <2>4 DEF Moved
    <3> HIDE DEF c
    <3>5. Filled(Size, c.wp, b.rp, Length(c))
      BY <1>d, <3>1, <3>2, <3>3 DEF Filled
    <3>6. Length(b) \in Nat /\ Length(c) \in 0 .. Size
      BY <1>c, <3>1
    <3>7. Len(s) \in Nat /\ Len(s) > 0 /\ Length(b) + Len(s) <= Size
      BY <1>b, <1>c, <2>3
    <3>8. Size \in Nat /\ b.wp \in 0 .. Size - 1 /\ b.rp \in 0 .. Size - 1
      BY <1>d
    <3> DEFINE lc == Length(c)
               lb == Length(b)
               n == Len(s)
               w == b.wp
               r == b.rp
               v == c.wp
    <3>9. /\ Size \in Nat /\ w \in 0 .. Size - 1 /\ r \in 0 .. Size - 1
          /\ n \in Nat /\ n > 0 /\ lb \in Nat /\ lb + n <= Size /\ Apart(Size, w, r, lb)
          /\ v \in 0 .. Size - 1 /\ Moved(Size, w, n, v)
          /\ lc \in 0 .. Size /\ Filled(Size, v, r, lc)
      BY <2>5, <3>3, <3>4, <3>5, <3>6, <3>7, <3>8
    <3> HIDE DEF lc, lb, n, w, r, v
    <3>10. lc = lb + n
      BY <3>9, PutLength
    <3> QED BY <3>10 DEF lc, lb, n
  <2>7. Content(c) \in Seq(Byte) /\ Len(Content(c)) = Length(c)
        /\ \A i \in 1 .. Length(c) : Content(c)[i] = c.data[(c.rp + i - 1) % Size]
    BY <2>1, ContentIs
  <2>8. /\ Content(b) \in Seq(Byte) /\ Content(b) \o s \in Seq(Byte)
        /\ Len(Content(b) \o s) = Length(b) + Len(s)
        /\ \A i \in 1 .. Length(b) + Len(s) : (Content(b) \o s)[i] =
             IF i <= Length(b) THEN Content(b)[i] ELSE s[i - Length(b)]
    <3>1. /\ Content(b) \in Seq(Byte) /\ Content(b) \o s \in Seq(Byte)
          /\ Len(Content(b) \o s) = Len(Content(b)) + Len(s)
          /\ \A i \in 1 .. Len(Content(b)) + Len(s) : (Content(b) \o s)[i] =
               IF i <= Len(Content(b)) THEN Content(b)[i] ELSE s[i - Len(Content(b))]
      BY ContentIs, ConcatProperties
    <3> QED BY <1>b, <3>1
  <2>9. ASSUME NEW i \in 1 .. Length(b) + Len(s)
        PROVE  Content(c)[i] = (Content(b) \o s)[i]
    <3> DEFINE x == (b.rp + (i - 1)) % Size
    <3>1. i - 1 \in Nat /\ i - 1 <= Size /\ b.rp + i - 1 = b.rp + (i - 1)
      BY <1>0, SizeAssumption DEF Index
    <3>2. x \in Index /\ x = IF b.rp + (i - 1) < Size THEN b.rp + (i - 1) ELSE b.rp + (i - 1) - Size
      BY <1>0, <3>1, Wrapped
    <3>3. Content(c)[i] = c.data[x]
      BY <2>2, <2>6, <2>7, <3>1
    <3> HIDE DEF x
    <3>4. (x + Size - b.wp) % Size = IF b.wp <= x THEN x - b.wp ELSE x + Size - b.wp
      BY <1>0, <3>2, Distance
    <3> DEFINE off == (x + Size - b.wp) % Size
    <3>5. c.data[x] = IF off < Len(s) THEN s[off + 1] ELSE b.data[x]
      BY <2>2, <3>2
    <3>6. off = IF b.wp <= x THEN x - b.wp ELSE x + Size - b.wp
      BY <3>4
    <3> HIDE DEF off
    <3>a. off \in 0 .. Size - 1 /\ x \in 0 .. Size - 1 /\ Moved(Size, b.wp, off, x)
      <4>1. x \in 0 .. Size - 1
        BY <3>2 DEF Index
      <4>2. off \in 0 .. Size - 1
        BY <1>d, <3>6, <4>1, SMTT(30)
      <4>3. Size \in Nat /\ b.wp \in 0 .. Size - 1
        BY <1>d
      <4>4. Moved(Size, b.wp, off, x)
        <5> DEFINE w == b.wp
        <5>1. /\ Size \in Nat /\ w \in 0 .. Size - 1 /\ x \in 0 .. Size - 1
              /\ off = IF w <= x THEN x - w ELSE x + Size - w
          BY <3>6, <4>1, <4>3
        <5> HIDE DEF w
        <5>2. x = IF w + off < Size THEN w + off ELSE w + off - Size
          BY <5>1
        <5> QED BY <5>2 DEF Moved, w
      <4> QED BY <4>1, <4>2, <4>4
    <3>b. Length(b) \in Nat /\ Length(b) <= Size /\ i - 1 \in 0 .. Size - 1
      BY <1>b, <1>c, <1>d
    <3>c. Moved(Size, b.rp, i - 1, x)
      BY <3>2 DEF Moved
    <3>d. (i - 1 < Length(b) => off >= Size - Length(b)) /\ (i - 1 >= Length(b) => off = i - 1 - Length(b))
      <4> DEFINE lb == Length(b)
                 w == b.wp
                 r == b.rp
                 k == i - 1
      <4>1. /\ Size \in Nat /\ w \in 0 .. Size - 1 /\ r \in 0 .. Size - 1
            /\ lb \in Nat /\ lb <= Size /\ Apart(Size, w, r, lb)
            /\ k \in 0 .. Size - 1 /\ x \in 0 .. Size - 1 /\ Moved(Size, r, k, x)
            /\ off \in 0 .. Size - 1 /\ Moved(Size, w, off, x)
        BY <1>d, <2>5, <3>a, <3>b, <3>c
      <4> HIDE DEF lb, w, r, k
      <4>2. (k < lb => off >= Size - lb) /\ (k >= lb => off = k - lb)
        BY <4>1, PutOffset
      <4> QED BY <4>2 DEF lb, k
    <3>7. CASE i <= Length(b)
      <4>1. off >= Len(s)
        BY <1>b, <1>c, <1>d, <3>7, <3>a, <3>d
      <4>3. c.data[x] = b.data[x]
        BY <1>b, <3>5, <3>a, <4>1
      <4>4. Content(b)[i] = b.data[x]
        BY <1>0, <3>1, <3>7, ContentIs DEF x
      <4> QED BY <2>8, <3>3, <3>7, <4>3, <4>4
    <3>8. CASE i > Length(b)
      <4>1. off = i - Length(b) - 1
        BY <1>b, <1>c, <1>d, <3>8, <3>a, <3>d
      <4>2. off < Len(s) /\ off + 1 = i - Length(b)
        BY <1>0, <3>8, <4>1
      <4> QED BY <1>0, <2>8, <3>3, <3>5, <3>8, <4>2
    <3> QED BY <1>0, <3>7, <3>8
  <2> HIDE DEF c
  <2> QED BY <2>6, <2>7, <2>8, <2>9, SameBytes DEF c
<1> QED BY <1>1, <1>2

\* buffer_putchr appends its byte.
LEMMA PutChrContent ==
  ASSUME NEW b, Consistent(b), ~b.full, NEW ch \in Byte
  PROVE  Content(PutChrDone(b, ch)) = Content(b) \o <<ch>>
<1>0. <<ch>> \in Seq(Byte) /\ Len(<<ch>>) = 1 /\ <<ch>>[1] = ch /\ <<ch>> # <<>>
  OBVIOUS
<1>1. b \in Buffers /\ b.wp \in Index /\ b.data \in [Index -> Byte]
  BY DEF Consistent, Buffers
<1>2. Length(b) \in 0 .. Size /\ Length(b) # Size /\ Len(Content(b)) = Length(b)
  BY LengthIs, ContentIs
<1>3. CanPut(b, <<ch>>)
  <2> DEFINE one == <<ch>>
  <2>1. one \in Seq(Byte) /\ Len(one) = 1
    BY <1>0
  <2> HIDE DEF one
  <2>2. CanPut(b, one) <=> Len(Content(b)) < Size /\ Len(Content(b)) + Len(one) <= Size
    BY <2>1, CanPutIsFits
  <2>3. CanPut(b, one)
    BY <1>2, <2>1, <2>2, SizeAssumption
  <2> QED BY <2>3 DEF one
<1>4. ASSUME NEW i \in Index
      PROVE  (IF (i + Size - b.wp) % Size < 1 THEN <<ch>>[((i + Size - b.wp) % Size) + 1] ELSE b.data[i])
               = [b.data EXCEPT ![b.wp] = ch][i]
  <2>1. (i + Size - b.wp) % Size = IF b.wp <= i THEN i - b.wp ELSE i + Size - b.wp
    BY <1>1, Distance
  <2> DEFINE off == (i + Size - b.wp) % Size
  <2>2. off \in Int /\ off >= 0 /\ (off < 1 <=> i = b.wp) /\ (off < 1 => off = 0)
    <3>1. off = IF b.wp <= i THEN i - b.wp ELSE i + Size - b.wp
      BY <2>1
    <3> HIDE DEF off
    <3> QED BY <1>1, <3>1, SizeAssumption DEF Index
  <2> HIDE DEF off
  <2>3. (IF off < 1 THEN <<ch>>[off + 1] ELSE b.data[i]) = [b.data EXCEPT ![b.wp] = ch][i]
    BY <1>0, <1>1, <2>2
  <2> QED BY <2>3 DEF off
<1>5. [i \in Index |-> IF (i + Size - b.wp) % Size < 1
                       THEN <<ch>>[((i + Size - b.wp) % Size) + 1] ELSE b.data[i]]
        = [b.data EXCEPT ![b.wp] = ch]
  BY <1>1, <1>4
<1>6. PutDone(b, <<ch>>) = PutChrDone(b, ch)
  BY <1>0, <1>5 DEF PutDone, PutChrDone
<1> QED BY <1>0, <1>3, <1>6, PutContent

\* buffer_delete drops bytes from the front, and all of them when the buffer
\* is full: there it takes the distance 0 of the positions for the length.
LEMMA DeletedContent ==
  ASSUME NEW b, Consistent(b), NEW n \in Int
  PROVE  Content(Deleted(b, n)) =
           IF n <= 0 THEN Content(b)
           ELSE IF Len(Content(b)) = Size \/ n >= Len(Content(b)) THEN <<>>
           ELSE SubSeq(Content(b), n + 1, Len(Content(b)))
<1> DEFINE c == Deleted(b, n)
<1>1. /\ b \in Buffers /\ b.wp \in 0 .. Size - 1 /\ b.rp \in 0 .. Size - 1
      /\ Size \in Nat /\ Size > 0
  BY SizeAssumption DEF Consistent, Buffers, Index
<1>2. /\ Len(Content(b)) = Length(b) /\ Length(b) \in 0 .. Size
      /\ (b.full <=> Length(b) = Size) /\ (b.empty <=> Length(b) = 0)
      /\ (~b.empty /\ ~b.full => Length(b) = Gap(b))
      /\ (b.full \/ b.empty => Gap(b) = 0)
  <2>1. b.full \/ b.empty => b.wp = b.rp
    BY DEF Consistent
  <2>2. Gap(b) = IF b.wp < b.rp THEN b.wp + Size - b.rp ELSE b.wp - b.rp
    BY <1>1, GapInRing
  <2>3. b.full \/ b.empty => Gap(b) = 0
    BY <1>1, <2>1, <2>2
  <2> QED BY <2>3, ContentIs, LengthIs
<1>3. CASE n <= 0
  BY <1>3 DEF Deleted
<1>4. CASE n > 0 /\ (Length(b) = Size \/ n >= Length(b))
  <2>1. n >= Gap(b)
    <3>1. CASE b.full \/ b.empty
      BY <1>2, <1>4, <3>1
    <3>2. CASE ~b.full /\ ~b.empty
      BY <1>2, <1>4, <3>2
    <3> QED BY <3>1, <3>2
  <2>2. c = Cleared(b)
    BY <1>4, <2>1 DEF Deleted
  <2> QED BY <1>2, <1>4, <2>2, ClearedContent
<1>5. CASE n > 0 /\ Length(b) # Size /\ n < Length(b)
  <2>1. ~b.full /\ ~b.empty /\ Length(b) = Gap(b)
    BY <1>1, <1>2, <1>5
  <2>2. c = [data |-> b.data, wp |-> b.wp, rp |-> (b.rp + n) % Size,
             full |-> FALSE, empty |-> b.empty]
    BY <1>2, <1>5, <2>1 DEF Deleted
  <2>3. c.data = b.data /\ c.wp = b.wp /\ c.rp = (b.rp + n) % Size /\ ~c.full /\ ~c.empty
    BY <2>1, <2>2
  <2>4. n \in Nat /\ n <= Size
    BY <1>1, <1>2, <1>5
  <2>5. c.rp \in 0 .. Size - 1 /\ Moved(Size, b.rp, n, c.rp)
    BY <1>1, <2>3, <2>4, Wrapped DEF Index, Moved
  <2>6. Consistent(c)
    BY DeletedConsistent
  <2>7. /\ Apart(Size, b.wp, b.rp, Length(b)) /\ Apart(Size, b.wp, c.rp, Length(c))
        /\ b.wp # b.rp /\ b.wp # c.rp
    BY <2>1, <2>3, <2>6, LengthIs DEF Apart
  <2>8. Length(c) \in 0 .. Size
    BY <2>6, LengthIs
  <2>9. Length(c) = Length(b) - n
    <3> DEFINE lb == Length(b)
               lc == Length(c)
               w == b.wp
               r == b.rp
               q == c.rp
    <3>1. /\ w \in 0 .. Size - 1 /\ r \in 0 .. Size - 1 /\ q \in 0 .. Size - 1
          /\ Size \in Nat /\ lb \in 0 .. Size /\ lc \in 0 .. Size /\ n > 0 /\ n < lb
          /\ Apart(Size, w, r, lb) /\ Apart(Size, w, q, lc) /\ w # r /\ w # q
          /\ Moved(Size, r, n, q)
      BY <1>1, <1>2, <1>5, <2>5, <2>7, <2>8
    <3> HIDE DEF lb, lc, w, r, q
    <3>2. lc = lb - n
      BY <3>1 DEF Apart, Moved
    <3> QED BY <3>2 DEF lb, lc
  <2>10. /\ Content(b) \in Seq(Byte)
         /\ \A i \in 1 .. Length(b) : Content(b)[i] = b.data[(b.rp + i - 1) % Size]
         /\ Content(c) \in Seq(Byte) /\ Len(Content(c)) = Length(c)
         /\ \A i \in 1 .. Length(c) : Content(c)[i] = b.data[(c.rp + i - 1) % Size]
    BY <2>3, <2>6, ContentIs
  <2> DEFINE t == SubSeq(Content(b), n + 1, Length(b))
  <2>11. /\ t \in Seq(Byte) /\ Len(t) = Length(b) - n
         /\ \A i \in 1 .. Length(b) - n : t[i] = Content(b)[n + i]
    BY <1>2, <1>5, <2>4, <2>10
  <2>12. ASSUME NEW i \in 1 .. Length(b) - n
         PROVE  Content(c)[i] = t[i]
    <3> DEFINE y == (c.rp + (i - 1)) % Size
               z == (b.rp + (n + i - 1)) % Size
    <3>1. i - 1 \in Nat /\ i - 1 <= Size /\ n + i - 1 \in Nat /\ n + i - 1 <= Size
      BY <1>1, <1>2, <2>4
    <3>2. y \in 0 .. Size - 1 /\ Moved(Size, c.rp, i - 1, y)
      BY <2>5, <3>1, Wrapped DEF Index, Moved
    <3>3. z \in 0 .. Size - 1 /\ Moved(Size, b.rp, n + i - 1, z)
      BY <1>1, <3>1, Wrapped DEF Index, Moved
    <3>4. Content(c)[i] = b.data[y]
      <4>1. c.rp + i - 1 = c.rp + (i - 1)
        BY <2>5, <3>1
      <4> QED BY <2>9, <2>10, <4>1
    <3>5. t[i] = b.data[z]
      <4>1. n + i \in 1 .. Length(b) /\ b.rp + (n + i) - 1 = b.rp + (n + i - 1)
        BY <1>1, <1>2, <2>4
      <4> QED BY <2>10, <2>11, <4>1
    <3> HIDE DEF y, z
    <3>6. y = z
      <4> DEFINE r == b.rp
                 q == c.rp
                 lb == Length(b)
      <4>1. /\ r \in 0 .. Size - 1 /\ q \in 0 .. Size - 1 /\ lb \in 0 .. Size /\ i \in 1 .. lb - n
            /\ Moved(Size, r, n, q) /\ Moved(Size, q, i - 1, y) /\ Moved(Size, r, n + i - 1, z)
        BY <1>1, <1>2, <2>5, <3>2, <3>3
      <4> HIDE DEF r, q, lb
      <4> QED BY <1>1, <2>4, <3>2, <3>3, <4>1 DEF Moved
    <3> QED BY <3>4, <3>5, <3>6
  <2>13. Content(c) = t
    <3> HIDE DEF c, t
    <3> QED BY <2>9, <2>10, <2>11, <2>12, SameBytes
  <2> QED BY <1>2, <1>5, <2>13
<1> QED BY <1>2, <1>3, <1>4, <1>5

\* buffer_peek and buffer_get copy out what is at the front of the stream.
LEMMA PeekedIsPrefix ==
  ASSUME NEW b, Consistent(b), NEW n \in Nat
  PROVE  Peeked(b, n) = SubSeq(Content(b), 1, IF n < Len(Content(b)) THEN n ELSE Len(Content(b)))
<1> DEFINE m == AtMost(n, Length(b))
           t == SubSeq(Content(b), 1, m)
<1>1. /\ Content(b) \in Seq(Byte) /\ Len(Content(b)) = Length(b) /\ Length(b) \in Nat
      /\ \A i \in 1 .. Length(b) : Content(b)[i] = b.data[(b.rp + i - 1) % Size]
  BY ContentIs, LengthIs, SizeAssumption
<1>2. m \in 0 .. Length(b) /\ m = IF n < Len(Content(b)) THEN n ELSE Len(Content(b))
  BY <1>1 DEF AtMost
<1> HIDE DEF m
<1>3. t = [i \in 1 .. m |-> Content(b)[i]]
  BY <1>1, <1>2
<1>4. Peeked(b, n) = [i \in 1 .. m |-> b.data[(b.rp + i - 1) % Size]]
  BY DEF Peeked, m
<1>5. \A i \in 1 .. m : Content(b)[i] = b.data[(b.rp + i - 1) % Size]
  BY <1>1, <1>2
<1>6. Peeked(b, n) = t
  BY <1>3, <1>4, <1>5, Zenon
<1> QED BY <1>2, <1>6

-----------------------------------------------------------------------------
\* A fresh buffer is an empty stream.
LEMMA InitStream == Init => Stream!Init
<1> SUFFICES ASSUME Init PROVE Stream!Init
  OBVIOUS
<1>1. Consistent(buf)
  BY InitConsistent
<1>2. buf.empty
  BY DEF Init, FreshBuffers
<1>3. Length(buf) = 0
  BY <1>1, <1>2, LengthIs
<1>4. Content(buf) = <<>>
  BY <1>1, <1>3, ContentIs, EmptySeq
<1> QED BY <1>4 DEF Init, Stream!Init, Call, Stream!Call

\* Each call of a buffer function does to the stream what ByteStream promises,
\* with the same return code and the same bytes handed out.
LEMMA NextStream ==
  ASSUME Consistent(buf), [Next]_vars
  PROVE  [Stream!Next]_<<Content(buf), call>>
<1>0. Content(buf) \in Seq(Byte) /\ Len(Content(buf)) = Length(buf) /\ Length(buf) \in 0 .. Size
  BY ContentIs, LengthIs
<1>1. ASSUME NEW s \in Writes, Put(s)
      PROVE  Stream!Put(s)
  <2>1. s \in Seq(Byte)
    BY WritesAreSequences
  <2>2. CanPut(buf, s) <=> Stream!Fits(s)
    BY <2>1, CanPutIsFits DEF Stream!Fits
  <2>3. CASE CanPut(buf, s) /\ buf' = PutDone(buf, s) /\ call' = Call("put", s, 0, <<>>)
    <3>1. Content(buf)' = Content(buf) \o s
      BY <2>1, <2>3, PutContent
    <3> QED BY <2>2, <2>3, <3>1 DEF Stream!Put, Call, Stream!Call
  <2>4. CASE ~CanPut(buf, s) /\ call' = Call("put", s, -1, <<>>) /\ UNCHANGED buf
    <3>1. Content(buf)' = Content(buf)
      BY <2>4
    <3> QED BY <2>2, <2>4, <3>1 DEF Stream!Put, Call, Stream!Call
  <2> QED BY <1>1, <2>3, <2>4 DEF Put
<1>2. ASSUME NEW ch \in Byte, PutChr(ch)
      PROVE  Stream!Put(<<ch>>)
  <2>1. <<ch>> \in Seq(Byte) /\ Len(<<ch>>) = 1
    OBVIOUS
  <2>2. buf.full <=> Length(buf) = Size
    BY LengthIs
  <2>3. ~buf.full <=> Stream!Fits(<<ch>>)
    BY <1>0, <2>1, <2>2, SizeAssumption DEF Stream!Fits
  <2>4. CASE ~buf.full /\ buf' = PutChrDone(buf, ch) /\ call' = Call("put", <<ch>>, 0, <<>>)
    <3>1. Content(buf)' = Content(buf) \o <<ch>>
      BY <2>4, PutChrContent
    <3> QED BY <2>3, <2>4, <3>1 DEF Stream!Put, Call, Stream!Call
  <2>5. CASE buf.full /\ call' = Call("put", <<ch>>, -1, <<>>) /\ UNCHANGED buf
    <3>1. Content(buf)' = Content(buf)
      BY <2>5
    <3> QED BY <2>3, <2>5, <3>1 DEF Stream!Put, Call, Stream!Call
  <2> QED BY <1>2, <2>4, <2>5 DEF PutChr
<1>3. ASSUME NEW ch \in Byte
      PROVE  <<ch>> \in Stream!Writes
  <2>1. 1 \in 0 .. MaxWrite /\ <<ch>> \in [1 .. 1 -> Byte]
    BY MaxWriteAssumption
  <2> QED BY <2>1 DEF Stream!Writes
<1>4. ASSUME NEW n \in 0 .. Size + 1, Delete(n)
      PROVE  Stream!Delete(n)
  <2>1. Content(buf)' = Stream!Without(n)
    BY <1>4, DeletedContent DEF Delete, Stream!Without, Stream!Remaining
  <2> QED BY <1>4, <2>1 DEF Delete, Stream!Delete, Call, Stream!Call
<1>5. ASSUME NEW n \in 0 .. Size + 1, Get(n)
      PROVE  Stream!Get(n)
  <2> DEFINE m == AtMost(n, Length(buf))
  <2>1. m \in Int /\ m = IF n < Length(buf) THEN n ELSE Length(buf)
    BY <1>0 DEF AtMost
  <2>2. Content(buf)' = Content(Deleted(buf, m))
    BY <1>5 DEF Get
  <2> HIDE DEF m
  <2>3. Content(Deleted(buf, m)) = Stream!Without(n)
    <3>1. Content(Deleted(buf, m)) =
            IF m <= 0 THEN Content(buf)
            ELSE IF Len(Content(buf)) = Size \/ m >= Len(Content(buf)) THEN <<>>
            ELSE SubSeq(Content(buf), m + 1, Len(Content(buf)))
      BY <2>1, DeletedContent
    <3>2. Length(buf) = 0 => Content(buf) = <<>>
      BY <1>0, EmptySeq
    <3>3. CASE n < Length(buf)
      BY <1>0, <2>1, <3>1, <3>3 DEF Stream!Without, Stream!Remaining
    <3>4. CASE n >= Length(buf) /\ Length(buf) = 0
      BY <1>0, <2>1, <3>1, <3>2, <3>4 DEF Stream!Without, Stream!Remaining
    <3>5. CASE n >= Length(buf) /\ Length(buf) # 0
      BY <1>0, <2>1, <3>1, <3>5 DEF Stream!Without, Stream!Remaining
    <3> QED BY <1>0, <3>3, <3>4, <3>5
  <2>4. Peeked(buf, n) = Stream!Prefix(n)
    BY PeekedIsPrefix, SizeAssumption DEF Stream!Prefix
  <2> QED BY <1>5, <2>2, <2>3, <2>4 DEF Get, Stream!Get, Call, Stream!Call
<1>6. ASSUME GetChr
      PROVE  Stream!GetChr
  <2>1. buf.empty <=> Content(buf) = <<>>
    BY <1>0, LengthIs, EmptySeq
  <2>2. CASE buf.empty /\ call' = Call("getchr", 1, -1, <<>>) /\ UNCHANGED buf
    <3>1. Content(buf)' = Content(buf)
      BY <2>2
    <3> QED BY <2>1, <2>2, <3>1 DEF Stream!GetChr, Call, Stream!Call
  <2>3. CASE ~buf.empty /\ call' = Call("getchr", 1, 0, Peeked(buf, 1)) /\ buf' = Deleted(buf, 1)
    <3>1. Content(buf)' = Stream!Without(1)
      BY <2>3, DeletedContent DEF Stream!Without, Stream!Remaining
    <3>2. Peeked(buf, 1) = Stream!Prefix(1)
      BY PeekedIsPrefix DEF Stream!Prefix
    <3> QED BY <2>1, <2>3, <3>1, <3>2 DEF Stream!GetChr, Call, Stream!Call
  <2> QED BY <1>6, <2>2, <2>3 DEF GetChr
<1>7. ASSUME Clear
      PROVE  Stream!Clear
  BY <1>7, ClearedContent DEF Clear, Stream!Clear, Call, Stream!Call
<1>8. CASE UNCHANGED vars
  BY <1>8 DEF vars
<1>9. ASSUME NEW s \in Writes
      PROVE  s \in Stream!Writes
  BY <1>9 DEF Writes, Stream!Writes
<1> QED BY <1>1, <1>2, <1>3, <1>4, <1>5, <1>6, <1>7, <1>8, <1>9 DEF Next, Stream!Next

\* For every size, alphabet and sequence of calls, what a user of buffer.c sees
\* is a bounded first-in first-out stream with all-or-nothing writes, which
\* loses bytes only when it is cleared or any are taken while it is full.
THEOREM BufferImplementsStream == Spec => ImplementsStream
<1>1. Init => Stream!Init
  BY InitStream
<1>2. Consistent(buf) /\ [Next]_vars => [Stream!Next]_<<Content(buf), call>>
  BY NextStream
<1> QED BY <1>1, <1>2, InitConsistent, NextConsistent, PTL DEF Spec, ImplementsStream, Stream!Spec
=============================================================================
