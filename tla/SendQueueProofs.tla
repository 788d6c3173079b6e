--------------------------- MODULE SendQueueProofs ---------------------------
(***************************************************************************)
(* Proofs about the way of a line from a plugin to the kernel: the pace of *)
(* the queue, and that no line is lost, doubled or overtaken.              *)
(***************************************************************************)
EXTENDS SendQueue, ListProofs

\* What is proved about the buffer holds for the ring bs->sendbuf.
BP == INSTANCE BufferProofs
        WITH Byte <- 0 .. MaxLines, MaxWrite <- Size, buf <- ring, call <- made

Line == [id : 1 .. MaxLines, len : 1 .. Size]

\* A ring whose positions and flags agree.
Consistent(b) ==
  /\ b \in B!Buffers
  /\ ~(b.full /\ b.empty)
  /\ (b.wp = b.rp) <=> (b.full \/ b.empty)

\* What sending works on.
Sending == [queue : Seq(Line), ring : B!Buffers, since : 0 .. IdleCap - 1, want : BOOLEAN,
            idle : 0 .. IdleCap, gap : 0 .. IdleCap, lossy : BOOLEAN]

-----------------------------------------------------------------------------
(* The facts about buffers, for the ring.                                   *)

\* The ring is a buffer as those of BufferProofs are.
LEMMA RingIsBuffer ==
  ASSUME NEW b
  PROVE  /\ Consistent(b) <=> BP!Consistent(b)
         /\ B!Content(b) = BP!Content(b) /\ B!Length(b) = BP!Length(b)
         /\ B!Span(b) = BP!Span(b) /\ B!Cleared(b) = BP!Cleared(b)
         /\ \A s : B!CanPut(b, s) <=> BP!CanPut(b, s)
         /\ \A s : B!PutDone(b, s) = BP!PutDone(b, s)
         /\ \A n : B!Deleted(b, n) = BP!Deleted(b, n)
<1>1. Consistent(b) <=> BP!Consistent(b)
  BY Zenon DEF Consistent, BP!Consistent, B!Buffers, BP!Buffers, B!Index, BP!Index, Byte
<1>2. B!Length(b) = BP!Length(b)
  BY Zenon DEF B!Length, BP!Length, B!Gap, BP!Gap
<1>3. B!Content(b) = BP!Content(b)
  BY <1>2, Zenon DEF B!Content, BP!Content
<1>4. B!Span(b) = BP!Span(b) /\ B!Cleared(b) = BP!Cleared(b)
  BY Zenon DEF B!Span, BP!Span, B!Gap, BP!Gap, B!Cleared, BP!Cleared
<1>5. \A s : B!CanPut(b, s) <=> BP!CanPut(b, s)
  BY Zenon DEF B!CanPut, BP!CanPut, B!Room, BP!Room
<1>6. \A s : B!PutDone(b, s) = BP!PutDone(b, s)
  BY Zenon DEF B!PutDone, BP!PutDone, B!Index, BP!Index
<1>7. \A n : B!Deleted(b, n) = BP!Deleted(b, n)
  BY <1>4, Zenon DEF B!Deleted, BP!Deleted, B!Gap, BP!Gap
<1> QED BY <1>1, <1>2, <1>3, <1>4, <1>5, <1>6, <1>7, Zenon

\* A write that fits puts its bytes behind the others and leaves rp alone.
LEMMA RingPut ==
  ASSUME NEW b, Consistent(b), NEW s \in Seq(Byte), B!CanPut(b, s)
  PROVE  /\ Consistent(B!PutDone(b, s))
         /\ B!Content(B!PutDone(b, s)) = B!Content(b) \o s
         /\ B!PutDone(b, s).rp = b.rp
<1>1. BP!Consistent(b) /\ BP!CanPut(b, s) /\ s \in Seq(0 .. MaxLines)
  BY RingIsBuffer, Zenon DEF Byte
<1>2. BP!Content(BP!PutDone(b, s)) = BP!Content(b) \o s
  BY <1>1, BP!PutContent, SendQueueAssumption
<1>3. BP!Consistent(BP!PutDone(b, s))
  BY <1>1, BP!PutConsistent, SendQueueAssumption
<1>4. B!PutDone(b, s).rp = b.rp
  BY DEF B!PutDone
<1> QED BY <1>2, <1>3, <1>4, RingIsBuffer, Zenon

\* A cleared ring has no bytes, and starts at 0.
LEMMA RingCleared ==
  ASSUME NEW b, Consistent(b)
  PROVE  /\ Consistent(B!Cleared(b))
         /\ B!Content(B!Cleared(b)) = <<>>
         /\ B!Cleared(b).rp = 0
<1>1. BP!Consistent(b) /\ b \in BP!Buffers
  BY RingIsBuffer, Zenon DEF BP!Consistent
<1>2. BP!Content(BP!Cleared(b)) = <<>>
  BY <1>1, BP!ClearedContent, SendQueueAssumption
<1>3. BP!Consistent(BP!Cleared(b))
  BY <1>1, BP!ClearedConsistent, SendQueueAssumption
<1>4. B!Cleared(b).rp = 0
  BY DEF B!Cleared
<1> QED BY <1>2, <1>3, <1>4, RingIsBuffer, Zenon

\* The content of the ring is a sequence of bytes.
LEMMA RingContent ==
  ASSUME NEW b, Consistent(b)
  PROVE  /\ B!Content(b) \in Seq(Byte)
         /\ Len(B!Content(b)) = B!Length(b)
         /\ B!Length(b) \in 0 .. Size
         /\ \A i \in 1 .. B!Length(b) : B!Content(b)[i] = b.data[(b.rp + i - 1) % Size]
<1>1. BP!Consistent(b)
  BY RingIsBuffer
<1>2. /\ BP!Content(b) \in Seq(0 .. MaxLines)
      /\ Len(BP!Content(b)) = BP!Length(b)
      /\ \A i \in 1 .. BP!Length(b) : BP!Content(b)[i] = b.data[(b.rp + i - 1) % Size]
  BY <1>1, BP!ContentIs, SendQueueAssumption
<1>3. BP!Length(b) \in 0 .. Size
  BY <1>1, BP!LengthIs, SendQueueAssumption
<1> QED BY <1>2, <1>3, RingIsBuffer, Zenon DEF Byte

-----------------------------------------------------------------------------
(* The bytes of lines.                                                      *)

\* The bytes of a line.
LEMMA BytesType ==
  ASSUME NEW l \in Line
  PROVE  Bytes(l) \in Seq(Byte) /\ Len(Bytes(l)) = l.len
<1>1. l.len \in Nat /\ l.id \in Byte
  BY SendQueueAssumption DEF Line, Byte
<1> QED BY <1>1 DEF Bytes

\* The lists of bytes that Flat puts behind one another.
Parts(lines) == [i \in 1 .. Len(lines) |-> Bytes(lines[i])]

\* There is one for each line.
LEMMA PartsType ==
  ASSUME NEW lines \in Seq(Line)
  PROVE  /\ Parts(lines) \in Seq(Seq(Byte))
         /\ Len(Parts(lines)) = Len(lines)
         /\ \A i \in 1 .. Len(lines) : Parts(lines)[i] = Bytes(lines[i])
<1> DEFINE N == Len(lines)
<1>1. N \in Nat /\ \A i \in 1 .. N : Bytes(lines[i]) \in Seq(Byte)
  BY LenProperties, ElementOfSeq, BytesType
<1>2. Parts(lines) = [i \in 1 .. N |-> Bytes(lines[i])]
  BY DEF Parts
<1> HIDE DEF N
<1>3. Parts(lines) \in [1 .. N -> Seq(Byte)]
  BY <1>1, <1>2
<1>4. Parts(lines) \in Seq(Seq(Byte)) /\ Len(Parts(lines)) = N
  BY <1>1, <1>3, LenProperties
<1> QED BY <1>2, <1>4 DEF N

\* A line more comes last.
LEMMA FlatAppend ==
  ASSUME NEW lines \in Seq(Line), NEW l \in Line
  PROVE  Flat(Append(lines, l)) = Flat(lines) \o Bytes(l)
<1> DEFINE more == Append(lines, l)
           N == Len(lines)
           M == Len(more)
           p == Parts(lines)
           q == Parts(more)
           r == Append(p, Bytes(l))
<1>1. /\ more \in Seq(Line) /\ M = N + 1 /\ N \in Nat /\ more[N + 1] = l
      /\ \A i \in 1 .. N : more[i] = lines[i]
  BY AppendProperties, LenProperties
<1>2. /\ p \in Seq(Seq(Byte)) /\ Len(p) = N /\ \A i \in 1 .. N : p[i] = Bytes(lines[i])
  BY PartsType
<1>3. /\ q \in Seq(Seq(Byte)) /\ Len(q) = M /\ \A i \in 1 .. M : q[i] = Bytes(more[i])
  <2>1. more \in Seq(Line)
    BY <1>1
  <2> HIDE DEF more
  <2> QED BY <2>1, PartsType
<1>4. Bytes(l) \in Seq(Byte)
  BY BytesType
<1>5. FlattenSeq(r) = FlattenSeq(p) \o Bytes(l)
  <2> HIDE DEF p
  <2> QED BY <1>2, <1>4, FlattenAppend
<1> HIDE DEF more, N, M, p, q
<1>6. r \in Seq(Seq(Byte)) /\ Len(r) = N + 1 /\ r[N + 1] = Bytes(l) /\ \A i \in 1 .. N : r[i] = p[i]
  BY <1>2, <1>4, AppendProperties
<1>7. r = q
  <2> HIDE DEF r
  <2>1. \A i \in 1 .. N + 1 : i = N + 1 \/ i \in 1 .. N
    BY <1>1
  <2>2. \A i \in 1 .. N + 1 : r[i] = q[i]
    BY <1>1, <1>2, <1>3, <1>6, <2>1
  <2> QED BY <1>1, <1>3, <1>6, <2>2, SeqEqual
<1> QED BY <1>5, <1>7, Zenon DEF Flat, Parts, p, q, more

\* The line at the head comes first.
LEMMA FlatHeadTail ==
  ASSUME NEW lines \in Seq(Line), lines # <<>>
  PROVE  Flat(lines) = Bytes(Head(lines)) \o Flat(Tail(lines))
<1> DEFINE rest == Tail(lines)
           N == Len(lines)
           M == Len(rest)
           p == Parts(lines)
           q == Parts(rest)
           r == Tail(p)
<1>1. /\ rest \in Seq(Line) /\ N = M + 1 /\ M \in Nat /\ N \in Nat /\ Head(lines) = lines[1]
      /\ \A i \in 1 .. M : rest[i] = lines[i + 1]
  BY EmptySeq, LenProperties, HeadTailProperties
<1>2. /\ p \in Seq(Seq(Byte)) /\ Len(p) = N /\ \A i \in 1 .. N : p[i] = Bytes(lines[i])
  BY PartsType
<1>3. /\ q \in Seq(Seq(Byte)) /\ Len(q) = M /\ \A i \in 1 .. M : q[i] = Bytes(rest[i])
  <2>1. rest \in Seq(Line)
    BY <1>1
  <2> HIDE DEF rest
  <2> QED BY <2>1, PartsType
<1>a. p # <<>>
  <2> HIDE DEF p, N, M
  <2> QED BY <1>1, <1>2, EmptySeq
<1>5. FlattenSeq(p) = Head(p) \o FlattenSeq(r)
  <2> HIDE DEF p
  <2> QED BY <1>2, <1>a, FlattenHeadTail
<1> HIDE DEF rest, N, M, p, q
<1>6. r \in Seq(Seq(Byte)) /\ Len(r) = M /\ Head(p) = Bytes(Head(lines)) /\ \A i \in 1 .. M : r[i] = p[i + 1]
  <2>1. Head(p) = p[1] /\ p[1] = Bytes(lines[1])
    BY <1>1, <1>2, HeadTailProperties, EmptySeq, <1>a
  <2>2. Len(r) = Len(p) - 1 /\ r \in Seq(Seq(Byte)) /\ \A i \in 1 .. Len(r) : r[i] = p[i + 1]
    BY <1>2, <1>a, HeadTailProperties, EmptySeq
  <2> HIDE DEF r
  <2> QED BY <1>1, <1>2, <2>1, <2>2
<1>7. r = q
  <2> HIDE DEF r
  <2>2. \A i \in 1 .. M : r[i] = q[i]
    <3> TAKE i \in 1 .. M
    <3>1. i + 1 \in 1 .. N
      BY <1>1
    <3>2. p[i + 1] = Bytes(lines[i + 1]) /\ r[i] = p[i + 1] /\ q[i] = Bytes(rest[i]) /\ rest[i] = lines[i + 1]
      BY <1>1, <1>2, <1>3, <1>6, <3>1, Zenon
    <3> QED BY <3>2
  <2> QED BY <1>1, <1>3, <1>6, <2>2, SeqEqual
<1> QED BY <1>5, <1>6, <1>7, Zenon DEF Flat, Parts, p, q, rest

\* No lines have no bytes.
LEMMA FlatEmpty == Flat(<<>>) = <<>>
<1>1. Parts(<<>>) = <<>>
  BY DEF Parts
<1>2. Len(<<>>) = 0 /\ <<>> \in Seq(Seq(Byte))
  OBVIOUS
<1>3. FlattenSeq(<<>>) = <<>>
  BY <1>2, FlattenedIs
<1> QED BY <1>1, <1>3, Zenon DEF Flat, Parts

\* Bytes put behind one another may be grouped at will.
Groups(s, t, u) == (s \o t) \o u = s \o (t \o u)

\* For bytes of one alphabet this is so.
LEMMA Grouped ==
  ASSUME NEW s \in Seq(Byte), NEW t \in Seq(Byte), NEW u \in Seq(Byte)
  PROVE  Groups(s, t, u) /\ s \o t \in Seq(Byte)
BY ConcatAssociative, ConcatProperties DEF Groups

\* The bytes of lines are bytes.
LEMMA FlatType ==
  ASSUME NEW lines \in Seq(Line)
  PROVE  Flat(lines) \in Seq(Byte)
<1> DEFINE p == Parts(lines)
<1>1. p \in Seq(Seq(Byte))
  BY PartsType
<1>2. FlattenSeq(p) \in Seq(Byte)
  <2> HIDE DEF p
  <2> QED BY <1>1, FlattenType
<1> QED BY <1>2, Zenon DEF Flat, Parts

-----------------------------------------------------------------------------
(* What one sending does.                                                   *)

\* irc_sendbuf_now puts the line behind what the ring has, or loses it.
LEMMA SendNowIs ==
  ASSUME NEW c \in Sending, Consistent(c.ring), NEW l \in Line, NEW open \in BOOLEAN
  PROVE  LET d == SendNow(c, l, open)
         IN  /\ d \in Sending /\ Consistent(d.ring)
             /\ d.queue = c.queue /\ d.since = 0 /\ d.idle = 0 /\ d.gap = c.idle
             /\ d.ring.rp = c.ring.rp
             /\ ~d.lossy => ~c.lossy /\ B!Content(d.ring) = B!Content(c.ring) \o Bytes(l)
<1> DEFINE fits == B!CanPut(c.ring, Bytes(l))
           new == B!PutDone(c.ring, Bytes(l))
           ring2 == IF fits THEN new ELSE c.ring
           d == SendNow(c, l, open)
<1>1. fits => /\ Consistent(new) /\ new.rp = c.ring.rp
              /\ B!Content(new) = B!Content(c.ring) \o Bytes(l)
  BY BytesType, RingPut
<1>2. d = [c EXCEPT !.ring = ring2, !.want = @ \/ (fits /\ open),
                    !.since = 0, !.idle = 0, !.gap = c.idle, !.lossy = @ \/ ~fits]
  BY Zenon DEF SendNow
<1>3. Consistent(ring2) /\ ring2 \in B!Buffers /\ ring2.rp = c.ring.rp
      /\ (fits => ring2 = new)
  BY <1>1 DEF Consistent
<1> HIDE DEF d, ring2, new, fits
<1>4. 0 \in 0 .. IdleCap /\ 0 \in 0 .. IdleCap - 1
  BY SendQueueAssumption DEF IdleCap
<1>5. /\ d.queue = c.queue /\ d.since = 0 /\ d.idle = 0 /\ d.gap = c.idle /\ d.ring = ring2
      /\ d.lossy = (c.lossy \/ ~fits) /\ d.want = (c.want \/ (fits /\ open))
  BY <1>2 DEF Sending
<1>6. d \in Sending
  BY <1>2, <1>3, <1>4 DEF Sending
<1> QED BY <1>1, <1>3, <1>5, <1>6 DEF d

\* irc_sendbuf sends the line now or puts it at the end of the queue.
LEMMA SendBufIs ==
  ASSUME NEW c \in Sending, Consistent(c.ring), NEW l \in Line, NEW open \in BOOLEAN
  PROVE  LET d == SendBuf(c, l, open)
         IN  /\ d \in Sending /\ Consistent(d.ring) /\ d.ring.rp = c.ring.rp
             /\ \/ c.queue = <<>> /\ Passed(c.since) /\ d = SendNow(c, l, open)
                \/ /\ ~(c.queue = <<>> /\ Passed(c.since))
                   /\ d.queue = Append(c.queue, l) /\ d.ring = c.ring /\ d.since = c.since
                   /\ d.idle = c.idle /\ d.gap = c.gap /\ d.lossy = c.lossy
<1> DEFINE d == SendBuf(c, l, open)
<1>1. CASE c.queue = <<>> /\ Passed(c.since)
  BY <1>1, SendNowIs DEF SendBuf
<1>2. CASE ~(c.queue = <<>> /\ Passed(c.since))
  <2> DEFINE q == Append(c.queue, l)
  <2>1. q \in Seq(Line)
    BY AppendProperties DEF Sending
  <2>2. d = [c EXCEPT !.queue = q]
    BY <1>2, Zenon DEF SendBuf
  <2> HIDE DEF q, d
  <2>3. d \in Sending /\ d.queue = q /\ d.ring = c.ring /\ d.since = c.since
        /\ d.idle = c.idle /\ d.gap = c.gap /\ d.lossy = c.lossy
    BY <2>1, <2>2 DEF Sending
  <2> QED BY <1>2, <2>3 DEF q, d
<1> QED BY <1>1, <1>2

\* Either way the bytes of the line come behind all that is in the ring and queued.
LEMMA SendBufCarries ==
  ASSUME NEW c \in Sending, Consistent(c.ring), NEW l \in Line, NEW open \in BOOLEAN
  PROVE  LET d == SendBuf(c, l, open)
         IN  ~d.lossy => ~c.lossy /\ B!Content(d.ring) \o Flat(d.queue)
                                       = (B!Content(c.ring) \o Flat(c.queue)) \o Bytes(l)
<1> DEFINE d == SendBuf(c, l, open)
           a == B!Content(c.ring)
           b == Bytes(l)
           f == Flat(c.queue)
           g == Flat(d.queue)
<1>1. SUFFICES ASSUME ~d.lossy
      PROVE  ~c.lossy /\ B!Content(d.ring) \o g = (a \o f) \o b
  BY Zenon
<1>2. c.queue \in Seq(Line)
  BY DEF Sending
<1>3. a \in Seq(Byte) /\ b \in Seq(Byte) /\ f \in Seq(Byte)
  BY <1>2, RingContent, BytesType, FlatType
<1>4. CASE c.queue = <<>> /\ Passed(c.since) /\ d = SendNow(c, l, open)
  <2>1. ~c.lossy /\ B!Content(d.ring) = a \o b /\ d.queue = <<>>
    BY <1>1, <1>4, SendNowIs
  <2>2. f = <<>> /\ g = <<>>
    BY <1>4, <2>1, FlatEmpty
  <2> HIDE DEF a, b, d, f, g
  <2>3. a \o f = a /\ a \o b \in Seq(Byte)
    BY <1>3, <2>2, ConcatEmptySeq, ConcatProperties
  <2>4. (a \o b) \o <<>> = a \o b
    BY <2>3, ConcatEmptySeq
  <2> QED BY <2>1, <2>2, <2>3, <2>4, Zenon
<1>5. CASE d.queue = Append(c.queue, l) /\ d.ring = c.ring /\ d.lossy = c.lossy
  <2>1. g = f \o b
    BY <1>2, <1>5, FlatAppend
  <2>2. B!Content(d.ring) = a /\ ~c.lossy
    BY <1>1, <1>5
  <2> HIDE DEF a, b, d, f, g
  <2>3. a \o (f \o b) = (a \o f) \o b
    BY <1>3, ConcatAssociative
  <2> QED BY <2>1, <2>2, <2>3, Zenon
<1>6. \/ c.queue = <<>> /\ Passed(c.since) /\ d = SendNow(c, l, open)
      \/ d.queue = Append(c.queue, l) /\ d.ring = c.ring /\ d.lossy = c.lossy
  BY SendBufIs
<1> QED BY <1>4, <1>5, <1>6

-----------------------------------------------------------------------------
(* The farewell of irc_discon: a walk over the queue.                       *)

\* What is known after n lines of the queue went out.
Out(c, n) ==
  /\ c \in Sending /\ Consistent(c.ring)
  /\ c.queue = <<>> /\ c.ring.rp = ring.rp
  /\ n = 0 => c.since = since /\ c.idle = idle
  /\ n # 0 => c.since = 0 /\ c.idle = 0
  /\ ~c.lossy => ~lossy /\ B!Content(c.ring) = B!Content(ring) \o Flat(SubSeq(queue, 1, n))

\* One line more of the queue.
LEMMA OutOneMore ==
  ASSUME Here \in Sending, up \in BOOLEAN, Consistent(ring),
         NEW n \in Nat, n + 1 <= Len(queue), NEW c, Out(c, n)
  PROVE  Out(SendNow(c, queue[n + 1], up), n + 1)
<1> DEFINE l == queue[n + 1]
           d == SendNow(c, l, up)
           s == SubSeq(queue, 1, n)
           t == SubSeq(queue, 1, n + 1)
           a == B!Content(ring)
           b == Bytes(l)
           f == Flat(s)
           g == Flat(t)
<1>1. queue \in Seq(Line) /\ Len(queue) \in Nat
  BY DEF Here, Sending
<1>2. l \in Line
  BY <1>1, ElementOfSeq
<1>3. s \in Seq(Line) /\ t = Append(s, l)
  BY <1>1, SubSeqProperties
<1>4. a \in Seq(Byte) /\ b \in Seq(Byte) /\ f \in Seq(Byte)
  BY <1>2, <1>3, RingContent, BytesType, FlatType
<1>5. g = f \o b
  <2> HIDE DEF s, t, l
  <2> QED BY <1>2, <1>3, FlatAppend
<1>6. /\ d \in Sending /\ Consistent(d.ring)
      /\ d.queue = c.queue /\ d.since = 0 /\ d.idle = 0
      /\ d.ring.rp = c.ring.rp
      /\ ~d.lossy => ~c.lossy /\ B!Content(d.ring) = B!Content(c.ring) \o b
  <2>1. c \in Sending /\ Consistent(c.ring)
    BY DEF Out
  <2> HIDE DEF l
  <2> QED BY <1>2, <2>1, SendNowIs
<1>7. /\ c.queue = <<>> /\ c.ring.rp = ring.rp
      /\ ~c.lossy => ~lossy /\ B!Content(c.ring) = a \o f
  BY DEF Out
<1> HIDE DEF d, a, b, f, g, s, t, l
<1>8. (a \o f) \o b = a \o (f \o b)
  BY <1>4, ConcatAssociative, SMTT(30)
<1>9. ~d.lossy => ~lossy /\ B!Content(d.ring) = a \o g
  BY <1>5, <1>6, <1>7, <1>8, Zenon
<1>10. n + 1 # 0
  OBVIOUS
<1>11. Out(d, n + 1)
  BY <1>6, <1>7, <1>9, <1>10, Zenon DEF Out, a, g, t
<1> QED BY <1>11 DEF d, l

\* The whole queue goes out.
LEMMA FlushedIs ==
  ASSUME Here \in Sending, up \in BOOLEAN, Consistent(ring)
  PROVE  Out(Flushed, Len(queue))
<1> DEFINE N == Len(queue)
           start == [Here EXCEPT !.queue = <<>>]
           step == [p \in (1 .. N) \X Sending |-> SendNow(p[2], queue[p[1]], up)]
           Up(f) == f = [n \in 0 .. N |-> IF n = 0 THEN start ELSE SendNow(f[n - 1], queue[n], up)]
           u == CHOOSE f : Up(f)
<1>1. queue \in Seq(Line) /\ N \in Nat
  BY LenProperties DEF Here, Sending
<1>2. Flushed = u[N]
  BY Zenon DEF Flushed
<1>3. Out(start, 0)
  <2>1. start \in Sending /\ start.queue = <<>> /\ start.ring = ring /\ start.since = since
        /\ start.idle = idle /\ start.lossy = lossy
    BY EmptySeq DEF Here, Sending
  <2>2. SubSeq(queue, 1, 0) = <<>>
    BY <1>1, SubSeqProperties
  <2>3. B!Content(ring) \o <<>> = B!Content(ring)
    BY RingContent, ConcatEmptySeq
  <2> HIDE DEF start
  <2> QED BY <2>1, <2>2, <2>3, FlatEmpty, Zenon DEF Out
<1>4. \E f : Up(f) /\ \A n \in 0 .. N : Out(f[n], n)
  <2>1. PICK f : Walk(N, start, step, f)
    BY <1>1, WalkExists, Zenon
  <2>2. /\ f = [n \in 0 .. N |-> IF n = 0 THEN start ELSE step[<<n, f[n - 1]>>]]
        /\ \A n \in 0 .. N : f[n] = IF n = 0 THEN start ELSE step[<<n, f[n - 1]>>]
    BY <2>1, Zenon DEF Walk
  <2>3. ASSUME NEW n \in 1 .. N, NEW c \in Sending
        PROVE  step[<<n, c>>] = SendNow(c, queue[n], up)
    <3>1. <<n, c>> \in (1 .. N) \X Sending
      OBVIOUS
    <3> QED BY <3>1
  <2> HIDE DEF step, start
  <2> DEFINE T == {n \in 0 .. N : Out(f[n], n)}
  <2>4. 0 \in T
    <3>1. 0 \in 0 .. N
      BY <1>1
    <3>2. f[0] = start
      BY <2>2, <3>1, Zenon
    <3> QED BY <1>3, <3>1, <3>2
  <2>5. ASSUME NEW n \in 0 .. N - 1, n \in T PROVE n + 1 \in T
    <3> DEFINE a == n + 1
    <3>1. a \in 1 .. N /\ a - 1 = n /\ a \in 0 .. N /\ a # 0 /\ Out(f[n], n) /\ n \in Nat /\ a <= Len(queue)
      BY <1>1, <2>5
    <3>2. Out(SendNow(f[n], queue[a], up), a)
      BY <3>1, OutOneMore
    <3> HIDE DEF a, T, N
    <3>3. f[n] \in Sending
      BY <3>1 DEF Out
    <3>4. f[a] = SendNow(f[n], queue[a], up)
      BY <2>2, <2>3, <3>1, <3>3, Zenon
    <3>5. a \in T
      BY <3>1, <3>2, <3>4 DEF T
    <3> QED BY <3>5 DEF a
  <2> HIDE DEF T, N
  <2>6. 0 .. N \subseteq T
    BY <1>1, <2>4, <2>5, InductiveUpTo
  <2>7. \A n \in 0 .. N : Out(f[n], n)
    BY <2>6 DEF T
  <2>8. ASSUME NEW n \in 0 .. N
        PROVE  f[n] = IF n = 0 THEN start ELSE SendNow(f[n - 1], queue[n], up)
    <3>1. CASE n = 0
      BY <2>2, <3>1
    <3>2. CASE n # 0
      <4>1. n \in 1 .. N /\ n - 1 \in 0 .. N
        BY <1>1, <3>2
      <4>2. f[n - 1] \in Sending
        BY <2>7, <4>1 DEF Out
      <4> QED BY <2>2, <2>3, <3>2, <4>1, <4>2, Zenon
    <3> QED BY <3>1, <3>2
  <2>9. Up(f)
    <3> DEFINE h == [n \in 0 .. N |-> IF n = 0 THEN start ELSE SendNow(f[n - 1], queue[n], up)]
    <3>1. \A n \in 0 .. N : f[n] = h[n]
      BY <2>8, Zenon
    <3>2. f = [n \in 0 .. N |-> f[n]] /\ h = [n \in 0 .. N |-> h[n]]
      BY <2>2, Zenon
    <3> HIDE DEF h
    <3>3. [n \in 0 .. N |-> f[n]] = [n \in 0 .. N |-> h[n]]
      BY <3>1
    <3>4. f = h
      BY <3>2, <3>3, Zenon
    <3> QED BY <3>4, Zenon DEF h
  <2> QED BY <2>7, <2>9, Zenon
<1> HIDE DEF start, N
<1>5. PICK f : Up(f) /\ \A n \in 0 .. N : Out(f[n], n)
  BY <1>4, Zenon
<1>6. Up(u)
  BY <1>5, Zenon
<1> HIDE DEF u
<1> DEFINE T == {n \in 0 .. N : u[n] = f[n]}
<1>7. 0 \in T
  <2>1. 0 \in 0 .. N
    BY <1>1
  <2> QED BY <1>5, <1>6, <2>1
<1>8. ASSUME NEW n \in 0 .. N - 1, n \in T PROVE n + 1 \in T
  <2> DEFINE a == n + 1
  <2>1. a \in 0 .. N /\ a # 0 /\ a - 1 = n /\ u[n] = f[n]
    BY <1>1, <1>8
  <2> HIDE DEF a, T
  <2>2. u[a] = f[a]
    BY <1>5, <1>6, <2>1, Zenon
  <2>3. a \in T
    BY <2>1, <2>2 DEF T
  <2> QED BY <2>3 DEF a
<1> HIDE DEF T
<1>9. 0 .. N \subseteq T
  BY <1>1, <1>7, <1>8, InductiveUpTo
<1>10. N \in 0 .. N
  BY <1>1
<1>11. u[N] = f[N]
  BY <1>9, <1>10 DEF T
<1> QED BY <1>2, <1>5, <1>10, <1>11, Zenon DEF N

-----------------------------------------------------------------------------
(* The state: what the variables hold.                                      *)

\* The values of the variables, lines and bytes included.
Typed ==
  /\ Here \in Sending /\ Consistent(ring)
  /\ up \in BOOLEAN /\ partial \in BOOLEAN /\ pc \in {"loop", "write", "discon"}
  /\ wire \in Seq(Byte) /\ accepted \in Seq(Line) /\ made \in 0 .. MaxLines
  /\ Len(queue) <= made /\ Len(accepted) <= made

\* What Become assigns is what the variables are then.
LEMMA BecomeIs ==
  ASSUME NEW c \in Sending, Become(c)
  PROVE  Here' = c
BY DEF Become, Here, Sending

\* The variables of Here, one by one.
LEMMA HereIs ==
  ASSUME Here \in Sending
  PROVE  /\ queue \in Seq(Line) /\ ring \in B!Buffers /\ since \in 0 .. IdleCap - 1
         /\ want \in BOOLEAN /\ idle \in 0 .. IdleCap /\ gap \in 0 .. IdleCap /\ lossy \in BOOLEAN
         /\ Here.queue = queue /\ Here.ring = ring /\ Here.since = since /\ Here.want = want
         /\ Here.idle = idle /\ Here.gap = gap /\ Here.lossy = lossy
BY DEF Here, Sending

\* The same after a step.
LEMMA HereNext ==
  /\ queue' = Here'.queue /\ ring' = Here'.ring /\ since' = Here'.since
  /\ idle' = Here'.idle /\ gap' = Here'.gap /\ lossy' = Here'.lossy
BY DEF Here

\* Timer sends the head of the queue.
LEMMA TimerIs ==
  ASSUME Typed, Timer
  PROVE  LET c == [Here EXCEPT !.queue = Tail(@)]
             d == SendNow(c, Head(queue), up)
         IN  /\ Here' = d /\ d \in Sending /\ Consistent(d.ring)
             /\ d.queue = Tail(queue) /\ d.since = 0 /\ d.idle = 0 /\ d.gap = idle
             /\ d.ring.rp = ring.rp
             /\ ~d.lossy => ~lossy /\ B!Content(d.ring) = B!Content(ring) \o Bytes(Head(queue))
             /\ Head(queue) \in Line /\ Tail(queue) \in Seq(Line) /\ Len(Tail(queue)) = Len(queue) - 1
<1> DEFINE t == Tail(queue)
           l == Head(queue)
           c == [Here EXCEPT !.queue = t]
           d == SendNow(c, l, up)
<1>1. /\ Here \in Sending /\ Consistent(ring) /\ up \in BOOLEAN /\ queue # <<>>
      /\ queue \in Seq(Line)
  BY HereIs DEF Typed, Timer
<1>2. t \in Seq(Line) /\ Len(t) = Len(queue) - 1 /\ l \in Line
  BY <1>1, EmptySeq, HeadTailProperties, ElementOfSeq
<1>3. Become(d)
  BY Zenon DEF Timer, Here
<1> HIDE DEF t, l
<1>4. c \in Sending /\ c.queue = t /\ c.ring = ring /\ c.idle = idle /\ c.lossy = lossy
  BY <1>1, <1>2 DEF Here, Sending
<1> HIDE DEF c
<1>5. /\ d \in Sending /\ Consistent(d.ring)
      /\ d.queue = t /\ d.since = 0 /\ d.idle = 0 /\ d.gap = idle
      /\ d.ring.rp = ring.rp
      /\ ~d.lossy => ~lossy /\ B!Content(d.ring) = B!Content(ring) \o Bytes(l)
  BY <1>1, <1>2, <1>4, SendNowIs
<1>6. Here' = d
  BY <1>3, <1>5, BecomeIs
<1> QED BY <1>2, <1>5, <1>6 DEF t, l, c, d, Here

\* Registering sends two lines, the second behind the first.
LEMMA ConnectIs ==
  ASSUME Typed, Connect
  PROVE  LET l == [id |-> made + 1, len |-> 1]
             m == [id |-> made + 2, len |-> 1]
             c == [Here EXCEPT !.ring = B!Cleared(@), !.want = FALSE, !.lossy = FALSE]
             d == SendBuf(c, l, FALSE)
             e == SendBuf(d, m, FALSE)
         IN  /\ Here' = e /\ l \in Line /\ m \in Line
             /\ c \in Sending /\ d \in Sending /\ e \in Sending
             /\ Consistent(c.ring) /\ Consistent(d.ring) /\ Consistent(e.ring)
             /\ c.ring.rp = 0 /\ B!Content(c.ring) = <<>> /\ c.queue = queue /\ c.since = since
             /\ c.idle = idle /\ c.gap = gap
             /\ accepted' = queue \o <<l, m>>
<1> DEFINE l == [id |-> made + 1, len |-> 1]
           m == [id |-> made + 2, len |-> 1]
           c == [Here EXCEPT !.ring = B!Cleared(@), !.want = FALSE, !.lossy = FALSE]
           d == SendBuf(c, l, FALSE)
           e == SendBuf(d, m, FALSE)
<1>1. /\ Here \in Sending /\ Consistent(ring) /\ made \in 0 .. MaxLines /\ made + 2 <= MaxLines
  BY DEF Typed, Connect
<1>2. l \in Line /\ m \in Line
  BY <1>1, SendQueueAssumption DEF Line
<1>3. Become(e) /\ accepted' = queue \o <<l, m>>
  <2>1. <<l, m>>[1] = l /\ <<l, m>>[2] = m
    OBVIOUS
  <2> QED BY <2>1, Zenon DEF Connect, Register
<1>4. Consistent(B!Cleared(ring)) /\ B!Content(B!Cleared(ring)) = <<>> /\ B!Cleared(ring).rp = 0
  BY <1>1, RingCleared
<1>5. /\ c \in Sending /\ c.ring = B!Cleared(ring) /\ c.queue = queue /\ c.since = since
      /\ c.idle = idle /\ c.gap = gap
  <2>1. Here.ring = ring /\ B!Cleared(ring) \in B!Buffers
    BY <1>4 DEF Here, Consistent
  <2> DEFINE r == B!Cleared(ring)
  <2>2. c = [Here EXCEPT !.ring = r, !.want = FALSE, !.lossy = FALSE] /\ r \in B!Buffers
    BY <2>1, Zenon
  <2> HIDE DEF r, c
  <2>3. c.ring = r /\ c \in Sending /\ c.queue = queue /\ c.since = since /\ c.idle = idle /\ c.gap = gap
    BY <1>1, <2>2 DEF Here, Sending
  <2> QED BY <2>3 DEF r, c
<1>6. Consistent(c.ring)
  BY <1>4, <1>5
<1> HIDE DEF l, m, c
<1>7. d \in Sending /\ Consistent(d.ring)
  BY <1>2, <1>5, <1>6, SendBufIs
<1> HIDE DEF d
<1>8. e \in Sending /\ Consistent(e.ring)
  BY <1>2, <1>7, SendBufIs
<1>9. Here' = e
  BY <1>3, <1>8, BecomeIs
<1> QED BY <1>2, <1>3, <1>4, <1>5, <1>6, <1>7, <1>8, <1>9 DEF l, m, c, d, e

\* Sending makes the queue at most one line longer.
LEMMA SendBufLength ==
  ASSUME NEW c \in Sending, Consistent(c.ring), NEW l \in Line, NEW open \in BOOLEAN
  PROVE  Len(SendBuf(c, l, open).queue) <= Len(c.queue) + 1 /\ Len(c.queue) \in Nat
<1> DEFINE d == SendBuf(c, l, open)
<1>1. c.queue \in Seq(Line) /\ Len(c.queue) \in Nat
  BY LenProperties DEF Sending
<1>2. CASE d.queue = Append(c.queue, l)
  BY <1>1, <1>2, AppendProperties
<1>3. CASE c.queue = <<>> /\ d = SendNow(c, l, open)
  <2>1. d.queue = c.queue
    BY <1>3, SendNowIs
  <2> QED BY <1>1, <2>1
<1> QED BY <1>2, <1>3, SendBufIs

\* Submit sends one line.
LEMMA SubmitIs ==
  ASSUME Typed, NEW len \in Lengths, Submit(len)
  PROVE  LET l == [id |-> made + 1, len |-> len]
             d == SendBuf(Here, l, up)
         IN  /\ Here' = d /\ l \in Line /\ d \in Sending /\ Consistent(d.ring)
             /\ accepted' = Append(accepted, l)
<1> DEFINE l == [id |-> made + 1, len |-> len]
           d == SendBuf(Here, l, up)
<1>1. Here \in Sending /\ Consistent(Here.ring) /\ made \in 0 .. MaxLines /\ made < MaxLines /\ up \in BOOLEAN
  BY HereIs DEF Typed, Submit
<1>2. l \in Line
  BY <1>1, SendQueueAssumption DEF Line
<1>3. Become(d) /\ accepted' = Append(accepted, l)
  BY Zenon DEF Submit
<1> HIDE DEF l
<1>4. d \in Sending /\ Consistent(d.ring)
  BY <1>1, <1>2, SendBufIs
<1>5. Here' = d
  BY <1>3, <1>4, BecomeIs
<1> QED BY <1>2, <1>3, <1>4, <1>5 DEF l, d

\* The farewell leaves an empty queue, and the pace as it was.
LEMMA DisconIs ==
  ASSUME Typed, Discon
  PROVE  /\ Here' \in Sending /\ Consistent(ring')
         /\ queue' = <<>> /\ ring'.rp = ring.rp /\ gap' = gap
         /\ (since' = since /\ idle' = idle) \/ (since' = 0 /\ idle' = 0)
         /\ ~lossy' => ~lossy /\ B!Content(ring') = B!Content(ring) \o Flat(queue)
<1> DEFINE c == Flushed
           d == [c EXCEPT !.gap = gap]
           N == Len(queue)
<1>1. Here \in Sending /\ up \in BOOLEAN /\ Consistent(ring) /\ queue \in Seq(Line) /\ gap \in 0 .. IdleCap
  BY HereIs DEF Typed
<1>2. Out(c, N)
  BY <1>1, FlushedIs
<1>3. Become(d)
  BY Zenon DEF Discon
<1> HIDE DEF c
<1>4. /\ d \in Sending /\ d.queue = c.queue /\ d.ring = c.ring /\ d.gap = gap
      /\ d.since = c.since /\ d.idle = c.idle /\ d.lossy = c.lossy
  BY <1>1, <1>2 DEF Out, Sending
<1> HIDE DEF d
<1>5. Here' = d
  BY <1>3, <1>4, BecomeIs
<1>6. queue' = c.queue /\ ring' = c.ring /\ gap' = gap /\ since' = c.since /\ idle' = c.idle /\ lossy' = c.lossy
  BY <1>3, <1>4 DEF Become
<1>7. SubSeq(queue, 1, N) = queue
  BY <1>1, SubSeqProperties
<1> HIDE DEF N
<1> QED BY <1>2, <1>4, <1>5, <1>6, <1>7, Zenon DEF Out

\* Send takes bytes from the ring and puts them on the wire.
LEMMA SendIs ==
  ASSUME Typed, NEW k \in 1 .. Size, Send(k)
  PROVE  LET new == B!Deleted(ring, k)
             taken == [i \in 1 .. k |-> Cell(Offered.from + i - 1)]
         IN  /\ Here' \in Sending /\ Consistent(new)
             /\ ring' = new /\ queue' = queue /\ wire' = wire \o taken
             /\ taken \in Seq(Byte)
<1> DEFINE new == B!Deleted(ring, k)
           taken == [i \in 1 .. k |-> Cell(Offered.from + i - 1)]
<1>1. Here \in Sending /\ Consistent(ring) /\ ring \in B!Buffers /\ k \in Nat
  BY HereIs DEF Typed
<1>2. Consistent(new)
  <2>1. BP!Consistent(BP!Deleted(ring, k))
    BY <1>1, RingIsBuffer, BP!DeletedConsistent, SendQueueAssumption
  <2> QED BY <2>1, RingIsBuffer, Zenon
<1>3. taken \in Seq(Byte)
  <2>1. \A i \in 0 .. 2 * Size : Cell(i) \in Byte
    BY <1>1, SendQueueAssumption DEF Cell, Junk, Byte, B!Buffers, B!Index
  <2>2. Offered.from \in 0 .. Size - 1
    BY <1>1, SendQueueAssumption DEF Offered, B!Span, B!Buffers, B!Index
  <2> DEFINE from == Offered.from
  <2> HIDE DEF from
  <2>3. ASSUME NEW i \in 1 .. k PROVE from + i - 1 \in 0 .. 2 * Size
    BY <2>2, SendQueueAssumption DEF from
  <2>4. \A i \in 1 .. k : Cell(from + i - 1) \in Byte
    BY <2>1, <2>3
  <2> QED BY <1>1, <2>4 DEF from
<1> HIDE DEF new, taken
<1>4. ring' = new /\ queue' = queue /\ wire' = wire \o taken
  BY DEF Send, SentBytes, new, taken
<1>5. Here' \in Sending
  <2>1. /\ queue' = queue /\ since' = since /\ want' = want /\ idle' = idle /\ gap' = gap
        /\ lossy' \in BOOLEAN /\ ring' \in B!Buffers
    <3>1. lossy' \in BOOLEAN
      BY HereIs, <1>1 DEF Send, PastEnd
    <3> QED BY <1>2, <1>4, <3>1 DEF Send, Consistent
  <2> QED BY <1>1, <2>1 DEF Here, Sending
<1> QED BY <1>2, <1>3, <1>4, <1>5 DEF new, taken

\* The variables of Here stay when they are what is UNCHANGED.
LEMMA HereStays ==
  ASSUME UNCHANGED <<queue, ring, since, want, idle, gap, lossy>>
  PROVE  Here' = Here
BY DEF Here

\* Restart empties everything.
LEMMA RestartIs ==
  ASSUME Typed, Restart
  PROVE  Here' \in Sending /\ Consistent(ring') /\ ring'.rp = 0 /\ B!Content(ring') = <<>>
<1>1. Consistent(ring) /\ gap \in 0 .. IdleCap
  BY HereIs DEF Typed
<1>2. Consistent(B!Cleared(ring)) /\ B!Cleared(ring).rp = 0 /\ B!Content(B!Cleared(ring)) = <<>>
  BY <1>1, RingCleared
<1>3. ring' = B!Cleared(ring)
  BY DEF Restart
<1> DEFINE r == B!Cleared(ring)
<1>4. r \in B!Buffers
  BY <1>2 DEF Consistent
<1> HIDE DEF r
<1>5. Here' = [queue |-> <<>>, ring |-> r, since |-> 0, want |-> FALSE, idle |-> 0,
               gap |-> gap, lossy |-> FALSE]
  BY <1>3, Zenon DEF Restart, Here, r
<1>6. 0 \in 0 .. IdleCap /\ 0 \in 0 .. IdleCap - 1
  BY SendQueueAssumption DEF IdleCap
<1>7. Here' \in Sending
  BY <1>1, <1>4, <1>5, <1>6, EmptySeq DEF Sending
<1> QED BY <1>2, <1>3, <1>7

\* Tick changes the clock only.
LEMMA TickIs ==
  ASSUME Typed, Tick
  PROVE  /\ Here' \in Sending /\ ring' = ring /\ queue' = queue /\ gap' = gap
         /\ idle' = (IF idle < IdleCap THEN idle + 1 ELSE idle)
         /\ since + 1 < IdleCap => since' = since + 1
<1>1. Here \in Sending /\ since \in 0 .. IdleCap - 1 /\ idle \in 0 .. IdleCap
  BY HereIs DEF Typed
<1>2. IdleCap \in Nat /\ IdleCap > 0
  BY SendQueueAssumption DEF IdleCap
<1>3. since' = (since + 1) % IdleCap /\ idle' = IF idle < IdleCap THEN idle + 1 ELSE idle
  BY DEF Tick, Wrapped, IdleCap
<1> HIDE DEF IdleCap
<1>4. idle' \in 0 .. IdleCap
  BY <1>1, <1>2, <1>3
<1>5. since' \in 0 .. IdleCap - 1 /\ (since + 1 < IdleCap => since' = since + 1)
  <2>1. CASE since + 1 < IdleCap
    <3>1. (since + 1) % IdleCap = since + 1
      BY <1>1, <1>2, <2>1
    <3> QED BY <1>1, <1>2, <1>3, <2>1, <3>1
  <2>2. CASE since + 1 = IdleCap
    <3>1. (since + 1) % IdleCap = 0
      BY <1>2, <2>2
    <3> QED BY <1>2, <1>3, <2>2, <3>1
  <2> QED BY <1>1, <1>2, <2>1, <2>2
<1>6. queue' = queue /\ ring' = ring /\ want' = want /\ gap' = gap /\ lossy' = lossy
  BY DEF Tick
<1>7. Here' \in Sending
  BY <1>1, <1>4, <1>5, <1>6 DEF Here, Sending
<1> QED BY <1>3, <1>5, <1>6, <1>7

-----------------------------------------------------------------------------
(* The values of the variables.                                             *)

\* Initially.
LEMMA InitTyped == Init => Typed
<1> SUFFICES ASSUME Init PROVE Typed
  OBVIOUS
<1> DEFINE r == [data |-> [i \in 0 .. Size - 1 |-> Junk], wp |-> 0, rp |-> 0,
                 full |-> FALSE, empty |-> TRUE]
<1>1. Consistent(r) /\ r \in B!Buffers
  BY SendQueueAssumption DEF Consistent, B!Buffers, B!Index, Byte, Junk
<1>2. ring = r
  BY DEF Init
<1> HIDE DEF r
<1>3. Here = [queue |-> <<>>, ring |-> r, since |-> 0, want |-> FALSE, idle |-> 0,
              gap |-> IdleCap, lossy |-> FALSE]
  BY <1>2 DEF Init, Here
<1>4. 0 \in 0 .. IdleCap /\ 0 \in 0 .. IdleCap - 1 /\ IdleCap \in 0 .. IdleCap
  BY SendQueueAssumption DEF IdleCap
<1>5. Here \in Sending
  BY <1>1, <1>3, <1>4, EmptySeq DEF Sending
<1>6. /\ up \in BOOLEAN /\ partial \in BOOLEAN /\ pc \in {"loop", "write", "discon"}
      /\ wire \in Seq(Byte) /\ accepted \in Seq(Line) /\ made \in 0 .. MaxLines
      /\ Len(queue) <= made /\ Len(accepted) <= made
  <2>1. up = FALSE /\ partial = FALSE /\ pc = "loop" /\ wire = <<>> /\ accepted = <<>> /\ queue = <<>> /\ made = 0
    BY DEF Init
  <2>2. Len(<<>>) = 0 /\ 0 \in 0 .. MaxLines /\ <<>> \in Seq(Line) /\ <<>> \in Seq(Byte)
    BY SendQueueAssumption
  <2>3. wire \in Seq(Byte) /\ accepted \in Seq(Line)
    BY <2>1, <2>2, Zenon
  <2>4. Len(queue) <= made /\ Len(accepted) <= made /\ made \in 0 .. MaxLines
    <3>1. Len(queue) = 0 /\ Len(accepted) = 0 /\ made = 0 /\ made \in 0 .. MaxLines
      BY <2>1, <2>2, Zenon
    <3> QED BY <3>1
  <2>5. up \in BOOLEAN /\ partial \in BOOLEAN /\ pc \in {"loop", "write", "discon"}
    BY <2>1
  <2> QED BY <2>3, <2>4, <2>5, Zenon
<1> QED BY <1>1, <1>2, <1>5, <1>6 DEF Typed

\* Every step keeps the values in their types, and the bounds on lines.
LEMMA NextTyped ==
  ASSUME Typed, [Next]_vars
  PROVE  Typed'
<1>0. /\ Here \in Sending /\ Consistent(ring) /\ queue \in Seq(Line) /\ Len(queue) \in Nat
      /\ up \in BOOLEAN /\ partial \in BOOLEAN /\ pc \in {"loop", "write", "discon"}
      /\ wire \in Seq(Byte) /\ accepted \in Seq(Line) /\ made \in 0 .. MaxLines
      /\ Len(accepted) \in Nat /\ Len(queue) <= made /\ Len(accepted) <= made /\ MaxLines \in Nat
  BY HereIs, SendQueueAssumption, LenProperties DEF Typed
<1>1. ASSUME NEW len \in Lengths, Submit(len) PROVE Typed'
  <2> DEFINE l == [id |-> made + 1, len |-> len]
             d == SendBuf(Here, l, up)
  <2>1. Here' = d /\ l \in Line /\ d \in Sending /\ Consistent(d.ring) /\ accepted' = Append(accepted, l)
    BY <1>1, SubmitIs
  <2>2. Len(d.queue) <= Len(queue) + 1
    <3>1. Len(d.queue) <= Len(Here.queue) + 1
      <4> HIDE DEF l
      <4> QED BY <1>0, <2>1, SendBufLength, HereIs
    <3> QED BY <3>1, HereIs, <1>0
  <2> HIDE DEF l, d
  <2>3. queue' = d.queue /\ ring' = d.ring
    BY <2>1 DEF Here
  <2>4. accepted' \in Seq(Line) /\ Len(accepted') = Len(accepted) + 1
    BY <1>0, <2>1, AppendProperties
  <2>5. made' = made + 1 /\ made < MaxLines /\ up' = up /\ pc' = pc /\ partial' = partial /\ wire' = wire
    BY <1>1 DEF Submit
  <2>6. d.queue \in Seq(Line) /\ Len(d.queue) \in Nat
    BY <2>1, LenProperties DEF Sending
  <2>7. Len(queue') <= made' /\ Len(accepted') <= made' /\ made' \in 0 .. MaxLines
    BY <1>0, <2>2, <2>3, <2>4, <2>5, <2>6
  <2> QED BY <1>0, <2>1, <2>3, <2>4, <2>5, <2>7 DEF Typed
<1>2. ASSUME Timer PROVE Typed'
  <2>1. Here' \in Sending /\ Consistent(ring') /\ queue' = Tail(queue) /\ Len(queue') = Len(queue) - 1
    <3>1. PICK d : Here' = d /\ d \in Sending /\ Consistent(d.ring) /\ d.queue = Tail(queue)
                   /\ Len(Tail(queue)) = Len(queue) - 1
      BY <1>2, TimerIs
    <3> QED BY <3>1 DEF Here
  <2>2. made' = made /\ up' = up /\ pc' = pc /\ partial' = partial /\ wire' = wire /\ accepted' = accepted
    BY <1>2 DEF Timer, ghosts
  <2> QED BY <1>0, <2>1, <2>2 DEF Typed
<1>3. ASSUME Connect PROVE Typed'
  <2>1. PICK l, m, c, d, e :
             /\ Here' = e /\ l \in Line /\ m \in Line /\ accepted' = queue \o <<l, m>>
             /\ c \in Sending /\ Consistent(c.ring) /\ c.queue = queue
             /\ d = SendBuf(c, l, FALSE) /\ d \in Sending /\ Consistent(d.ring)
             /\ e = SendBuf(d, m, FALSE) /\ e \in Sending /\ Consistent(e.ring)
    BY <1>3, ConnectIs
  <2>2. queue' = e.queue /\ ring' = e.ring
    BY <2>1, HereNext, Zenon
  <2>3. /\ Len(d.queue) <= Len(queue) + 1 /\ Len(d.queue) \in Nat
        /\ Len(e.queue) <= Len(d.queue) + 1 /\ Len(e.queue) \in Nat
    <3>1. Len(d.queue) <= Len(c.queue) + 1
      BY <2>1, SendBufLength
    <3>2. Len(e.queue) <= Len(d.queue) + 1
      BY <2>1, SendBufLength
    <3>3. Len(d.queue) \in Nat /\ Len(e.queue) \in Nat
      BY <2>1, LenProperties DEF Sending
    <3> QED BY <2>1, <3>1, <3>2, <3>3
  <2>4. accepted' \in Seq(Line) /\ Len(accepted') = Len(queue) + 2
    <3>1. <<l, m>> \in Seq(Line) /\ Len(<<l, m>>) = 2
      BY <2>1
    <3> QED BY <1>0, <2>1, <3>1, ConcatProperties
  <2>5. /\ made' = made + 2 /\ made + 2 <= MaxLines /\ up' = FALSE /\ pc' = pc /\ partial' = FALSE
        /\ wire' = <<>>
    BY <1>3 DEF Connect
  <2>6. Len(queue') <= made' /\ Len(accepted') <= made' /\ made' \in 0 .. MaxLines
    BY <1>0, <2>2, <2>3, <2>4, <2>5
  <2>7. up' \in BOOLEAN /\ partial' \in BOOLEAN /\ wire' \in Seq(Byte) /\ pc' \in {"loop", "write", "discon"}
    <3>1. up' \in BOOLEAN /\ partial' \in BOOLEAN
      BY <2>5
    <3>2. wire' \in Seq(Byte)
      BY <2>5, EmptySeq
    <3>3. pc' \in {"loop", "write", "discon"}
      BY <1>0, <2>5, Zenon
    <3> QED BY <3>1, <3>2, <3>3, Zenon
  <2>8. Here' \in Sending /\ Consistent(ring')
    BY <2>1, <2>2, Zenon
  <2> QED BY <2>4, <2>6, <2>7, <2>8, Zenon DEF Typed
<1>4. ASSUME SocketUp PROVE Typed'
  <2>1. /\ up' = TRUE /\ want' = TRUE
        /\ UNCHANGED <<queue, ring, since, pc, wire, made, accepted, idle, gap, lossy, partial>>
    BY <1>4 DEF SocketUp, ghosts
  <2>2. Here' \in Sending
    BY <1>0, <2>1 DEF Here, Sending
  <2> QED BY <1>0, <2>1, <2>2 DEF Typed
<1>5. ASSUME Discon PROVE Typed'
  <2>1. Here' \in Sending /\ Consistent(ring') /\ queue' = <<>>
    BY <1>5, DisconIs
  <2>2. pc' = "discon" /\ UNCHANGED <<up, wire, made, accepted, partial>>
    BY <1>5 DEF Discon, ghosts
  <2>3. Len(queue') = 0
    BY <2>1
  <2> QED BY <1>0, <2>1, <2>2, <2>3 DEF Typed
<1>6. ASSUME Restart PROVE Typed'
  <2>1. Here' \in Sending /\ Consistent(ring')
    BY <1>6, RestartIs
  <2>2. /\ queue' = <<>> /\ accepted' = <<>> /\ wire' = <<>> /\ made' = made
        /\ up' = FALSE /\ partial' = FALSE /\ pc' = "loop"
    BY <1>6 DEF Restart
  <2>3. Len(<<>>) = 0 /\ <<>> \in Seq(Line) /\ <<>> \in Seq(Byte)
    OBVIOUS
  <2>4. up' \in BOOLEAN /\ partial' \in BOOLEAN /\ pc' \in {"loop", "write", "discon"}
    BY <2>2
  <2>5. Len(queue') <= made' /\ Len(accepted') <= made' /\ made' \in 0 .. MaxLines
        /\ wire' \in Seq(Byte) /\ accepted' \in Seq(Line)
    BY <1>0, <2>2, <2>3
  <2> QED BY <2>1, <2>4, <2>5, Zenon DEF Typed
<1>7. ASSUME PollOut PROVE Typed'
  <2>1. pc' = "write" /\ UNCHANGED <<queue, ring, since, up, want, wire, made, accepted, idle, gap, lossy, partial>>
    BY <1>7 DEF PollOut, ghosts
  <2>2. Here' = Here
    BY <2>1, HereStays
  <2> QED BY <1>0, <2>1, <2>2 DEF Typed
<1>8. ASSUME WriteDone PROVE Typed'
  <2>1. /\ pc' = "loop" /\ want' = (Offered.len > 0)
        /\ UNCHANGED <<queue, ring, since, up, wire, made, accepted, idle, gap, lossy, partial>>
    BY <1>8 DEF WriteDone, ghosts, StillWanted
  <2>2. Here' \in Sending
    BY <1>0, <2>1 DEF Here, Sending
  <2> QED BY <1>0, <2>1, <2>2 DEF Typed
<1>9. ASSUME NEW k \in 1 .. Size, Send(k) PROVE Typed'
  <2>1. PICK t : Here' \in Sending /\ Consistent(ring') /\ queue' = queue /\ wire' = wire \o t /\ t \in Seq(Byte)
    BY <1>9, SendIs
  <2>2. UNCHANGED <<up, pc, made, accepted>> /\ partial' \in BOOLEAN
    BY <1>0, <1>9 DEF Send, ghosts
  <2>3. wire' \in Seq(Byte)
    BY <1>0, <2>1, ConcatProperties
  <2> QED BY <1>0, <2>1, <2>2, <2>3 DEF Typed
<1>10. ASSUME Tick PROVE Typed'
  <2>1. Here' \in Sending /\ ring' = ring /\ queue' = queue
    BY <1>10, TickIs
  <2>2. UNCHANGED <<up, pc, wire, made, accepted, partial>>
    BY <1>10 DEF Tick, ghosts
  <2> QED BY <1>0, <2>1, <2>2 DEF Typed
<1>11. ASSUME UNCHANGED vars PROVE Typed'
  <2>1. UNCHANGED <<queue, ring, since, up, want, pc, wire, made, accepted, idle, gap, lossy, partial>>
    BY <1>11 DEF vars, ghosts
  <2>2. Here' = Here
    BY <2>1, HereStays
  <2> QED BY <1>0, <2>1, <2>2 DEF Typed
<1> QED BY <1>1, <1>2, <1>3, <1>4, <1>5, <1>6, <1>7, <1>8, <1>9, <1>10, <1>11 DEF Next

-----------------------------------------------------------------------------
(* The pace.                                                                *)

\* The clock of irc.lastline tells the time since the last line as long as it
\* has not wrapped, and a queue waits no longer than LINEDELAY for it.
Pace(c) ==
  /\ c.gap > Delay
  /\ c.idle < IdleCap => c.since = c.idle
  /\ c.queue # <<>> => c.idle <= Delay + 1

\* Not so long ago that the clock may have wrapped.
Recent(c) == c.idle <= PingEvery \/ c.idle <= Delay + 1

\* The inductive invariant: the clock wraps only when no line will come any more.
Rhythm ==
  /\ gap > Delay
  /\ idle < IdleCap => since = idle
  /\ queue # <<>> => idle <= Delay + 1
  /\ idle <= PingEvery \/ idle <= Delay + 1 \/ Over

\* The same of what sending works on.
LEMMA RhythmIs == Rhythm <=> Pace(Here) /\ (Recent(Here) \/ Over)
<1>1. /\ Here.queue = queue /\ Here.since = since /\ Here.idle = idle /\ Here.gap = gap
  BY DEF Here
<1> QED BY <1>1, Zenon DEF Rhythm, Pace, Recent

\* What is sent becomes the state.
LEMMA RhythmNext ==
  ASSUME NEW d, Here' = d, Pace(d), Recent(d)
  PROVE  Rhythm'
<1>1. d.queue = queue' /\ d.since = since' /\ d.idle = idle' /\ d.gap = gap' /\ IdleCap' = IdleCap
  BY HereNext, Zenon DEF IdleCap
<1>2. gap' > Delay /\ (idle' < IdleCap => since' = idle') /\ (queue' # <<>> => idle' <= Delay + 1)
  BY <1>1, Zenon DEF Pace
<1>3. idle' <= PingEvery \/ idle' <= Delay + 1
  BY <1>1, Zenon DEF Recent
<1> QED BY <1>1, <1>2, <1>3, Zenon DEF Rhythm

\* A line that is sent keeps the pace, whether it goes out or into the queue.
LEMMA SendBufPaced ==
  ASSUME NEW c \in Sending, Consistent(c.ring), NEW l \in Line, NEW open \in BOOLEAN,
         Pace(c), Recent(c)
  PROVE  Pace(SendBuf(c, l, open)) /\ Recent(SendBuf(c, l, open))
<1> DEFINE d == SendBuf(c, l, open)
<1>1. /\ c.since \in 0 .. IdleCap - 1 /\ c.idle \in 0 .. IdleCap
      /\ Delay \in Nat /\ HalfRange \in Nat /\ PingEvery \in Nat
      /\ Delay + 1 < HalfRange /\ PingEvery < HalfRange /\ IdleCap = 2 * HalfRange
  BY SendQueueAssumption, PingAssumption DEF Sending, IdleCap
<1>2. c.idle < HalfRange /\ c.since = c.idle
  BY <1>1 DEF Recent, Pace
<1>3. CASE c.queue = <<>> /\ Passed(c.since) /\ d = SendNow(c, l, open)
  <2>1. d.queue = <<>> /\ d.since = 0 /\ d.idle = 0 /\ d.gap = c.idle
    BY <1>3, SendNowIs
  <2>2. c.idle > Delay
    BY <1>2, <1>3 DEF Passed
  <2> HIDE DEF d
  <2>3. Pace(d) /\ Recent(d)
    BY <1>1, <2>1, <2>2 DEF Pace, Recent
  <2> QED BY <2>3 DEF d
<1>4. CASE /\ ~(c.queue = <<>> /\ Passed(c.since))
           /\ d.queue = Append(c.queue, l) /\ d.since = c.since /\ d.idle = c.idle /\ d.gap = c.gap
  <2>1. c.idle <= Delay + 1
    <3>1. CASE c.queue # <<>>
      BY <3>1 DEF Pace
    <3>2. CASE ~Passed(c.since)
      BY <1>1, <1>2, <3>2 DEF Passed
    <3> QED BY <1>4, <3>1, <3>2
  <2> HIDE DEF d
  <2>2. Pace(d)
    BY <1>4, <2>1 DEF Pace
  <2>3. Recent(d)
    BY <1>4, <2>1 DEF Recent
  <2> QED BY <2>2, <2>3 DEF d
<1> QED BY <1>3, <1>4, SendBufIs

\* Initially no line has been sent.
LEMMA InitRhythm == Init => Rhythm
<1> SUFFICES ASSUME Init PROVE Rhythm
  OBVIOUS
<1>1. queue = <<>> /\ since = 0 /\ idle = 0 /\ gap = IdleCap
  BY DEF Init
<1>2. IdleCap > Delay /\ 0 <= Delay + 1
  BY SendQueueAssumption DEF IdleCap
<1>3. idle < IdleCap => since = idle
  BY <1>1
<1> HIDE DEF IdleCap
<1> QED BY <1>1, <1>2, <1>3, SendQueueAssumption DEF Rhythm

\* The bound on lines, once reached, stays reached and lets no line through.
LEMMA OverStays ==
  ASSUME Typed, Over, [Next]_vars
  PROVE  Over' /\ ~Connect /\ \A len \in Lengths : ~Submit(len)
<1>1. made \in Nat /\ MaxLines \in Nat
  BY SendQueueAssumption DEF Typed
<1>2. ~Connect /\ \A len \in Lengths : ~Submit(len)
  BY <1>1 DEF Over, Connect, Submit
<1>3. made' = made /\ (first' = first \/ first' = 0) /\ (first' = 0 => (first = 0 \/ Restart))
  BY <1>2 DEF Next, Timer, SocketUp, Discon, Restart, PollOut, WriteDone, Send, Tick, vars, ghosts
<1>4. Over'
  BY <1>1, <1>3 DEF Over
<1> QED BY <1>2, <1>4

\* Every step keeps the pace.
LEMMA NextRhythm ==
  ASSUME Typed, Rhythm, [Next]_vars
  PROVE  Rhythm'
<1>0. /\ since \in 0 .. IdleCap - 1 /\ idle \in 0 .. IdleCap /\ gap \in 0 .. IdleCap
      /\ Delay \in Nat /\ HalfRange \in Nat /\ PingEvery \in Nat /\ IdleCap \in Nat
      /\ Delay + 1 < HalfRange /\ PingEvery < HalfRange /\ IdleCap = 2 * HalfRange
  BY HereIs, SendQueueAssumption, PingAssumption DEF Typed, IdleCap
<1>a. /\ gap > Delay
      /\ idle < IdleCap => since = idle
      /\ queue # <<>> => idle <= Delay + 1
      /\ idle <= PingEvery \/ idle <= Delay + 1 \/ Over
  BY DEF Rhythm
<1>b. IdleCap' = IdleCap
  BY DEF IdleCap
<1>c. Over => Over'
  BY OverStays
<1>1. ASSUME NEW len \in Lengths, Submit(len) PROVE Rhythm'
  <2>1. ~Over
    BY <1>1, OverStays
  <2>2. Here \in Sending /\ Consistent(Here.ring) /\ up \in BOOLEAN /\ Pace(Here) /\ Recent(Here)
    BY <2>1, HereIs, RhythmIs DEF Typed
  <2>3. PICK l : Here' = SendBuf(Here, l, up) /\ l \in Line
    BY <1>1, SubmitIs
  <2>4. Pace(SendBuf(Here, l, up)) /\ Recent(SendBuf(Here, l, up))
    BY <2>2, <2>3, SendBufPaced
  <2> QED BY <2>3, <2>4, RhythmNext
<1>2. ASSUME Timer PROVE Rhythm'
  <2>1. since' = 0 /\ idle' = 0 /\ gap' = idle
    <3>1. PICK d : Here' = d /\ d.since = 0 /\ d.idle = 0 /\ d.gap = idle
      BY <1>2, TimerIs
    <3> QED BY <3>1, HereNext, Zenon
  <2>2. queue # <<>> /\ since > Delay /\ since < HalfRange
    BY <1>2 DEF Timer, Passed
  <2>3. idle > Delay
    BY <1>0, <1>a, <2>2
  <2> HIDE DEF Over, IdleCap
  <2> QED BY <1>0, <1>b, <2>1, <2>3 DEF Rhythm
<1>3. ASSUME Connect PROVE Rhythm'
  <2>1. ~Over
    BY <1>3, OverStays
  <2>2. PICK l, m, c, d, e :
             /\ Here' = e /\ l \in Line /\ m \in Line
             /\ c \in Sending /\ Consistent(c.ring) /\ c.queue = queue /\ c.since = since
             /\ c.idle = idle /\ c.gap = gap
             /\ d = SendBuf(c, l, FALSE) /\ d \in Sending /\ Consistent(d.ring)
             /\ e = SendBuf(d, m, FALSE)
    BY <1>3, ConnectIs
  <2>3. Pace(c) /\ Recent(c)
    BY <1>a, <2>1, <2>2 DEF Pace, Recent
  <2>4. Pace(d) /\ Recent(d)
    BY <2>2, <2>3, SendBufPaced
  <2>5. Pace(e) /\ Recent(e)
    BY <2>2, <2>4, SendBufPaced
  <2> QED BY <2>2, <2>5, RhythmNext
<1>4. ASSUME UNCHANGED <<queue, since, idle, gap>> PROVE Rhythm'
  BY <1>4, <1>a, <1>b, <1>c, Zenon DEF Rhythm
<1>5. ASSUME Discon PROVE Rhythm'
  <2>1. queue' = <<>> /\ gap' = gap /\ ((since' = since /\ idle' = idle) \/ (since' = 0 /\ idle' = 0))
    BY <1>5, DisconIs
  <2>2. CASE since' = since /\ idle' = idle
    BY <1>a, <1>b, <1>c, <2>1, <2>2, Zenon DEF Rhythm
  <2>3. CASE since' = 0 /\ idle' = 0
    BY <1>0, <1>a, <1>b, <2>1, <2>3 DEF Rhythm
  <2> QED BY <2>1, <2>2, <2>3
<1>6. ASSUME Restart PROVE Rhythm'
  <2>1. queue' = <<>> /\ gap' = gap /\ since' = 0 /\ idle' = 0
    BY <1>6 DEF Restart
  <2> QED BY <1>0, <1>a, <1>b, <2>1 DEF Rhythm
<1>7. ASSUME Tick PROVE Rhythm'
  <2>1. /\ queue' = queue /\ gap' = gap
        /\ idle' = (IF idle < IdleCap THEN idle + 1 ELSE idle)
        /\ since + 1 < IdleCap => since' = since + 1
    BY <1>7, TickIs
  <2>2. /\ ~(queue # <<>> /\ since < HalfRange /\ since > Delay)
        /\ queue # <<>> \/ idle < PingEvery \/ Over
    BY <1>7 DEF Tick, Passed
  <2> HIDE DEF Over, IdleCap
  <2>4. CASE queue # <<>>
    <3>1. idle <= Delay + 1 /\ since = idle
      BY <1>0, <1>a, <2>4
    <3>2. idle <= Delay
      BY <1>0, <2>2, <2>4, <3>1
    <3>3. idle' = idle + 1 /\ since' = since + 1
      BY <1>0, <2>1, <3>1, <3>2
    <3> QED BY <1>0, <1>a, <1>b, <2>1, <3>1, <3>2, <3>3 DEF Rhythm
  <2>5. CASE queue = <<>> /\ idle < PingEvery
    <3>1. since = idle
      BY <1>0, <1>a, <2>5
    <3>2. idle' = idle + 1 /\ since' = since + 1
      BY <1>0, <2>1, <2>5, <3>1
    <3> QED BY <1>0, <1>a, <1>b, <2>1, <2>5, <3>1, <3>2 DEF Rhythm
  <2>6. CASE queue = <<>> /\ Over
    <3>1. idle' < IdleCap => since' = idle'
      BY <1>0, <1>a, <2>1
    <3> QED BY <1>0, <1>a, <1>b, <1>c, <2>1, <2>6, <3>1, Zenon DEF Rhythm
  <2> QED BY <2>2, <2>4, <2>5, <2>6
<1>8. ASSUME SocketUp \/ PollOut \/ WriteDone \/ (\E k \in 1 .. Size : Send(k)) \/ UNCHANGED vars
      PROVE  UNCHANGED <<queue, since, idle, gap>>
  BY <1>8 DEF SocketUp, PollOut, WriteDone, Send, vars, ghosts
<1> QED BY <1>1, <1>2, <1>3, <1>4, <1>5, <1>6, <1>7, <1>8 DEF Next

\* Lines are put into the ring more than LINEDELAY apart, and a queue never waits
\* longer than LINEDELAY for the last line to be old enough (irc.c:67, 370).
THEOREM SendQueuePaced == Spec => []Paced
<1>1. Typed /\ Rhythm => Paced
  BY DEF Rhythm, Paced
<1> QED BY InitTyped, NextTyped, InitRhythm, NextRhythm, <1>1, PTL DEF Spec

-----------------------------------------------------------------------------
(* No line is lost, doubled or overtaken.                                   *)

\* The inductive invariant: what the server has, what is in the ring and what is
\* queued make up what this connection has to carry; whole sends start the ring at 0.
Carries ==
  /\ ~partial => ring.rp = 0
  /\ ~lossy => (wire \o B!Content(ring)) \o Flat(queue) = Flat(accepted)

\* What the kernel takes is the front of what is in the ring, the rest stays there,
\* unless the offer reached behind the end of the ring's memory.
LEMMA SendTakesFront ==
  ASSUME Typed, Carries, NEW k \in 1 .. Size, Send(k)
  PROVE  LET taken == [i \in 1 .. k |-> Cell(Offered.from + i - 1)]
         IN  /\ ~PastEnd => taken \o B!Content(ring') = B!Content(ring)
             /\ ~partial' => ring'.rp = 0
<1> DEFINE taken == [i \in 1 .. k |-> Cell(Offered.from + i - 1)]
           a == B!Content(ring)
           n == Len(a)
           c == B!Content(ring')
           rp == ring.rp
           data == ring.data
<1>1. /\ Consistent(ring) /\ Size \in Nat /\ Size > 0 /\ rp \in 0 .. Size - 1
      /\ k \in Nat /\ k > 0 /\ ring' = B!Deleted(ring, k)
  BY SendQueueAssumption DEF Typed, Consistent, B!Buffers, B!Index, Send, SentBytes
<1>2. /\ a \in Seq(Byte) /\ n \in 0 .. Size /\ n = B!Length(ring)
      /\ \A i \in 1 .. n : a[i] = data[(rp + i - 1) % Size]
  BY <1>1, RingContent
<1>3. /\ n = Size <=> ring.full
      /\ n = 0 <=> ring.empty
      /\ ~ring.empty /\ ~ring.full => n = B!Gap(ring)
      /\ B!Gap(ring) \in 0 .. Size - 1
      /\ ring.full => B!Gap(ring) = 0
  <2>1. BP!Consistent(ring) /\ BP!Length(ring) = n /\ ring \in BP!Buffers
    BY <1>1, <1>2, RingIsBuffer, Zenon DEF BP!Consistent
  <2>2. /\ ring.full <=> BP!Length(ring) = Size
        /\ ring.empty <=> BP!Length(ring) = 0
        /\ ~ring.empty /\ ~ring.full => BP!Length(ring) = BP!Gap(ring)
    BY <2>1, BP!LengthIs, SendQueueAssumption
  <2>3. BP!Gap(ring) \in BP!Index /\ BP!Gap(ring) = IF ring.wp < ring.rp THEN ring.wp + Size - ring.rp ELSE ring.wp - ring.rp
    BY <2>1, BP!GapInRing, SendQueueAssumption
  <2>4. B!Gap(ring) = BP!Gap(ring)
    BY DEF B!Gap, BP!Gap
  <2>5. ring.full => ring.wp = ring.rp
    BY <1>1 DEF Consistent
  <2>6. ring.full => BP!Gap(ring) = 0
    BY <1>1, <2>3, <2>5
  <2> HIDE DEF n
  <2>7. BP!Gap(ring) \in 0 .. Size - 1
    BY <2>3 DEF BP!Index
  <2> QED BY <2>1, <2>2, <2>4, <2>6, <2>7, Zenon
<1>4. k <= Offered.len /\ Offered.len = n /\ Offered.from = rp /\ n < Size
  <2>1. k <= Offered.len /\ Offered.from = rp /\ Offered.len = IF ring.empty THEN 0 ELSE B!Gap(ring)
    BY DEF Send, Offered, B!Span
  <2>2. ~ring.empty /\ ~ring.full
    <3> HIDE DEF n
    <3> QED BY <1>1, <1>3, <2>1
  <2> HIDE DEF n
  <2> QED BY <1>1, <1>2, <1>3, <2>1, <2>2
<1>5. c = IF k >= n THEN <<>> ELSE SubSeq(a, k + 1, n)
  <2>1. BP!Content(BP!Deleted(ring, k)) =
           IF k <= 0 THEN BP!Content(ring)
           ELSE IF Len(BP!Content(ring)) = Size \/ k >= Len(BP!Content(ring)) THEN <<>>
           ELSE SubSeq(BP!Content(ring), k + 1, Len(BP!Content(ring)))
    BY <1>1, RingIsBuffer, BP!DeletedContent, SendQueueAssumption
  <2>2. BP!Content(ring) = a /\ BP!Content(BP!Deleted(ring, k)) = c
    BY <1>1, RingIsBuffer, Zenon
  <2>3. c = IF k <= 0 THEN a ELSE IF n = Size \/ k >= n THEN <<>> ELSE SubSeq(a, k + 1, n)
    BY <2>1, <2>2, Zenon
  <2> HIDE DEF a, c, n
  <2> QED BY <1>1, <1>4, <2>3
<1>6. ASSUME ~PastEnd PROVE taken = SubSeq(a, 1, k)
  <2>1. rp + n <= Size
    <3> HIDE DEF n, rp
    <3> QED BY <1>1, <1>2, <1>4, <1>6 DEF PastEnd
  <2>2. taken = [i \in 1 .. k |-> Cell(rp + i - 1)]
    BY <1>4
  <2> DEFINE front == SubSeq(a, 1, k)
  <2> HIDE DEF taken, a, n, rp, data
  <2>3. k <= n
    BY <1>4
  <2>4. front \in Seq(Byte) /\ Len(front) = k /\ \A i \in 1 .. k : front[i] = a[i]
    <3>1. \A i \in 1 .. k : a[i] \in Byte
      <4>1. \A i \in 1 .. k : i \in 1 .. n
        BY <1>1, <1>2, <2>3
      <4> QED BY <1>2, <4>1, ElementOfSeq DEF n
    <3> QED BY <1>1, <3>1, SubSeqProperties
  <2>5. ASSUME NEW i \in 1 .. k PROVE Cell(rp + i - 1) = a[i]
    <3> DEFINE x == rp + i - 1
    <3>1. x \in 0 .. Size - 1 /\ i \in 1 .. n
      BY <1>1, <1>2, <2>1, <2>3
    <3>2. x % Size = x
      <4> HIDE DEF x
      <4> QED BY <1>1, <3>1
    <3>3. x < Size
      <4> HIDE DEF x
      <4> QED BY <1>1, <3>1
    <3>4. a[i] = data[x % Size]
      BY <1>2, <3>1
    <3> HIDE DEF x
    <3>5. Cell(x) = data[x]
      BY <3>3 DEF Cell, data
    <3> QED BY <3>2, <3>4, <3>5 DEF x
  <2>6. taken \in Seq(Byte)
    <3>1. \A i \in 1 .. k : front[i] \in Byte
      BY <2>4, ElementOfSeq
    <3> HIDE DEF front
    <3> QED BY <1>1, <2>2, <2>4, <2>5, <3>1, SMTT(30)
  <2>7. Len(taken) = k /\ \A i \in 1 .. k : taken[i] = front[i]
    <3> HIDE DEF front
    <3> QED BY <1>1, <2>2, <2>4, <2>5
  <2> HIDE DEF front
  <2>8. taken = front
    BY <2>4, <2>6, <2>7, SeqEqual
  <2> QED BY <2>8 DEF front
<1>7. SubSeq(a, 1, k) \o c = a
  <2> HIDE DEF a, c
  <2>1. n \in Nat /\ SubSeq(a, 1, n) = a
    BY <1>2, SubSeqFull, LenProperties
  <2>2. CASE k >= n
    <3>1. k = n /\ c = <<>>
      <4> HIDE DEF n
      <4> QED BY <1>1, <1>4, <1>5, <2>1, <2>2
    <3>2. SubSeq(a, 1, k) = a
      BY <2>1, <3>1
    <3> QED BY <1>2, <3>1, <3>2, ConcatEmptySeq
  <2>3. CASE k < n
    <3>1. c = SubSeq(a, k + 1, n)
      <4> HIDE DEF n
      <4> QED BY <1>1, <1>5, <2>1, <2>3
    <3>2. SubSeq(a, 1, k) \o SubSeq(a, k + 1, n) = SubSeq(a, 1, n)
      <4>1. 1 \in 1 .. Len(a) + 1 /\ k \in 1 - 1 .. Len(a) /\ n \in k .. Len(a)
        <5>1. n = Len(a)
          OBVIOUS
        <5> HIDE DEF n
        <5> QED BY <1>1, <2>1, <2>3, <5>1
      <4> QED BY <1>2, <4>1, ConcatAdjacentSubSeq
    <3> QED BY <2>1, <3>1, <3>2, Zenon
  <2> HIDE DEF n
  <2>4. k >= n \/ k < n
    BY <1>1, <2>1
  <2> QED BY <2>2, <2>3, <2>4, Zenon
<1>8. ~partial' => ring'.rp = 0
  <2>1. SUFFICES ASSUME ~partial' PROVE ring'.rp = 0
    OBVIOUS
  <2>2. ~(k < Offered.len)
    BY <2>1 DEF Send
  <2>3. k >= B!Gap(ring)
    <3>1. Offered.len = IF ring.empty THEN 0 ELSE B!Gap(ring)
      BY DEF Offered, B!Span
    <3>2. ~ring.empty
      <4> HIDE DEF n
      <4> QED BY <1>1, <1>3, <1>4
    <3> QED BY <1>1, <1>3, <2>2, <3>1, <3>2
  <2>4. ring' = B!Cleared(ring)
    BY <1>1, <2>3 DEF B!Deleted
  <2> QED BY <2>4 DEF B!Cleared
<1> QED BY <1>6, <1>7, <1>8, Zenon

\* Initially nothing is on its way.
LEMMA InitCarries == Init => Carries
<1> SUFFICES ASSUME Init PROVE Carries
  OBVIOUS
<1>1. Consistent(ring) /\ ring.empty
  BY InitTyped DEF Typed, Init
<1>2. B!Content(ring) = <<>>
  <2>1. B!Length(ring) = 0
    BY <1>1 DEF B!Length
  <2>2. B!Content(ring) \in Seq(Byte) /\ Len(B!Content(ring)) = 0
    BY <1>1, <2>1, RingContent
  <2> DEFINE a == B!Content(ring)
  <2> HIDE DEF a
  <2>3. a = <<>>
    BY <2>2, EmptySeq DEF a
  <2> QED BY <2>3 DEF a
<1>3. wire = <<>> /\ queue = <<>> /\ accepted = <<>> /\ ring.rp = 0
  BY DEF Init
<1>4. <<>> \o <<>> = <<>>
  OBVIOUS
<1> QED BY <1>2, <1>3, <1>4, FlatEmpty, Zenon DEF Carries

\* Every step keeps the bytes together.
LEMMA NextCarries ==
  ASSUME Typed, Carries, [Next]_vars
  PROVE  Carries'
<1> DEFINE a == B!Content(ring)
           f == Flat(queue)
           g == Flat(accepted)
           a2 == B!Content(ring')
           f2 == Flat(queue')
           g2 == Flat(accepted')
<1>0. /\ Here \in Sending /\ Consistent(ring) /\ queue \in Seq(Line) /\ up \in BOOLEAN
      /\ wire \in Seq(Byte) /\ accepted \in Seq(Line)
      /\ a \in Seq(Byte) /\ f \in Seq(Byte) /\ g \in Seq(Byte)
  BY HereIs, RingContent, FlatType DEF Typed
<1>a. /\ ~partial => ring.rp = 0
      /\ ~lossy => (wire \o a) \o f = g
  BY DEF Carries
<1>b. SUFFICES /\ ~partial' => ring'.rp = 0
               /\ ~lossy' => (wire' \o a2) \o f2 = g2
  <2>1. B!Content(ring)' = a2 /\ Flat(queue)' = f2 /\ Flat(accepted)' = g2
    BY DEF B!Content, B!Length, B!Gap, Flat, Bytes
  <2> QED BY <2>1, Zenon DEF Carries
<1>1. ASSUME NEW len \in Lengths, Submit(len)
      PROVE  (~partial' => ring'.rp = 0) /\ (~lossy' => (wire' \o a2) \o f2 = g2)
  <2>1. PICK l : /\ Here' = SendBuf(Here, l, up) /\ l \in Line
                 /\ accepted' = Append(accepted, l)
    BY <1>1, SubmitIs
  <2> DEFINE d == SendBuf(Here, l, up)
             b == Bytes(l)
  <2>2. d.ring.rp = ring.rp /\ Consistent(Here.ring)
    BY <1>0, <2>1, SendBufIs, HereIs
  <2>3. ~d.lossy => ~lossy /\ B!Content(d.ring) \o Flat(d.queue) = (a \o f) \o b
    BY <1>0, <2>1, <2>2, SendBufCarries, HereIs
  <2>4. g2 = g \o b /\ b \in Seq(Byte)
    BY <1>0, <2>1, FlatAppend, BytesType
  <2>5. wire' = wire /\ partial' = partial
    BY <1>1 DEF Submit
  <2>6. ring' = d.ring /\ lossy' = d.lossy /\ queue' = d.queue
    BY <2>1, HereNext, Zenon
  <2>7. a2 \in Seq(Byte) /\ f2 \in Seq(Byte)
    BY <1>0, <2>1, <2>6, SendBufIs, RingContent, FlatType, HereIs DEF Sending
  <2> HIDE DEF a, f, g, a2, f2, g2, d, b
  <2>8. ASSUME ~lossy' PROVE (wire' \o a2) \o f2 = g2
    <3>a. /\ wire \in Seq(Byte) /\ a \in Seq(Byte) /\ f \in Seq(Byte) /\ b \in Seq(Byte)
          /\ a2 \in Seq(Byte) /\ f2 \in Seq(Byte)
      BY <1>0, <2>4, <2>7
    <3>1. a2 \o f2 = (a \o f) \o b /\ ~lossy
      BY <2>3, <2>6, <2>8 DEF a2, f2
    <3>2. a \o f \in Seq(Byte)
      BY <3>a, Grouped
    <3>3. Groups(wire, a2, f2) /\ Groups(wire, a \o f, b) /\ Groups(wire, a, f)
      BY <3>a, <3>2, Grouped
    <3>4. (wire \o a2) \o f2 = ((wire \o a) \o f) \o b
      BY <3>1, <3>3, Zenon DEF Groups
    <3> QED BY <1>a, <2>4, <2>5, <3>1, <3>4, Zenon
  <2> QED BY <1>a, <2>2, <2>5, <2>6, <2>8, Zenon
<1>2. ASSUME Timer
      PROVE  (~partial' => ring'.rp = 0) /\ (~lossy' => (wire' \o a2) \o f2 = g2)
  <2> DEFINE b == Bytes(Head(queue))
             t == Flat(Tail(queue))
  <2>1. PICK d : /\ Here' = d /\ d.queue = Tail(queue) /\ d.ring.rp = ring.rp
                 /\ ~d.lossy => ~lossy /\ B!Content(d.ring) = a \o b
                 /\ Head(queue) \in Line /\ Tail(queue) \in Seq(Line)
    BY <1>2, TimerIs
  <2>2. queue # <<>> /\ wire' = wire /\ partial' = partial /\ accepted' = accepted
    BY <1>2 DEF Timer, ghosts
  <2>3. f = b \o t /\ b \in Seq(Byte) /\ t \in Seq(Byte)
    BY <1>0, <2>1, <2>2, FlatHeadTail, BytesType, FlatType
  <2>4. ring' = d.ring /\ lossy' = d.lossy /\ queue' = Tail(queue)
    BY <2>1, HereNext, Zenon
  <2>5. f2 = t /\ g2 = g
    BY <2>2, <2>4, Zenon
  <2> HIDE DEF a, f, g, f2, g2, b, t
  <2>6. ASSUME ~lossy' PROVE (wire' \o a2) \o f2 = g2
    <3>1. a2 = a \o b /\ ~lossy
      BY <2>1, <2>4, <2>6, Zenon
    <3>a. /\ wire \in Seq(Byte) /\ a \in Seq(Byte) /\ b \in Seq(Byte) /\ t \in Seq(Byte)
      BY <1>0, <2>3
    <3>3. wire \o a \in Seq(Byte)
      BY <3>a, Grouped
    <3>4. Groups(wire, a, b) /\ Groups(wire \o a, b, t)
      BY <3>a, <3>3, Grouped
    <3>5. (wire \o (a \o b)) \o t = (wire \o a) \o (b \o t)
      BY <3>4, Zenon DEF Groups
    <3> HIDE DEF a2
    <3> QED BY <1>a, <2>2, <2>3, <2>5, <3>1, <3>5, Zenon
  <2> QED BY <1>a, <2>1, <2>2, <2>4, <2>6, Zenon
<1>3. ASSUME Connect
      PROVE  (~partial' => ring'.rp = 0) /\ (~lossy' => (wire' \o a2) \o f2 = g2)
  <2>1. PICK l, m, c, d, e :
             /\ Here' = e /\ l \in Line /\ m \in Line /\ accepted' = queue \o <<l, m>>
             /\ c \in Sending /\ Consistent(c.ring) /\ c.queue = queue
             /\ c.ring.rp = 0 /\ B!Content(c.ring) = <<>>
             /\ d = SendBuf(c, l, FALSE) /\ d \in Sending /\ Consistent(d.ring)
             /\ e = SendBuf(d, m, FALSE) /\ e \in Sending /\ Consistent(e.ring)
    BY <1>3, ConnectIs
  <2> DEFINE p == Bytes(l)
             q == Bytes(m)
  <2>2. ring' = e.ring /\ lossy' = e.lossy /\ queue' = e.queue
    BY <2>1, HereNext, Zenon
  <2>3. d.ring.rp = c.ring.rp /\ e.ring.rp = d.ring.rp
    BY <2>1, SendBufIs
  <2>4. ~d.lossy => B!Content(d.ring) \o Flat(d.queue) = (<<>> \o f) \o p
    BY <2>1, SendBufCarries, ZenonT(30)
  <2>5. ~e.lossy => ~d.lossy /\ B!Content(e.ring) \o Flat(e.queue) = (B!Content(d.ring) \o Flat(d.queue)) \o q
    BY <2>1, SendBufCarries
  <2>6. p \in Seq(Byte) /\ q \in Seq(Byte)
    BY <2>1, BytesType
  <2>7. g2 = (f \o p) \o q
    <3>1. queue \o <<l, m>> = Append(Append(queue, l), m)
      BY <1>0, <2>1
    <3>2. Append(queue, l) \in Seq(Line)
      BY <1>0, <2>1, AppendProperties
    <3>3. Flat(Append(queue, l)) = f \o p
      BY <1>0, <2>1, FlatAppend
    <3> DEFINE one == Append(queue, l)
    <3> HIDE DEF one
    <3>4. Flat(Append(one, m)) = Flat(one) \o q
      BY <2>1, <3>2, FlatAppend DEF one
    <3> QED BY <2>1, <3>1, <3>3, <3>4, Zenon DEF one
  <2>8. wire' = <<>>
    BY <1>3 DEF Connect
  <2>9. <<>> \o f = f /\ <<>> \o a2 = a2
    <3>1. a2 \in Seq(Byte)
      BY <2>1, <2>2, RingContent
    <3> HIDE DEF a2, f
    <3> QED BY <1>0, <3>1, ConcatEmptySeq
  <2>10. a2 = B!Content(e.ring) /\ f2 = Flat(e.queue)
    BY <2>2
  <2> HIDE DEF a, f, g, a2, f2, g2, p, q
  <2> QED BY <2>1, <2>2, <2>3, <2>4, <2>5, <2>7, <2>8, <2>9, <2>10, Zenon
<1>4. ASSUME Discon
      PROVE  (~partial' => ring'.rp = 0) /\ (~lossy' => (wire' \o a2) \o f2 = g2)
  <2>1. /\ queue' = <<>> /\ ring'.rp = ring.rp /\ Consistent(ring')
        /\ ~lossy' => ~lossy /\ a2 = a \o f
    BY <1>4, DisconIs
  <2>2. wire' = wire /\ accepted' = accepted /\ partial' = partial
    BY <1>4 DEF Discon, ghosts
  <2>3. f2 = <<>> /\ g2 = g
    BY <2>1, <2>2, FlatEmpty
  <2>4. a2 \in Seq(Byte)
    BY <2>1, RingContent
  <2> HIDE DEF a, f, g, a2, f2, g2
  <2>5. wire \o a2 \in Seq(Byte)
    BY <1>0, <2>4, ConcatProperties
  <2>6. (wire \o a2) \o <<>> = wire \o a2
    BY <2>5, ConcatEmptySeq
  <2>7. wire \o (a \o f) = (wire \o a) \o f
    <3>1. Groups(wire, a, f)
      BY <1>0, Grouped
    <3> QED BY <3>1, Zenon DEF Groups
  <2> QED BY <1>a, <2>1, <2>2, <2>3, <2>6, <2>7, Zenon
<1>5. ASSUME Restart
      PROVE  (~partial' => ring'.rp = 0) /\ (~lossy' => (wire' \o a2) \o f2 = g2)
  <2>1. ring'.rp = 0 /\ a2 = <<>>
    BY <1>5, RestartIs
  <2>2. wire' = <<>> /\ queue' = <<>> /\ accepted' = <<>>
    BY <1>5 DEF Restart
  <2>3. f2 = <<>> /\ g2 = <<>>
    BY <2>2, FlatEmpty
  <2>4. <<>> \o <<>> = <<>>
    OBVIOUS
  <2> HIDE DEF f2, g2, a2
  <2> QED BY <2>1, <2>2, <2>3, <2>4, Zenon
<1>6. ASSUME NEW k \in 1 .. Size, Send(k)
      PROVE  (~partial' => ring'.rp = 0) /\ (~lossy' => (wire' \o a2) \o f2 = g2)
  <2> DEFINE t == [i \in 1 .. k |-> Cell(Offered.from + i - 1)]
  <2>1. Consistent(ring') /\ queue' = queue /\ wire' = wire \o t /\ t \in Seq(Byte)
    BY <1>6, SendIs
  <2>2. (~PastEnd => t \o a2 = a) /\ (~partial' => ring'.rp = 0)
    BY <1>6, SendTakesFront
  <2>3. accepted' = accepted /\ (~lossy' => ~lossy /\ ~PastEnd)
    BY <1>6 DEF Send, ghosts
  <2>4. a2 \in Seq(Byte)
    BY <2>1, RingContent
  <2>5. f2 = f /\ g2 = g
    BY <2>1, <2>3, Zenon
  <2> HIDE DEF t, a, f, g, a2, f2, g2
  <2>6. (wire \o t) \o a2 = wire \o (t \o a2)
    <3>1. Groups(wire, t, a2)
      BY <1>0, <2>1, <2>4, Grouped
    <3> QED BY <3>1, Zenon DEF Groups
  <2> QED BY <1>a, <2>1, <2>2, <2>3, <2>5, <2>6, Zenon
<1>7. ASSUME UNCHANGED <<queue, ring, wire, accepted, lossy, partial>>
      PROVE  (~partial' => ring'.rp = 0) /\ (~lossy' => (wire' \o a2) \o f2 = g2)
  BY <1>7, <1>a, Zenon
<1>8. ASSUME SocketUp \/ PollOut \/ WriteDone \/ Tick \/ UNCHANGED vars
      PROVE  UNCHANGED <<queue, ring, wire, accepted, lossy, partial>>
  BY <1>8 DEF SocketUp, PollOut, WriteDone, Tick, vars, ghosts
<1> QED BY <1>1, <1>2, <1>3, <1>4, <1>5, <1>6, <1>7, <1>8 DEF Next

\* Unless the ring refused a line or offered memory behind its end, the server gets
\* every line of this connection once and in the order of sending, in whatever
\* pieces the kernel takes it (irc.c:44-77, sock.c:79-107).
THEOREM SendQueueConservation == Spec => []Conservation
<1>1. ASSUME Typed, Carries PROVE Conservation
  <2>1. TypeOK
    <3>1. Len(accepted) \in Nat
      BY <1>1, LenProperties DEF Typed
    <3> QED BY <1>1, <3>1, HereIs, SendQueueAssumption DEF Typed, TypeOK, IdleCap
  <2>2. PastEndNeedsPartial
    <3>1. SUFFICES ASSUME ~partial, PastEnd PROVE FALSE
      BY DEF PastEndNeedsPartial
    <3>2. ring.rp = 0 /\ Consistent(ring)
      BY <1>1, <3>1 DEF Carries, Typed
    <3>3. BP!Gap(ring) \in BP!Index
      BY <3>2, RingIsBuffer, BP!GapInRing, SendQueueAssumption DEF BP!Consistent
    <3>4. B!Gap(ring) \in 0 .. Size - 1
      BY <3>3 DEF B!Gap, BP!Gap, BP!Index
    <3>5. Offered.from = 0 /\ Offered.len \in 0 .. Size
      BY <3>2, <3>4, SendQueueAssumption DEF Offered, B!Span
    <3> QED BY <3>1, <3>5, SendQueueAssumption DEF PastEnd
  <2> QED BY <1>1, <2>1, <2>2, Zenon DEF Carries, Conservation
<1> QED BY InitTyped, NextTyped, InitCarries, NextCarries, <1>1, PTL DEF Spec
=============================================================================
