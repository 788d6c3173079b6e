------------------------------- MODULE Buffer -------------------------------
(***************************************************************************)
(* src/buffer.c as a state machine: one buffer_t and every operation that  *)
(* changes it, in any order a caller may issue.                            *)
(***************************************************************************)
EXTENDS BufferOps

CONSTANT MaxWrite    \* longest byte sequence one buffer_put is given

ASSUME MaxWriteAssumption == MaxWrite \in Nat \ {0}

VARIABLES
  buf,  \* the buffer_t
  call  \* the last call: operation, argument, return code, bytes copied out

vars == <<buf, call>>

Writes == UNION {[1 .. n -> Byte] : n \in 0 .. MaxWrite}

Call(op, arg, rc, out) == [op |-> op, arg |-> arg, rc |-> rc, out |-> out]

Init == buf \in FreshBuffers /\ call = Call("clear", <<>>, 0, <<>>)

Put(s) ==
  \/ /\ CanPut(buf, s)
     /\ buf' = PutDone(buf, s)
     /\ call' = Call("put", s, 0, <<>>)
  \/ /\ ~CanPut(buf, s)
     /\ call' = Call("put", s, -1, <<>>)
     /\ UNCHANGED buf

PutChr(c) ==
  \/ /\ ~buf.full
     /\ buf' = PutChrDone(buf, c)
     /\ call' = Call("put", <<c>>, 0, <<>>)
  \/ /\ buf.full
     /\ call' = Call("put", <<c>>, -1, <<>>)
     /\ UNCHANGED buf

Delete(n) == buf' = Deleted(buf, n) /\ call' = Call("delete", n, 0, <<>>)

\* buffer_get deletes as many bytes as it could copy.
Get(n) ==
  /\ call' = Call("get", n, 0, Peeked(buf, n))
  /\ buf' = Deleted(buf, AtMost(n, Length(buf)))

GetChr ==
  \/ /\ buf.empty
     /\ call' = Call("getchr", 1, -1, <<>>)
     /\ UNCHANGED buf
  \/ /\ ~buf.empty
     /\ call' = Call("getchr", 1, 0, Peeked(buf, 1))
     /\ buf' = Deleted(buf, 1)

Clear == buf' = Cleared(buf) /\ call' = Call("clear", <<>>, 0, <<>>)

Next ==
  \/ \E s \in Writes : Put(s)
  \/ \E c \in Byte : PutChr(c)
  \/ \E n \in 0 .. Size + 1 : Delete(n) \/ Get(n)
  \/ GetChr
  \/ Clear

Spec == Init /\ [][Next]_vars

-----------------------------------------------------------------------------
\* Every field stays in its range (buffer_t, buffer.h:33-38).
TypeOK == buf \in Buffers

\* The two flags and the two positions tell the same story: the positions
\* meet exactly in an empty or a full buffer, and never in both at once.
\* (buffer.c:62-80 and 150-166 keep them in step with separate assignments.)
FlagsAgree ==
  /\ TypeOK
  /\ ~(buf.full /\ buf.empty)
  /\ (buf.wp = buf.rp) <=> (buf.full \/ buf.empty)

\* What buffer_map offers the socket is the unread stream, as long as the
\* buffer is not full (then it offers nothing) and has not wrapped around
\* (then the length runs past the end of data, buffer.c:174-175).
MapOffersStream ==
  LET sp == Span(buf) IN
  /\ buf.full => sp.len = 0
  /\ buf.rp < buf.wp =>
       Content(buf) = [i \in 1 .. sp.len |-> buf.data[sp.from + i - 1]]
  /\ (sp.from + sp.len > Size) <=> (buf.wp # 0 /\ buf.wp < buf.rp)

\* The abstract stream this buffer implements.
Stream == INSTANCE ByteStream WITH stream <- Content(buf)

\* Whatever the positions do, a caller sees the abstract stream: bytes come
\* out once, in order, and only clearing or a read of a full buffer drops any.
ImplementsStream == Stream!Spec
=============================================================================
