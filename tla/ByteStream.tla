----------------------------- MODULE ByteStream -----------------------------
(***************************************************************************)
(* What a user of src/buffer.c can rely on: a bounded first-in first-out   *)
(* stream of bytes with all-or-nothing writes.  The promise has one hole   *)
(* that is stated, not hidden: taking any byte from a full stream loses    *)
(* all the bytes behind it (buffer.c:74).                                  *)
(***************************************************************************)
EXTENDS Integers, Sequences

CONSTANTS Size, Byte, MaxWrite

VARIABLES
  stream,  \* the bytes written and not yet taken, oldest first
  call     \* the last call: operation, argument, return code, bytes copied out

Writes == UNION {[1 .. n -> Byte] : n \in 0 .. MaxWrite}

Prefix(n) == SubSeq(stream, 1, IF n < Len(stream) THEN n ELSE Len(stream))

\* What is left when n bytes are taken from s.
Remaining(s, n) ==
  IF n <= 0 THEN s
  ELSE IF Len(s) = Size \/ n >= Len(s) THEN <<>>
  ELSE SubSeq(s, n + 1, Len(s))

Without(n) == Remaining(stream, n)

Call(op, arg, rc, out) == [op |-> op, arg |-> arg, rc |-> rc, out |-> out]

Init == stream = <<>> /\ call = Call("clear", <<>>, 0, <<>>)

Fits(s) == Len(stream) < Size /\ Len(stream) + Len(s) <= Size

Put(s) ==
  \/ Fits(s)  /\ stream' = stream \o s /\ call' = Call("put", s, 0, <<>>)
  \/ ~Fits(s) /\ stream' = stream      /\ call' = Call("put", s, -1, <<>>)

Get(n) == stream' = Without(n) /\ call' = Call("get", n, 0, Prefix(n))

GetChr ==
  \/ stream = <<>> /\ stream' = stream     /\ call' = Call("getchr", 1, -1, <<>>)
  \/ stream # <<>> /\ stream' = Without(1) /\ call' = Call("getchr", 1, 0, Prefix(1))

Delete(n) == stream' = Without(n) /\ call' = Call("delete", n, 0, <<>>)

Clear == stream' = <<>> /\ call' = Call("clear", <<>>, 0, <<>>)

Next ==
  \/ \E s \in Writes : Put(s)
  \/ \E n \in 0 .. Size + 1 : Get(n) \/ Delete(n)
  \/ GetChr
  \/ Clear

Spec == Init /\ [][Next]_<<stream, call>>
=============================================================================
