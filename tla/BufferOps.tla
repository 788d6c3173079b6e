------------------------------ MODULE BufferOps ------------------------------
(***************************************************************************)
(* The ring buffer of src/buffer.c as operators on a record that has the   *)
(* fields of buffer_t (src/include/buffer.h).  The modules that own a      *)
(* buffer instantiate this one; Buffer turns it into a state machine.      *)
(***************************************************************************)
EXTENDS Integers, Sequences

CONSTANTS
  Size,   \* buf->siz, fixed by buffer_init
  Byte    \* the bytes that may be stored

ASSUME SizeAssumption == Size \in Nat \ {0}

Index == 0 .. Size - 1

Buffers == [data : [Index -> Byte], wp : Index, rp : Index,
            full : BOOLEAN, empty : BOOLEAN]

\* buffer_clear leaves the bytes in place.
Cleared(b) == [data |-> b.data, wp |-> 0, rp |-> 0, full |-> FALSE, empty |-> TRUE]

\* malloc gives a fresh buffer unspecified bytes.
FreshBuffers ==
  {[data |-> d, wp |-> 0, rp |-> 0, full |-> FALSE, empty |-> TRUE] :
     d \in [Index -> Byte]}

\* (wp + siz - rp) % siz, which is 0 for a full buffer as for an empty one.
Gap(b) == (b.wp + Size - b.rp) % Size

Length(b) == IF b.empty THEN 0 ELSE IF b.full THEN Size ELSE Gap(b)

\* The unread bytes, oldest first.
Content(b) == [i \in 1 .. Length(b) |-> b.data[(b.rp + i - 1) % Size]]

AtMost(n, m) == IF n < m THEN n ELSE m

\* buffer_peek copies out the first n unread bytes, or as many as there are.
Peeked(b, n) == [i \in 1 .. AtMost(n, Length(b)) |-> b.data[(b.rp + i - 1) % Size]]

\* Mutant: delete that clears only when asked for more than there is.
DeletedOffByOne(b, n) ==
  IF n <= 0 THEN b
  ELSE IF n > Gap(b) THEN Cleared(b)
  ELSE [data |-> b.data, wp |-> b.wp, rp |-> (b.rp + n) % Size,
        full |-> FALSE, empty |-> b.empty]

\* buffer_delete compares with Gap: on a full buffer it clears everything.
Deleted(b, n) ==
  IF n <= 0 THEN b
  ELSE IF n >= Gap(b) THEN Cleared(b)
  ELSE [data |-> b.data, wp |-> b.wp, rp |-> (b.rp + n) % Size,
        full |-> FALSE, empty |-> b.empty]

\* The room buffer_put sees; it refuses a full buffer before it looks.
Room(b) == IF b.empty THEN Size ELSE (b.rp + Size - b.wp) % Size

CanPut(b, s) == ~b.full /\ (s = <<>> \/ Len(s) <= Room(b))

\* Mutant: put whose second memcpy starts at the first byte again.
PutDoneOneCopy(b, s) ==
  IF s = <<>> THEN b
  ELSE LET wp == (b.wp + Len(s)) % Size
           off(i) == (i + Size - b.wp) % Size
           src(i) == IF i < b.wp THEN i ELSE off(i)
       IN  [data  |-> [i \in Index |->
                         IF off(i) < Len(s) THEN s[src(i) + 1] ELSE b.data[i]],
            wp    |-> wp, rp |-> b.rp, full |-> wp = b.rp, empty |-> FALSE]

\* buffer_put once it has found room (so the buffer is not full).
\* The cell i receives the byte of s that the two memcpy calls put there.
PutDone(b, s) ==
  IF s = <<>> THEN b
  ELSE LET wp == (b.wp + Len(s)) % Size
           off(i) == (i + Size - b.wp) % Size
       IN  [data  |-> [i \in Index |->
                         IF off(i) < Len(s) THEN s[off(i) + 1] ELSE b.data[i]],
            wp    |-> wp,
            rp    |-> b.rp,
            full  |-> wp = b.rp,
            empty |-> FALSE]

\* buffer_putchr, called when the buffer is not full.
PutChrDone(b, c) ==
  LET wp == (b.wp + 1) % Size
  IN  [data |-> [b.data EXCEPT ![b.wp] = c], wp |-> wp, rp |-> b.rp,
       full |-> wp = b.rp, empty |-> FALSE]

\* Mutant: map that offers the cells up to the end of the ring.
SpanRoom(b) == [from |-> b.rp, len |-> IF b.empty THEN 0 ELSE Size - b.rp]

\* The span buffer_map returns: an index into data and a length.
Span(b) == [from |-> b.rp, len |-> IF b.empty THEN 0 ELSE Gap(b)]

\* buffer_findchr: 1-based position of the first c, -1 when there is none.
FindChr(b, c) ==
  LET hits == {n \in 1 .. Length(b) : b.data[(b.rp + n - 1) % Size] = c}
  IN  IF hits = {} THEN -1 ELSE CHOOSE n \in hits : \A m \in hits : n <= m
=============================================================================
