----------------------------- MODULE LineReader -----------------------------
(***************************************************************************)
(* From the socket to the plugins: bufsock_canread (src/sock.c) moves what *)
(* the kernel holds into recvbuf, irc_cb_data (src/irc.c) cuts lines from  *)
(* it.  Both the chunk that recv fills and recvbuf have BUFSIZE bytes.     *)
(*                                                                         *)
(* A byte is the number of the line it belongs to, or EOL.  recvbuf is the *)
(* stream that Buffer is shown to implement (ByteStream).                  *)
(***************************************************************************)
EXTENDS Integers, Sequences, SequencesExt

CONSTANTS
  Size,      \* BUFSIZE
  LineMax,   \* bytes of a line that irc_cb_data keeps
  Lengths,   \* lengths of the lines that the server sends, without EOL
  MaxLines,  \* bound on the lines sent
  Burst      \* the server keeps at most this many bytes unprocessed

ASSUME LineReaderAssumption ==
  /\ Size \in Nat \ {0} /\ LineMax \in Nat
  /\ Lengths \subseteq Nat /\ MaxLines \in Nat /\ Burst \in Nat

VARIABLES
  lens,     \* lengths of the lines sent on this connection
  net,      \* bytes sent and not yet received
  recvbuf,
  got,      \* lines handed to the plugins on this connection
  pc,       \* "poll", "recv" in bufsock_canread, "lines" in irc_cb_data
  closed,   \* the server has closed the connection
  peak,     \* ghost: Size or more bytes were unprocessed at once
  overrun   \* ghost: bytes were thrown away

readerVars == <<lens, net, recvbuf, got, pc, closed, peak, overrun>>

EOL == 0

Line(k, len) == [i \in 1 .. len |-> k]

Ring == INSTANCE ByteStream
          WITH stream <- recvbuf, call <- <<>>, Byte <- 0 .. MaxLines, MaxWrite <- Size

ReaderInit ==
  /\ lens = <<>> /\ net = <<>> /\ recvbuf = <<>> /\ got = <<>>
  /\ pc = "poll" /\ closed = FALSE /\ peak = FALSE /\ overrun = FALSE

ServerSends(len) ==
  /\ ~closed
  /\ Len(lens) < MaxLines
  /\ Len(net) + Len(recvbuf) + len + 1 <= Burst
  /\ lens' = Append(lens, len)
  /\ net' = net \o Append(Line(Len(lens) + 1, len), EOL)
  /\ peak' = (peak \/ Len(net') + Len(recvbuf) >= Size)
  /\ UNCHANGED <<recvbuf, got, pc, closed, overrun>>

ServerCloses ==
  /\ ~closed
  /\ closed' = TRUE
  /\ UNCHANGED <<lens, net, recvbuf, got, pc, peak, overrun>>

\* poll reports POLLIN.
PollIn ==
  /\ pc = "poll" /\ (net # <<>> \/ closed)
  /\ pc' = "recv"
  /\ UNCHANGED <<lens, net, recvbuf, got, closed, peak, overrun>>

Fits(chunk) == Ring!Fits(chunk)

\* One round of the loop in bufsock_canread: recv returns c bytes, what has
\* arrived of net; when buffer_put refuses them they are gone.
Recv(c) ==
  /\ pc = "recv"
  /\ c <= Size
  /\ LET chunk == SubSeq(net, 1, c)
     IN  IF Fits(chunk)
           THEN recvbuf' = recvbuf \o chunk /\ UNCHANGED <<pc, overrun>>
           ELSE pc' = "lines" /\ overrun' = TRUE /\ UNCHANGED recvbuf
  /\ net' = SubSeq(net, c + 1, Len(net))
  /\ UNCHANGED <<lens, got, closed, peak>>

\* recv returns -1 with EAGAIN: nothing more has arrived so far.
RecvAgain ==
  /\ pc = "recv" /\ ~(closed /\ net = <<>>)
  /\ pc' = IF recvbuf # <<>> THEN "lines" ELSE "poll"
  /\ UNCHANGED <<lens, net, recvbuf, got, closed, peak, overrun>>

\* recv returns 0: what recvbuf holds is not looked at any more, the buffers are
\* cleared by the next bufsock_tcp_connect.
RecvEof ==
  /\ pc = "recv" /\ closed /\ net = <<>>
  /\ lens' = <<>> /\ recvbuf' = <<>> /\ got' = <<>>
  /\ pc' = "poll" /\ closed' = FALSE /\ peak' = FALSE /\ overrun' = FALSE
  /\ UNCHANGED net

FirstEol == SelectInSeq(recvbuf, LAMBDA b : b = EOL)

\* Mutant: the EOL stays in the buffer.
KeepEol(pos, len) == Ring!Without(len)

\* bufsock_get takes len bytes, bufsock_delete the rest of the line; either
\* clears a full buffer.
Rest(pos, len) == Ring!Remaining(Ring!Without(len), pos - len)

\* Mutant: one byte less of a line.
CutShort(pos) == IF pos - 1 < LineMax THEN pos - 2 ELSE LineMax

Cut(pos) == IF pos - 1 < LineMax THEN pos - 1 ELSE LineMax

\* One round of the loop in irc_cb_data.
TakeLine ==
  /\ pc = "lines" /\ FirstEol # 0
  /\ got' = Append(got, SubSeq(recvbuf, 1, Cut(FirstEol)))
  /\ recvbuf' = Rest(FirstEol, Cut(FirstEol))
  /\ overrun' = (overrun \/ Len(recvbuf) = Size)
  /\ UNCHANGED <<lens, net, pc, closed, peak>>

\* Mutant: one line per callback.
OneLine(eol) == TRUE

\* while ((pos = bufsock_findchr(...)) != -1)
NoMoreLines(eol) == eol = 0

LinesDone ==
  /\ pc = "lines" /\ NoMoreLines(FirstEol)
  /\ pc' = "poll"
  /\ UNCHANGED <<lens, net, recvbuf, got, closed, peak, overrun>>

ReaderNext ==
  \/ \E len \in Lengths : ServerSends(len)
  \/ ServerCloses
  \/ PollIn
  \/ \E c \in 1 .. Len(net) : Recv(c)
  \/ RecvAgain \/ RecvEof \/ TakeLine \/ LinesDone

ReaderSpec == ReaderInit /\ [][ReaderNext]_readerVars

\* io_loop calls back a readable socket in every turn, and a callback runs to
\* its end; recv returns what has arrived, in the end all.
FairReaderSpec ==
  /\ ReaderSpec
  /\ WF_readerVars(PollIn) /\ WF_readerVars(TakeLine) /\ WF_readerVars(LinesDone)
  /\ WF_readerVars(RecvAgain) /\ SF_readerVars(\E c \in 1 .. Len(net) : Recv(c))

-----------------------------------------------------------------------------
\* Unless bytes were thrown away, every line reaches the plugins once, in
\* order and whole up to LineMax, and what is not handled yet is still there,
\* wherever recv happened to split the stream (sock.c:115, irc.c:391-394).
\* And bytes are thrown away only when Size bytes were waiting at once: Size - 1 is
\* safe, however they are split.
Lossless ==
  IF overrun THEN peak
  ELSE
    /\ Len(got) <= Len(lens)
    /\ \A k \in 1 .. Len(got) : got[k] = Line(k, IF lens[k] < LineMax THEN lens[k] ELSE LineMax)
    /\ recvbuf \o net = FlattenSeq([k \in 1 .. Len(lens) - Len(got) |->
                           Append(Line(Len(got) + k, lens[Len(got) + k]), EOL)])

\* As long as never Size bytes are waiting every line is handled, unless the
\* server closes the connection: the buffer cannot fill up without a line in
\* it, which would make the bot deaf for good.
EveryLineHandled ==
  \A k \in 1 .. MaxLines : Len(lens) >= k ~> (Len(got) >= k \/ closed \/ peak)
=============================================================================
