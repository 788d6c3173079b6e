----------------------------- MODULE SendQueue ------------------------------
(***************************************************************************)
(* What becomes of a line that a plugin sends: irc.linequeue and its timer *)
(* (src/irc.c), the ring bs->sendbuf and bufsock_canwrite (src/sock.c),    *)
(* down to the bytes that the kernel takes.                                *)
(*                                                                         *)
(* A line is [id, len]; its bytes are all the id.  Time is in seconds, the *)
(* unit of LINEDELAY; timediff is an int of microseconds, whose wraparound *)
(* is kept with a smaller width.                                           *)
(***************************************************************************)
EXTENDS Integers, Sequences, SequencesExt

CONSTANTS
  Size,       \* BUFSIZE
  Lengths,    \* lengths of lines
  MaxLines,   \* bound on the lines sent in all
  Delay,      \* LINEDELAY
  HalfRange,  \* the least difference that timediff returns as a negative number
  PingEvery   \* the server's PINGs make the bot send at least this often

ASSUME SendQueueAssumption ==
  /\ Size \in Nat \ {0} /\ Lengths \subseteq 1 .. Size /\ MaxLines \in Nat
  /\ Delay \in Nat /\ HalfRange \in Nat /\ Delay + 1 < HalfRange
  /\ PingEvery \in Nat

\* A server's PINGs come far more often than timediff wraps, every 2147 s (util.c:140).
ASSUME PingAssumption == PingEvery < HalfRange

VARIABLES
  queue,     \* irc.linequeue
  ring,      \* bs->sendbuf
  since,     \* now - irc.lastline, modulo the range of int
  up,        \* bs->s # -1
  want,      \* bufsock_canwrite is wanted for bs->s
  pc,        \* "loop", "write" in bufsock_canwrite, "discon" in irc_discon
  wire,      \* bytes that the kernel took on this connection
  \* ghosts
  made,      \* lines sent so far, by their ids
  accepted,  \* lines that this connection has to carry, in order
  first,     \* id of the line that registers on this connection
  idle,      \* seconds since irc_init or the last line put into the ring, capped
  gap,       \* idle when the last line was put there
  lossy,     \* a line was refused by the ring, or bytes behind it were sent
  partial    \* the kernel took less than it was offered

ghosts == <<made, accepted, first>>
vars == <<queue, ring, since, up, want, pc, wire, ghosts, idle, gap, lossy, partial>>

Junk == 0
Byte == 0 .. MaxLines

B == INSTANCE BufferOps

IdleCap == 2 * HalfRange

Bytes(l) == [i \in 1 .. l.len |-> l.id]
Flat(lines) == FlattenSeq([i \in 1 .. Len(lines) |-> Bytes(lines[i])])

Init ==
  /\ queue = <<>>
  /\ ring = [data |-> [i \in 0 .. Size - 1 |-> Junk], wp |-> 0, rp |-> 0,
             full |-> FALSE, empty |-> TRUE]
  /\ since = 0 /\ up = FALSE /\ want = FALSE /\ pc = "loop" /\ wire = <<>>
  /\ made = 0 /\ accepted = <<>> /\ first = 0
  /\ idle = 0 /\ gap = IdleCap /\ lossy = FALSE /\ partial = FALSE

-----------------------------------------------------------------------------
(* Sending works on a record of what it changes, as irc_reg sends twice.    *)

Here == [queue |-> queue, ring |-> ring, since |-> since, want |-> want,
         idle |-> idle, gap |-> gap, lossy |-> lossy]

Become(c) ==
  /\ queue' = c.queue /\ ring' = c.ring /\ since' = c.since /\ want' = c.want
  /\ idle' = c.idle /\ gap' = c.gap /\ lossy' = c.lossy

\* Mutant: a second more.
PassedLate(s) == s < HalfRange /\ s > Delay + 1

\* timediff(now, lastline) > LINEDELAY: a difference of HalfRange is negative.
Passed(s) == s < HalfRange /\ s > Delay

\* irc_sendbuf_now, with bufsock_put; callers ignore a line that is refused.
SendNow(c, l, open) ==
  LET fits == B!CanPut(c.ring, Bytes(l))
  IN  [c EXCEPT !.ring = IF fits THEN B!PutDone(@, Bytes(l)) ELSE @,
                !.want = @ \/ (fits /\ open),
                !.since = 0, !.idle = 0, !.gap = c.idle,
                !.lossy = @ \/ ~fits]

\* Mutant: a line overtakes the queue.
SendBufOvertakes(c, l, open) ==
  IF Passed(c.since) THEN SendNow(c, l, open)
  ELSE [c EXCEPT !.queue = Append(@, l)]

\* irc_sendbuf
SendBuf(c, l, open) ==
  IF c.queue = <<>> /\ Passed(c.since) THEN SendNow(c, l, open)
  ELSE [c EXCEPT !.queue = Append(@, l)]

\* A plugin sends a line: irc_send, irc_privmsg, ...
Submit(len) ==
  /\ pc = "loop" /\ first # 0 /\ made < MaxLines
  /\ LET l == [id |-> made + 1, len |-> len]
     IN  /\ Become(SendBuf(Here, l, up))
         /\ accepted' = Append(accepted, l)
  /\ made' = made + 1
  /\ UNCHANGED <<up, pc, wire, first, partial>>

\* irc_timer
Timer ==
  /\ pc = "loop"
  /\ queue # <<>> /\ Passed(since)
  /\ Become(SendNow([Here EXCEPT !.queue = Tail(@)], Head(queue), up))
  /\ UNCHANGED <<up, pc, wire, ghosts, partial>>

\* irc_reg: NICK and USER, a PASS before them being one line more; they do not
\* overtake what is queued already.
Register(c, lines) == SendBuf(SendBuf(c, lines[1], FALSE), lines[2], FALSE)

\* irc_conn, after an error or before the first connection: the ring is cleared,
\* irc.linequeue is not.  (The reconnect after a silence, which leaves the old
\* socket open, is in Connection; a failing send is WriteDone and then this.)
Connect ==
  /\ pc = "loop" /\ made + 2 <= MaxLines
  /\ up' = FALSE
  /\ LET lines == <<[id |-> made + 1, len |-> 1], [id |-> made + 2, len |-> 1]>>
     IN  /\ Become(Register([Here EXCEPT !.ring = B!Cleared(@), !.want = FALSE,
                                         !.lossy = FALSE], lines))
         /\ accepted' = queue \o lines
  /\ made' = made + 2
  /\ first' = made + 1
  /\ wire' = <<>> /\ partial' = FALSE
  /\ UNCHANGED pc

\* The name is resolved and connect() under way: bufsock_tcp_conn.
SocketUp ==
  /\ pc = "loop" /\ first # 0 /\ ~up
  /\ up' = TRUE /\ want' = TRUE
  /\ UNCHANGED <<queue, ring, since, pc, wire, ghosts, idle, gap, lossy, partial>>

\* The loop of irc_discon, which empties the queue from its head on.
Flushed ==
  LET sent[n \in 0 .. Len(queue)] ==
        IF n = 0 THEN [Here EXCEPT !.queue = <<>>] ELSE SendNow(sent[n - 1], queue[n], up)
  IN  sent[Len(queue)]

\* irc_discon: the queue goes out at once, without delay.
Discon ==
  /\ pc = "loop" /\ first # 0
  /\ Become([Flushed EXCEPT !.gap = gap])
  /\ pc' = "discon"
  /\ UNCHANGED <<up, wire, ghosts, partial>>

\* bufsock_discon has sent what it could; irc_free, and irc_init when the bot
\* restarts or reloads.
Restart ==
  /\ pc = "discon"
  /\ queue' = <<>> /\ ring' = B!Cleared(ring)
  /\ since' = 0 /\ up' = FALSE /\ want' = FALSE /\ pc' = "loop" /\ wire' = <<>>
  /\ accepted' = <<>> /\ first' = 0
  /\ idle' = 0 /\ lossy' = FALSE /\ partial' = FALSE
  /\ UNCHANGED <<made, gap>>

-----------------------------------------------------------------------------
(* bufsock_canwrite and, for a last time, bufsock_discon: buffer_map, send, buffer_delete until nothing is left. *)

PollOut ==
  /\ pc = "loop" /\ up /\ want
  /\ pc' = "write"
  /\ UNCHANGED <<queue, ring, since, up, want, wire, ghosts, idle, gap, lossy, partial>>

Offered == B!Span(ring)
PastEnd == Offered.from + Offered.len > Size

\* The memory behind data is not the stream's.
Cell(i) == IF i < Size THEN ring.data[i] ELSE Junk

\* buffer_delete(&bs->sendbuf, ret)
SentBytes(k) == k

\* send takes k bytes.
Send(k) ==
  /\ pc = "write" \/ (pc = "discon" /\ up)
  /\ k <= Offered.len
  /\ wire' = wire \o [i \in 1 .. k |-> Cell(Offered.from + i - 1)]
  /\ ring' = B!Deleted(ring, SentBytes(k))
  /\ partial' = (partial \/ k < Offered.len)
  /\ lossy' = (lossy \/ PastEnd)
  /\ UNCHANGED <<queue, since, up, want, pc, ghosts, idle, gap>>

\* Mutant: the write interest goes when the kernel is busy.
WantAfter(again) == FALSE

StillWanted(again) == again

\* Nothing is offered, or send returns EAGAIN: then POLLOUT stays wanted.
WriteDone ==
  /\ pc = "write"
  /\ want' = StillWanted(Offered.len > 0)
  /\ pc' = "loop"
  /\ UNCHANGED <<queue, ring, since, up, wire, ghosts, idle, gap, lossy, partial>>

\* The bound on lines: none will be sent any more.
Over == made = MaxLines \/ (first = 0 /\ made + 2 > MaxLines)

Wrapped(s) == s % (2 * HalfRange)

\* A second passes.  irc_timer runs ten times a second, so not while it has
\* something to do; a PING comes before PingEvery seconds of silence are over.
Tick ==
  /\ pc = "loop"
  /\ ~(queue # <<>> /\ Passed(since))
  /\ queue # <<>> \/ idle < PingEvery \/ Over
  /\ since' = Wrapped(since + 1)
  /\ idle' = IF idle < IdleCap THEN idle + 1 ELSE idle
  /\ UNCHANGED <<queue, ring, up, want, pc, wire, ghosts, gap, lossy, partial>>

Next ==
  \/ \E len \in Lengths : Submit(len)
  \/ Timer \/ Connect \/ SocketUp \/ Discon \/ Restart
  \/ PollOut \/ WriteDone
  \/ \E k \in 1 .. Size : Send(k)
  \/ Tick

Spec == Init /\ [][Next]_vars

\* The loop serves a writable socket and its timers in every turn; the kernel
\* takes bytes again and again as long as the connection is alive.
FairSpec ==
  /\ Spec
  /\ WF_vars(Timer) /\ WF_vars(Tick) /\ WF_vars(SocketUp)
  /\ WF_vars(Restart) /\ WF_vars(PollOut) /\ WF_vars(WriteDone) /\ SF_vars(\E k \in 1 .. Size : Send(k))

-----------------------------------------------------------------------------
\* Values of the variables: irc.linequeue and irc.lastline, bs->sendbuf (buffer.c)
TypeOK ==
  /\ ring \in B!Buffers
  /\ since \in 0 .. 2 * HalfRange - 1
  /\ {up, want, lossy, partial} \subseteq BOOLEAN
  /\ pc \in {"loop", "write", "discon"}
  /\ idle \in 0 .. IdleCap /\ gap \in 0 .. IdleCap
  /\ Len(accepted) <= MaxLines /\ made \in 0 .. MaxLines

\* The ring offers memory behind its end only after the kernel took part of an
\* offer (buffer.c:74 and 175): whole sends always restart it at 0.
PastEndNeedsPartial == B!Length(ring) > 0 /\ PastEnd => partial

\* Unless the ring refused a line or offered memory behind its end, the server
\* gets every line of this connection once and in the order of sending, however
\* they travelled: directly, through the queue, in whatever pieces (irc.c:44-77,
\* sock.c:79-107).
Conservation ==
  /\ TypeOK /\ PastEndNeedsPartial
  /\ ~lossy => wire \o B!Content(ring) \o Flat(queue) = Flat(accepted)

\* Lines are put into the ring more than LINEDELAY apart, be it directly, by
\* the timer or when a connection registers (irc.c:67, 370), but for the farewell
\* of irc_discon; and a queued line goes out as soon as the last one is LINEDELAY
\* old: the bot is not mute, given PINGs more often than timediff wraps (util.c:140).
Paced == gap > Delay /\ (queue # <<>> => idle <= Delay + 1)

\* Every line reaches the kernel, unless it is lost as Conservation allows, its
\* connection goes, or the ring is exactly full: then nothing is offered any
\* more (buffer.c:175) and POLLOUT is off.
EveryLineSent ==
  \A id \in 1 .. MaxLines :
    (made >= id /\ up) ~> ((\E i \in 1 .. Len(wire) : wire[i] = id) \/ lossy \/ ring.full \/ ~up
                              \/ ~\E i \in 1 .. Len(accepted) : accepted[i].id = id)
=============================================================================
