------------------------------- MODULE IoLoop -------------------------------
(***************************************************************************)
(* The event loop of src/io.c: the lists of descriptors and timers, and    *)
(* the turn that purges, polls and calls back.  Callbacks register, close  *)
(* and change entries of the lists that the turn is walking, and a closed  *)
(* descriptor's number comes back with the next socket.                    *)
(***************************************************************************)
EXTENDS Integers, Sequences, FiniteSets, SequencesExt, Lists

CONSTANTS
  Descriptor,  \* numbers the kernel gives to sockets
  Timer,       \* timer functions
  Entry,       \* names of list entries (their addresses)
  MaxOps       \* bound on the calls one callback makes

ASSUME IoAssumption == MaxOps \in Nat

None == "none"

\* NULL is no entry's address.
ASSUME EntryAssumption == None \notin Entry

VARIABLES
  iolist,     \* sequence of [e, d, rd, wr, remove], newest first
  iocnt,
  timerlist,  \* sequence of [e, func, remove], newest first
  open,       \* the descriptors that are open, as their owners see it
  set,        \* how often each timer function is set, as its owners count it
  thinned,    \* timer functions of which one of several settings was unset
  pc,         \* between turns "out", at an entry "write" or "read", "timers",
              \* or in a "callback"
  fds,        \* the polled entries: sequence of [d, e, events]
  n,          \* index into fds
  cursor,     \* the entry the walk is at
  ops,        \* calls the running callback may still make
  back        \* where the walk goes on when the callback returns

lists == <<iolist, iocnt, timerlist, open, set, thinned>>
walk == <<pc, fds, n, cursor, ops, back>>
vars == <<lists, walk>>

Addresses(s) == {s[i].e : i \in 1 .. Len(s)}
FreeEntry == Entry \ (Addresses(iolist) \cup Addresses(timerlist))

Live(s) == Sublist(s, {i \in 1 .. Len(s) : ~s[i].remove})

\* io_getentry
Found(d) == SelectInSeq(iolist, LAMBDA x : x.d = d /\ ~x.remove)

Init ==
  /\ iolist = <<>> /\ iocnt = 0 /\ timerlist = <<>> /\ open = {}
  /\ set = [f \in Timer |-> 0] /\ thinned = {}
  /\ pc = "out" /\ fds = <<>> /\ n = 1 /\ cursor = None /\ ops = 0 /\ back = "out"

-----------------------------------------------------------------------------
(* The calls a callback, or the program between two turns, may make. *)

Calling ==
  \/ pc = "callback" /\ ops > 0 /\ ops' = ops - 1
  \/ pc = "out" /\ UNCHANGED ops

NewIod(e, d) == [e |-> e, d |-> d, rd |-> FALSE, wr |-> FALSE, remove |-> FALSE]
NewIot(e, f) == [e |-> e, func |-> f, remove |-> FALSE]

\* Mutant: list_add_tail
AddTail(x, s) == Append(s, x)

\* list_add
Add(x, s) == <<x>> \o s

\* io_register of a new socket, whose number the kernel takes from the free ones.
Register(d) ==
  /\ Calling
  /\ d \notin open
  /\ open' = open \cup {d}
  /\ IF Found(d) # 0
       THEN UNCHANGED <<iolist, iocnt>>
       ELSE /\ \E e \in FreeEntry : iolist' = Add(NewIod(e, d), iolist)
            /\ iocnt' = iocnt + 1
  /\ UNCHANGED <<timerlist, set, thinned, pc, fds, n, cursor, back>>

\* Mutant: the count is left to the purge.
CloseUncounted(d) ==
  /\ Calling
  /\ d \in open
  /\ open' = open \ {d}
  /\ iolist' = [iolist EXCEPT ![Found(d)].remove = TRUE]
  /\ UNCHANGED <<iocnt, timerlist, set, thinned, pc, fds, n, cursor, back>>

\* io_close, with io_unregister: the entry is only marked, until the next turn.
Close(d) ==
  /\ Calling
  /\ d \in open
  /\ open' = open \ {d}
  /\ iolist' = [iolist EXCEPT ![Found(d)].remove = TRUE]
  /\ iocnt' = iocnt - 1
  /\ UNCHANGED <<timerlist, set, thinned, pc, fds, n, cursor, back>>

\* io_wantread and io_wantwrite, with a function or NULL.
WantRead(d, on) ==
  /\ Calling
  /\ d \in open
  /\ iolist' = [iolist EXCEPT ![Found(d)].rd = on]
  /\ UNCHANGED <<iocnt, open, timerlist, set, thinned, pc, fds, n, cursor, back>>

WantWrite(d, on) ==
  /\ Calling
  /\ d \in open
  /\ iolist' = [iolist EXCEPT ![Found(d)].wr = on]
  /\ UNCHANGED <<iocnt, open, timerlist, set, thinned, pc, fds, n, cursor, back>>

\* io_settimer.  irc_init sets irc_timer once more in every session and nobody
\* unsets it; the other callers unset a timer before they set it again.
SetTimer(f) ==
  /\ Calling
  /\ \E e \in FreeEntry : timerlist' = Add(NewIot(e, f), timerlist)
  /\ set' = [set EXCEPT ![f] = @ + 1]
  /\ UNCHANGED <<thinned, iolist, iocnt, open, pc, fds, n, cursor, back>>

\* The newest entry with that function, be it marked already, or 0.
FirstTimer(f) == SelectInSeq(timerlist, LAMBDA x : x.func = f)

\* io_unsettimer
UnsetTimer(f) ==
  /\ Calling
  /\ timerlist' = IF FirstTimer(f) = 0 THEN timerlist
                  ELSE [timerlist EXCEPT ![FirstTimer(f)].remove = TRUE]
  /\ set' = [set EXCEPT ![f] = IF @ = 0 THEN 0 ELSE @ - 1]
  /\ thinned' = IF set[f] > 1 THEN thinned \cup {f} ELSE thinned
  /\ UNCHANGED <<iolist, iocnt, open, pc, fds, n, cursor, back>>

-----------------------------------------------------------------------------
(* One turn of io_loop. *)

\* The purge ends at the iocnt-th live entry, by OwnersAgree the last one:
\* marked entries behind it stay for another turn.
Purged ==
  LET last == SelectLastInSeq(iolist, LAMBDA x : ~x.remove)
  IN  Live(iolist) \o (IF last = 0 THEN <<>> ELSE SubSeq(iolist, last + 1, Len(iolist)))

Asked(x) == {ev \in {"in", "out"} : (ev = "in" /\ x.rd) \/ (ev = "out" /\ x.wr)}

HeadOf(s) == IF s = <<>> THEN None ELSE s[1].e

IndexIn(s, e) == SelectInSeq(s, LAMBDA x : x.e = e)

After(s, e) == LET i == IndexIn(s, e) IN IF i = Len(s) THEN None ELSE s[i + 1].e

\* Purge and poll.  poll may report any of the events it is asked for.
StartTurn ==
  /\ pc = "out" /\ iolist # <<>>
  /\ iolist' = Purged
  /\ timerlist' = Live(timerlist)
  /\ LET polled == Live(iolist)
     IN  \E ev \in [1 .. Len(polled) -> SUBSET {"in", "out"}] :
           /\ \A i \in 1 .. Len(polled) : ev[i] \subseteq Asked(polled[i])
           /\ fds' = [i \in 1 .. Len(polled) |->
                        [d |-> polled[i].d, e |-> polled[i].e, events |-> ev[i]]]
  /\ n' = 1
  /\ IF Purged = <<>> THEN pc' = "timers" /\ cursor' = HeadOf(Live(timerlist))
                      ELSE pc' = "write" /\ cursor' = HeadOf(Purged)
  /\ UNCHANGED <<iocnt, open, set, thinned, ops, back>>

\* poll returns -1, on a signal: the lists are purged, nothing is called.
PollFails ==
  /\ pc = "out" /\ iolist # <<>>
  /\ iolist' = Purged
  /\ timerlist' = Live(timerlist)
  /\ UNCHANGED <<iocnt, open, set, thinned, walk>>

\* An empty iolist ends io_loop at once: no purge and no timers.
IdleTurn ==
  /\ pc = "out" /\ iolist = <<>>
  /\ UNCHANGED vars

StartTimers == pc' = "timers" /\ cursor' = HeadOf(timerlist) /\ n' = 1 /\ fds' = <<>>

\* The walk goes on with the next entry, or is over.
Advance(k) ==
  LET e == After(iolist, cursor)
  IN  IF k > Len(fds) \/ e = None
        THEN StartTimers
        ELSE pc' = "write" /\ cursor' = e /\ n' = k /\ UNCHANGED fds

Callback(return) == pc' = "callback" /\ ops' = MaxOps /\ back' = return

At == iolist[IndexIn(iolist, cursor)]

\* An entry that was not polled is passed over; InStep says there is none.
CallWrite ==
  /\ pc = "write"
  /\ IF fds[n].d # At.d
       THEN Advance(n) /\ UNCHANGED <<ops, back>>
       ELSE /\ IF ~At.remove /\ At.wr /\ "out" \in fds[n].events
                 THEN Callback("read")
                 ELSE pc' = "read" /\ UNCHANGED <<ops, back>>
            /\ UNCHANGED <<fds, n, cursor>>
  /\ UNCHANGED lists

\* Mutant: a marked entry is passed over without its place in fds.
CountUnless(marked) == IF marked THEN n ELSE n + 1

\* ++n
Count(marked) == n + 1

\* The entry is looked at again after can_write, which may have closed it.
CallRead ==
  /\ pc = "read"
  /\ IF ~At.remove /\ At.rd /\ "in" \in fds[n].events
       THEN Callback("advance") /\ UNCHANGED <<fds, n, cursor>>
       ELSE Advance(Count(At.remove)) /\ UNCHANGED <<ops, back>>
  /\ UNCHANGED lists

ReadDone ==
  /\ pc = "advance"
  /\ Advance(Count(At.remove))
  /\ UNCHANGED <<lists, ops, back>>

RunTimer ==
  /\ pc = "timers" /\ cursor # None
  /\ IF timerlist[IndexIn(timerlist, cursor)].remove
       THEN cursor' = After(timerlist, cursor) /\ UNCHANGED <<pc, ops, back>>
       ELSE Callback("timer_done") /\ UNCHANGED cursor
  /\ UNCHANGED <<lists, fds, n>>

TimerDone ==
  /\ pc = "timer_done"
  /\ cursor' = After(timerlist, cursor)
  /\ pc' = "timers"
  /\ UNCHANGED <<lists, fds, n, ops, back>>

EndTurn ==
  /\ pc = "timers" /\ cursor = None
  /\ pc' = "out"
  /\ UNCHANGED <<lists, fds, n, cursor, ops, back>>

Return ==
  /\ pc = "callback"
  /\ pc' = back
  /\ ops' = 0
  /\ UNCHANGED <<lists, fds, n, cursor, back>>

Next ==
  \/ \E d \in Descriptor : Register(d) \/ Close(d)
  \/ \E d \in Descriptor, on \in BOOLEAN : WantRead(d, on) \/ WantWrite(d, on)
  \/ \E f \in Timer : SetTimer(f) \/ UnsetTimer(f)
  \/ StartTurn \/ PollFails \/ IdleTurn
  \/ CallWrite \/ CallRead \/ ReadDone
  \/ RunTimer \/ TimerDone \/ EndTurn \/ Return

Spec == Init /\ [][Next]_vars

-----------------------------------------------------------------------------
OverFds == pc \in {"write", "read", "advance"} \/ (pc = "callback" /\ back \in {"read", "advance"})
OverTimers == pc \in {"timers", "timer_done"} \/ (pc = "callback" /\ back = "timer_done")

\* Values of the variables: iolist, timerlist and iocnt (io.c:32)
TypeOK ==
  /\ \A i \in 1 .. Len(iolist) :
       iolist[i] \in [e : Entry, d : Descriptor, rd : BOOLEAN, wr : BOOLEAN, remove : BOOLEAN]
  /\ \A i \in 1 .. Len(timerlist) :
       timerlist[i] \in [e : Entry, func : Timer, remove : BOOLEAN]
  /\ iocnt \in Nat /\ n \in Nat /\ ops \in 0 .. MaxOps
  /\ open \subseteq Descriptor /\ set \in [Timer -> Nat] /\ thinned \subseteq Timer
  /\ pc \in {"out", "write", "read", "advance", "timers", "timer_done", "callback"}
  /\ cursor \in Entry \cup {None}

\* The addresses of the entries that have io_loop call f.
Serving(s, f) == {s[i].e : i \in {j \in 1 .. Len(s) : s[j].func = f /\ ~s[j].remove}}

\* What the owners hold open is what the loop serves, once each, and what iocnt
\* counts; a timer is called once a turn for every time it is set.  A socket or
\* a timer that was dropped and taken again in one turn is not lost among the
\* marked entries, a dropped one is not called again, and fds has room for every
\* live entry (io.c:213, 222-233).  Of a timer that is set several times
\* unsetting takes back at most one setting: two such calls in one turn mark one
\* entry (io.c:171-176), so that it may then be called too often, never too rarely.
OwnersAgree ==
  /\ TypeOK
  /\ {x.d : x \in ToSet(Live(iolist))} = open /\ Len(Live(iolist)) = Cardinality(open)
  /\ iocnt = Cardinality(open)
  /\ \A f \in Timer :
       /\ Cardinality(Serving(timerlist, f)) >= set[f]
       /\ f \notin thinned => Cardinality(Serving(timerlist, f)) = set[f]

\* The walk over iolist stays in step with fds although callbacks close and
\* register: the events looked at are those of the entry itself and not of
\* another socket with its number, and no entry that was polled is missed.
\* Neither walk ever stands on an entry that a callback has freed (io.c:248, 263).
InStep ==
  /\ OverFds => /\ cursor \in Addresses(iolist) /\ n <= Len(fds) /\ fds[n].e = cursor
                /\ After(iolist, cursor) = None => n = Len(fds)
  /\ OverTimers /\ cursor # None => cursor \in Addresses(timerlist)

Behind(s) == Len(s) - IndexIn(s, cursor)

\* A turn ends: callbacks add in front of the walk, never behind it.
NothingAddedBehind ==
  [][ (OverFds /\ OverFds' => Behind(iolist)' <= Behind(iolist))
      /\ (OverTimers /\ OverTimers' /\ None \notin {cursor, cursor'}
            => Behind(timerlist)' <= Behind(timerlist)) ]_vars
=============================================================================
