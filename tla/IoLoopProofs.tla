---------------------------- MODULE IoLoopProofs ----------------------------
(***************************************************************************)
(* Proofs about the event loop: for any numbers of descriptors, timers and *)
(* entries and any number of calls a callback makes, the loop serves what  *)
(* its owners hold open or set, and its walks never lose their place.      *)
(***************************************************************************)
EXTENDS IoLoop, ListProofs

Iod == [e : Entry, d : Descriptor, rd : BOOLEAN, wr : BOOLEAN, remove : BOOLEAN]
Iot == [e : Entry, func : Timer, remove : BOOLEAN]
Polled == [d : Descriptor, e : Entry, events : SUBSET {"in", "out"}]

\* No two entries of a list have the same address.
Distinct(s) == \A i, j \in 1 .. Len(s) : s[i].e = s[j].e => i = j

TypedLists ==
  /\ iolist \in Seq(Iod) /\ Distinct(iolist)
  /\ timerlist \in Seq(Iot) /\ Distinct(timerlist)
  /\ iocnt \in Nat
  /\ open \subseteq Descriptor /\ IsFiniteSet(open)
  /\ set \in [Timer -> Nat] /\ thinned \subseteq Timer

TypedWalk ==
  /\ pc \in {"out", "write", "read", "advance", "timers", "timer_done", "callback"}
  /\ pc = "callback" => back \in {"read", "advance", "timer_done"}
  /\ pc = "timer_done" \/ (pc = "callback" /\ back = "timer_done") => cursor # None
  /\ fds \in Seq(Polled)
  /\ n \in Nat
  /\ cursor \in Entry \cup {None}
  /\ ops \in 0 .. MaxOps

\* Every open descriptor has one live entry, and no other entry is live.
ServedFds(s, held) ==
  /\ \A i \in 1 .. Len(s) : ~s[i].remove => s[i].d \in held
  /\ \A d \in held : \E i \in 1 .. Len(s) : s[i].d = d /\ ~s[i].remove
  /\ \A i, j \in 1 .. Len(s) : s[i].d = s[j].d /\ ~s[i].remove /\ ~s[j].remove => i = j

\* The live entries of a timer are in front of all its marked ones.
LiveInFront(s, f) ==
  \A i, j \in 1 .. Len(s) :
    s[i].func = f /\ s[j].func = f /\ s[i].remove /\ ~s[j].remove => j < i

\* A timer has a live entry for every time it is set, and no more unless one of
\* several settings was unset.
ServedTimers(s, times, loose) ==
  \A f \in Timer :
    /\ IsFiniteSet(Serving(s, f))
    /\ Cardinality(Serving(s, f)) >= times[f]
    /\ f \notin loose => Cardinality(Serving(s, f)) = times[f] /\ LiveInFront(s, f)

Served ==
  /\ ServedFds(iolist, open)
  /\ ServedTimers(timerlist, set, thinned)
  /\ iocnt = Cardinality(open)

\* From its place on, the walk over iolist meets the entries that were polled,
\* in the order of fds.
Place(c) ==
  /\ c \in 1 .. Len(iolist)
  /\ iolist[c].e = cursor
  /\ \A k \in n .. Len(fds) :
       /\ c + (k - n) <= Len(iolist)
       /\ iolist[c + (k - n)].e = fds[k].e
       /\ iolist[c + (k - n)].d = fds[k].d

FdsInStep == OverFds => n \in 1 .. Len(fds) /\ \E c \in 1 .. Len(iolist) : Place(c)

TimersInStep == OverTimers /\ cursor # None => cursor \in Addresses(timerlist)

Inv == TypedLists /\ TypedWalk /\ Served /\ FdsInStep /\ TimersInStep

-----------------------------------------------------------------------------
(* Finding entries.                                                         *)

\* An entry is found by its address.
LEMMA IndexIs ==
  ASSUME NEW s, Len(s) \in Nat, Distinct(s), NEW i \in 1 .. Len(s)
  PROVE  IndexIn(s, s[i].e) = i
<1> DEFINE I == {j \in 1 .. Len(s) : s[j].e = s[i].e}
<1>1. IndexIn(s, s[i].e) = IF I # {} THEN Min(I) ELSE 0
  BY DEF IndexIn, SelectInSeq
<1>2. I = {i}
  BY DEF Distinct
<1>3. i \in Nat
  OBVIOUS
<1> HIDE DEF I
<1>4. Min(I) \in I
  BY <1>2, <1>3, MinIs
<1> QED BY <1>1, <1>2, <1>4

\* The walk goes on with the entry behind it.
LEMMA AfterIs ==
  ASSUME NEW s, Len(s) \in Nat, Distinct(s), NEW i \in 1 .. Len(s)
  PROVE  After(s, s[i].e) = IF i = Len(s) THEN None ELSE s[i + 1].e
BY IndexIs DEF After

\* io_getentry finds the live entry of an open descriptor, and none of a closed one.
LEMMA FoundIs ==
  ASSUME TypedLists, Served, NEW d
  PROVE  /\ d \in open => /\ Found(d) \in 1 .. Len(iolist)
                          /\ iolist[Found(d)].d = d /\ ~iolist[Found(d)].remove
         /\ d \notin open => Found(d) = 0
<1> DEFINE I == {j \in 1 .. Len(iolist) : iolist[j].d = d /\ ~iolist[j].remove}
<1>1. Found(d) = IF I # {} THEN Min(I) ELSE 0
  BY DEF Found, SelectInSeq
<1>2. (d \in open => I # {}) /\ (d \notin open => I = {})
  BY DEF Served, ServedFds
<1>3. I # {} => Min(I) \in I
  <2>1. I \subseteq Nat
    BY LenProperties DEF TypedLists
  <2> HIDE DEF I
  <2> QED BY <2>1, MinIs
<1>4. \A j \in I : j \in 1 .. Len(iolist) /\ iolist[j].d = d /\ ~iolist[j].remove
  OBVIOUS
<1> HIDE DEF I
<1> QED BY <1>1, <1>2, <1>3, <1>4

\* The entries that have io_loop call a timer.
LEMMA ServingIs ==
  ASSUME NEW s, NEW f, NEW x
  PROVE  x \in Serving(s, f) <=> \E i \in 1 .. Len(s) : s[i].func = f /\ ~s[i].remove /\ s[i].e = x
BY DEF Serving

\* io_unsettimer finds the newest entry of a timer, if it has any.
LEMMA FirstTimerIs ==
  ASSUME TypedLists, NEW f
  PROVE  \/ /\ FirstTimer(f) = 0
            /\ \A i \in 1 .. Len(timerlist) : timerlist[i].func # f
         \/ /\ FirstTimer(f) \in 1 .. Len(timerlist)
            /\ timerlist[FirstTimer(f)].func = f
            /\ \A i \in 1 .. Len(timerlist) : timerlist[i].func = f => FirstTimer(f) <= i
<1> DEFINE I == {j \in 1 .. Len(timerlist) : timerlist[j].func = f}
<1>1. FirstTimer(f) = IF I # {} THEN Min(I) ELSE 0
  BY DEF FirstTimer, SelectInSeq
<1>2. \A j : j \in I <=> j \in 1 .. Len(timerlist) /\ timerlist[j].func = f
  OBVIOUS
<1>3. I \subseteq Nat
  BY LenProperties DEF TypedLists
<1> HIDE DEF I
<1>4. CASE I = {}
  BY <1>1, <1>2, <1>4
<1>5. CASE I # {}
  <2>1. Min(I) \in I /\ \A i \in I : Min(I) <= i
    BY <1>3, <1>5, MinIs
  <2> QED BY <1>1, <1>2, <1>5, <2>1
<1> QED BY <1>4, <1>5

-----------------------------------------------------------------------------
(* The calls: a list is grown at its head or one of its entries changed.    *)

\* What an entry wants is changed.
LEMMA Wanting ==
  ASSUME NEW s \in Seq(Iod), NEW p \in 1 .. Len(s), NEW on \in BOOLEAN, NEW t,
         t = [s EXCEPT ![p].rd = on] \/ t = [s EXCEPT ![p].wr = on]
  PROVE  /\ t \in Seq(Iod) /\ Len(t) = Len(s)
         /\ \A i \in 1 .. Len(s) : t[i].e = s[i].e /\ t[i].d = s[i].d /\ t[i].remove = s[i].remove
<1> DEFINE r == [s[p] EXCEPT !.rd = on]
           w == [s[p] EXCEPT !.wr = on]
<1>1. \A i \in 1 .. Len(s) : s[i] \in Iod
  BY ElementOfSeq
<1>2. /\ r \in Iod /\ r.e = s[p].e /\ r.d = s[p].d /\ r.remove = s[p].remove
      /\ w \in Iod /\ w.e = s[p].e /\ w.d = s[p].d /\ w.remove = s[p].remove
  BY <1>1 DEF Iod
<1>3. t = [s EXCEPT ![p] = r] \/ t = [s EXCEPT ![p] = w]
  OBVIOUS
<1> HIDE DEF r, w
<1>4. PICK x \in {r, w} : t = [s EXCEPT ![p] = x]
  BY <1>3
<1>5. x \in Iod /\ x.e = s[p].e /\ x.d = s[p].d /\ x.remove = s[p].remove
  BY <1>2
<1>6. t \in Seq(Iod) /\ Len(t) = Len(s) /\ \A i \in 1 .. Len(s) : t[i] = IF i = p THEN x ELSE s[i]
  BY <1>4, <1>5, ExceptSeq
<1> QED BY <1>5, <1>6, Zenon

\* An entry more comes first.
LEMMA AddIs ==
  ASSUME NEW S, NEW s \in Seq(S), NEW x \in S
  PROVE  /\ Add(x, s) \in Seq(S) /\ Len(Add(x, s)) = Len(s) + 1
         /\ Add(x, s)[1] = x
         /\ \A i \in 1 .. Len(s) : Add(x, s)[i + 1] = s[i]
<1> DEFINE h == <<x>>
           t == h \o s
<1>1. h \in Seq(S) /\ Len(h) = 1 /\ h[1] = x
  OBVIOUS
<1>2. Len(s) \in Nat
  BY LenProperties
<1> HIDE DEF h
<1>3. t \in Seq(S) /\ Len(t) = 1 + Len(s)
      /\ \A i \in 1 .. 1 + Len(s) : t[i] = IF i <= 1 THEN h[i] ELSE s[i - 1]
  <2>1. /\ h \o s \in Seq(S)
        /\ Len(h \o s) = Len(h) + Len(s)
        /\ \A i \in 1 .. Len(h) + Len(s) :
             (h \o s)[i] = IF i <= Len(h) THEN h[i] ELSE s[i - Len(h)]
    BY <1>1, ConcatProperties, Zenon
  <2> QED BY <1>1, <2>1, Zenon
<1> HIDE DEF t
<1>4. \A i \in 1 .. Len(s) : t[i + 1] = s[i]
  BY <1>2, <1>3
<1>5. t[1] = x
  BY <1>1, <1>2, <1>3
<1> QED BY <1>2, <1>3, <1>4, <1>5 DEF Add, t, h

\* The same for an entry of a descriptor.
LEMMA AddIod ==
  ASSUME NEW s \in Seq(Iod), NEW x \in Iod
  PROVE  /\ Add(x, s) \in Seq(Iod) /\ Len(Add(x, s)) = Len(s) + 1
         /\ Add(x, s)[1] = x
         /\ \A i \in 1 .. Len(s) : Add(x, s)[i + 1] = s[i]
BY AddIs

\* The same for an entry of a timer.
LEMMA AddIot ==
  ASSUME NEW s \in Seq(Iot), NEW x \in Iot
  PROVE  /\ Add(x, s) \in Seq(Iot) /\ Len(Add(x, s)) = Len(s) + 1
         /\ Add(x, s)[1] = x
         /\ \A i \in 1 .. Len(s) : Add(x, s)[i + 1] = s[i]
BY AddIs

\* t is s with h entries more in front.
Shifted(s, t, h) == Len(t) = Len(s) + h /\ \A i \in 1 .. Len(s) : t[i + h].e = s[i].e

SameSockets(s, t, h) == \A i \in 1 .. Len(s) : t[i + h].d = s[i].d

\* What every call leaves of the lists and of the walk.
Called ==
  /\ \E h \in {0, 1} : Shifted(iolist, iolist', h) /\ SameSockets(iolist, iolist', h)
  /\ \E h \in {0, 1} : Shifted(timerlist, timerlist', h)
  /\ UNCHANGED <<pc, fds, n, cursor, back>>

\* A list that stays as it is is one with no entry more in front.
LEMMA NotShifted ==
  ASSUME TypedLists
  PROVE  /\ iolist' = iolist => Shifted(iolist, iolist', 0) /\ SameSockets(iolist, iolist', 0)
         /\ timerlist' = timerlist => Shifted(timerlist, timerlist', 0)
<1>1. Len(iolist) \in Nat /\ Len(timerlist) \in Nat
  BY LenProperties DEF TypedLists
<1>2. \A i \in 1 .. Len(iolist) : i + 0 = i
  BY <1>1
<1>3. \A i \in 1 .. Len(timerlist) : i + 0 = i
  BY <1>1
<1>4. Len(iolist) + 0 = Len(iolist) /\ Len(timerlist) + 0 = Len(timerlist)
  BY <1>1
<1> QED BY <1>2, <1>3, <1>4, Zenon DEF Shifted, SameSockets

\* A call may be made from a callback or between two turns.
LEMMA CallingTyped ==
  ASSUME TypedWalk, Calling, UNCHANGED <<pc, fds, n, cursor, back>>
  PROVE  TypedWalk'
<1>1. ops' \in 0 .. MaxOps
  BY IoAssumption DEF TypedWalk, Calling
<1> QED BY <1>1 DEF TypedWalk

\* io_register
LEMMA RegisterCalled ==
  ASSUME Inv, NEW d \in Descriptor, Register(d)
  PROVE  TypedLists' /\ TypedWalk' /\ Served' /\ Called
<1> USE DEF Inv
<1>1. d \notin open /\ open' = open \cup {d} /\ Found(d) = 0
  BY FoundIs DEF Register
<1>2. PICK e \in FreeEntry : iolist' = Add(NewIod(e, d), iolist)
  BY <1>1 DEF Register
<1>3. iocnt' = iocnt + 1 /\ UNCHANGED <<timerlist, set, thinned, pc, fds, n, cursor, back>> /\ Calling
  BY <1>1 DEF Register
<1> DEFINE s == iolist
           t == iolist'
           x == NewIod(e, d)
<1>4. /\ x \in Iod
      /\ \A i \in 1 .. Len(s) : s[i].e # e
      /\ s \in Seq(Iod) /\ Len(s) \in Nat
  BY LenProperties DEF NewIod, Iod, FreeEntry, Addresses, TypedLists
<1>4a. x.e = e /\ x.d = d /\ ~x.remove
  BY DEF NewIod
<1>5. /\ t \in Seq(Iod) /\ Len(t) = Len(s) + 1 /\ t[1] = x
      /\ \A i \in 1 .. Len(s) : t[i + 1] = s[i]
  <2>1. t = Add(x, s)
    BY <1>2
  <2>2. x \in Iod /\ s \in Seq(Iod)
    BY <1>4
  <2>3. /\ Add(x, s) \in Seq(Iod) /\ Len(Add(x, s)) = Len(s) + 1 /\ Add(x, s)[1] = x
        /\ \A i \in 1 .. Len(s) : Add(x, s)[i + 1] = s[i]
    <3>1. PICK y \in Iod : y = x
      BY <2>2
    <3>2. /\ Add(y, s) \in Seq(Iod) /\ Len(Add(y, s)) = Len(s) + 1 /\ Add(y, s)[1] = y
          /\ \A i \in 1 .. Len(s) : Add(y, s)[i + 1] = s[i]
      BY <2>2, AddIod
    <3> QED BY <3>1, <3>2, Zenon
  <2> QED BY <2>1, <2>3, Zenon
<1>6. /\ \A i \in 1 .. Len(t) : i = 1 \/ (i - 1 \in 1 .. Len(s) /\ t[i] = s[i - 1])
      /\ 1 \in 1 .. Len(t) /\ \A i \in 1 .. Len(s) : i + 1 \in 1 .. Len(t)
  <2>1. \A i \in 1 .. Len(t) : i # 1 => i - 1 \in 1 .. Len(s) /\ i - 1 + 1 = i
    BY <1>4, <1>5
  <2> QED BY <1>4, <1>5, <2>1
<1> HIDE DEF x
<1>7. Distinct(t)
  <2>1. \A i, j \in 1 .. Len(s) : s[i].e = s[j].e => i = j
    BY DEF TypedLists, Distinct
  <2> SUFFICES ASSUME NEW i \in 1 .. Len(t), NEW j \in 1 .. Len(t), t[i].e = t[j].e
               PROVE  i = j
    BY DEF Distinct
  <2>2. \A k \in 1 .. Len(t) : k # 1 => t[k].e = s[k - 1].e /\ k - 1 \in 1 .. Len(s)
    BY <1>6
  <2>3. t[1].e = e
    BY <1>5, <1>4a
  <2>4. CASE i = 1 \/ j = 1
    BY <1>4, <2>2, <2>3, <2>4
  <2>5. CASE i # 1 /\ j # 1
    <3>1. i - 1 = j - 1
      BY <2>1, <2>2, <2>5
    <3> QED BY <3>1
  <2> QED BY <2>4, <2>5
<1>8. TypedLists'
  <2>1. IsFiniteSet(open')
    BY <1>1, FS_AddElement DEF TypedLists
  <2> QED BY <1>1, <1>3, <1>5, <1>7, <2>1 DEF TypedLists
<1>9. ServedFds(t, open')
  <2>1. \A i \in 1 .. Len(t) : ~t[i].remove => t[i].d \in open'
    <3> SUFFICES ASSUME NEW i \in 1 .. Len(t), ~t[i].remove PROVE t[i].d \in open'
      OBVIOUS
    <3>1. CASE i = 1
      BY <1>1, <1>5, <1>4a, <3>1
    <3>2. CASE i # 1
      <4>1. i - 1 \in 1 .. Len(s) /\ t[i] = s[i - 1]
        BY <1>6, <3>2
      <4>2. s[i - 1].d \in open
        BY <4>1 DEF Served, ServedFds
      <4> QED BY <1>1, <4>1, <4>2
    <3> QED BY <3>1, <3>2
  <2>2. ASSUME NEW c \in open' PROVE \E i \in 1 .. Len(t) : t[i].d = c /\ ~t[i].remove
    <3>1. CASE c = d
      BY <1>5, <1>6, <1>4a, <3>1
    <3>2. CASE c # d
      <4>1. PICK i \in 1 .. Len(s) : s[i].d = c /\ ~s[i].remove
        BY <1>1, <3>2 DEF Served, ServedFds
      <4> QED BY <1>5, <1>6, <4>1
    <3> QED BY <3>1, <3>2
  <2>3. ASSUME NEW i \in 1 .. Len(t), NEW j \in 1 .. Len(t),
               t[i].d = t[j].d /\ ~t[i].remove /\ ~t[j].remove
        PROVE  i = j
    <3>1. \A k \in 1 .. Len(t) : ~t[k].remove /\ t[k].d = d => k = 1
      BY <1>1, <1>6 DEF Served, ServedFds
    <3>2. CASE t[i].d = d
      BY <2>3, <3>1, <3>2
    <3>3. CASE t[i].d # d
      <4>1. i # 1 /\ j # 1
        BY <1>5, <1>4a, <2>3, <3>3
      <4>2. /\ i - 1 \in 1 .. Len(s) /\ j - 1 \in 1 .. Len(s)
            /\ s[i - 1].d = s[j - 1].d /\ ~s[i - 1].remove /\ ~s[j - 1].remove
        BY <1>6, <2>3, <4>1
      <4>3. i - 1 = j - 1
        BY <4>2 DEF Served, ServedFds
      <4> QED BY <4>3
    <3> QED BY <3>2, <3>3
  <2> QED BY <2>1, <2>2, <2>3 DEF ServedFds
<1>10. iocnt' = Cardinality(open')
  BY <1>1, <1>3, FS_AddElement DEF TypedLists, Served
<1>11. Called
  <2>1. Shifted(s, t, 1) /\ SameSockets(s, t, 1)
    BY <1>5, Zenon DEF Shifted, SameSockets
  <2>2. Shifted(timerlist, timerlist', 0)
    BY <1>3, NotShifted
  <2> QED BY <1>3, <2>1, <2>2 DEF Called
<1> QED BY <1>3, <1>8, <1>9, <1>10, <1>11, CallingTyped DEF Served

\* io_close: the live entry of the descriptor is marked.
LEMMA CloseCalled ==
  ASSUME Inv, NEW d \in Descriptor, Close(d)
  PROVE  TypedLists' /\ TypedWalk' /\ Served' /\ Called
<1> USE DEF Inv
<1> DEFINE s == iolist
           t == iolist'
           p == Found(d)
<1>1. /\ d \in open /\ open' = open \ {d} /\ t = [s EXCEPT ![p].remove = TRUE]
      /\ iocnt' = iocnt - 1 /\ UNCHANGED <<timerlist, set, thinned, pc, fds, n, cursor, back>> /\ Calling
  BY DEF Close
<1>2. p \in 1 .. Len(s) /\ s[p].d = d /\ ~s[p].remove
  BY <1>1, FoundIs
<1>3. s \in Seq(Iod) /\ Len(s) \in Nat
  BY LenProperties DEF TypedLists
<1>4. /\ t \in Seq(Iod) /\ Len(t) = Len(s)
      /\ \A i \in 1 .. Len(s) : t[i].e = s[i].e /\ t[i].d = s[i].d
      /\ \A i \in 1 .. Len(s) : t[i].remove <=> (i = p \/ s[i].remove)
  <2>1. s[p] \in Iod
    BY <1>2, <1>3, ElementOfSeq, Zenon
  <2>2. PICK x \in Iod : x = [s[p] EXCEPT !.remove = TRUE]
    BY <2>1 DEF Iod
  <2>3. x.e = s[p].e /\ x.d = s[p].d /\ x.remove
    BY <2>2, <2>1 DEF Iod
  <2>4. t = [s EXCEPT ![p] = x]
    BY <1>1, <2>2
  <2> HIDE DEF s, t, p
  <2>5. /\ t \in Seq(Iod) /\ Len(t) = Len(s)
        /\ \A i \in 1 .. Len(s) : t[i] = IF i = p THEN x ELSE s[i]
    BY <1>2, <1>3, <2>4, ExceptSeq
  <2> QED BY <2>3, <2>5, Zenon
<1>5. ServedFds(s, open)
  BY DEF Served
<1>6. TypedLists'
  <2>1. IsFiniteSet(open') /\ Cardinality(open') = Cardinality(open) - 1 /\ Cardinality(open) \in Nat
    BY <1>1, FS_RemoveElement, FS_CardinalityType DEF TypedLists
  <2>2. Distinct(t)
    BY <1>4 DEF Distinct, TypedLists
  <2>3. iocnt' \in Nat
    <3>1. IsFiniteSet(open') => Cardinality(open') \in Nat
      BY FS_CardinalityType
    <3> QED BY <1>1, <2>1, <3>1 DEF Served
  <2> QED BY <1>1, <1>4, <2>1, <2>2, <2>3 DEF TypedLists
<1>7. iocnt' = Cardinality(open')
  BY <1>1, FS_RemoveElement DEF TypedLists, Served
<1>8. ServedFds(t, open')
  <2> HIDE DEF s, t, p
  <2>1. \A i \in 1 .. Len(t) : ~t[i].remove => t[i].d \in open'
    <3> SUFFICES ASSUME NEW i \in 1 .. Len(t), ~t[i].remove PROVE t[i].d \in open'
      OBVIOUS
    <3>1. i # p /\ ~s[i].remove /\ i \in 1 .. Len(s) /\ t[i].d = s[i].d
      BY <1>4
    <3>2. s[i].d # d
      BY <1>2, <1>5, <3>1 DEF ServedFds
    <3> QED BY <1>1, <1>5, <3>1, <3>2 DEF ServedFds
  <2>2. ASSUME NEW c \in open' PROVE \E i \in 1 .. Len(t) : t[i].d = c /\ ~t[i].remove
    <3>1. PICK i \in 1 .. Len(s) : s[i].d = c /\ ~s[i].remove
      BY <1>1, <1>5 DEF ServedFds
    <3>2. i # p
      BY <1>1, <1>2, <3>1
    <3> QED BY <1>4, <3>1, <3>2
  <2>3. ASSUME NEW i \in 1 .. Len(t), NEW j \in 1 .. Len(t),
               t[i].d = t[j].d /\ ~t[i].remove /\ ~t[j].remove
        PROVE  i = j
    <3>1. s[i].d = s[j].d /\ ~s[i].remove /\ ~s[j].remove /\ i \in 1 .. Len(s) /\ j \in 1 .. Len(s)
      BY <1>4, <2>3
    <3> QED BY <1>5, <3>1 DEF ServedFds
  <2> QED BY <2>1, <2>2, <2>3 DEF ServedFds
<1>9. Called
  <2>1. Shifted(s, t, 0) /\ SameSockets(s, t, 0)
    <3>1. \A i \in 1 .. Len(s) : i + 0 = i
      BY <1>3
    <3>2. Len(s) + 0 = Len(s)
      BY <1>3
    <3> QED BY <1>4, <3>1, <3>2, Zenon DEF Shifted, SameSockets
  <2>2. Shifted(timerlist, timerlist', 0)
    BY <1>1, NotShifted
  <2> QED BY <1>1, <2>1, <2>2 DEF Called
<1>10. Served'
  BY <1>1, <1>7, <1>8 DEF Served
<1> QED BY <1>1, <1>6, <1>9, <1>10, CallingTyped

\* io_wantread and io_wantwrite
LEMMA WantCalled ==
  ASSUME Inv, NEW d \in Descriptor, NEW on \in BOOLEAN, WantRead(d, on) \/ WantWrite(d, on)
  PROVE  TypedLists' /\ TypedWalk' /\ Served' /\ Called
<1> USE DEF Inv
<1> DEFINE s == iolist
           t == iolist'
           p == Found(d)
<1>1. /\ d \in open
      /\ t = [s EXCEPT ![p].rd = on] \/ t = [s EXCEPT ![p].wr = on]
      /\ UNCHANGED <<iocnt, open, timerlist, set, thinned, pc, fds, n, cursor, back>> /\ Calling
  BY DEF WantRead, WantWrite
<1>2. p \in 1 .. Len(s)
  BY <1>1, FoundIs
<1>3. s \in Seq(Iod) /\ Len(s) \in Nat
  BY LenProperties DEF TypedLists
<1>4. /\ t \in Seq(Iod) /\ Len(t) = Len(s)
      /\ \A i \in 1 .. Len(s) : t[i].e = s[i].e /\ t[i].d = s[i].d /\ t[i].remove = s[i].remove
  <2> HIDE DEF s, t, p
  <2> QED BY <1>1, <1>2, <1>3, Wanting
<1>5. ServedFds(s, open)
  BY DEF Served
<1>6. Distinct(t)
  BY <1>4 DEF Distinct, TypedLists
<1>7. TypedLists'
  BY <1>1, <1>4, <1>6 DEF TypedLists
<1>8. ServedFds(t, open')
  <2>1. open' = open
    BY <1>1
  <2> HIDE DEF s, t, p
  <2>2. \A i \in 1 .. Len(t) : ~t[i].remove => t[i].d \in open
    BY <1>4, <1>5, Zenon DEF ServedFds
  <2>3. ASSUME NEW c \in open PROVE \E i \in 1 .. Len(t) : t[i].d = c /\ ~t[i].remove
    <3>1. PICK i \in 1 .. Len(s) : s[i].d = c /\ ~s[i].remove
      BY <1>5 DEF ServedFds
    <3> QED BY <1>4, <3>1
  <2>4. \A i, j \in 1 .. Len(t) : t[i].d = t[j].d /\ ~t[i].remove /\ ~t[j].remove => i = j
    BY <1>4, <1>5, Zenon DEF ServedFds
  <2> QED BY <2>1, <2>2, <2>3, <2>4, Zenon DEF ServedFds
<1>9. Called
  <2>1. Shifted(s, t, 0) /\ SameSockets(s, t, 0)
    <3>1. \A i \in 1 .. Len(s) : i + 0 = i
      BY <1>3
    <3>2. Len(s) + 0 = Len(s)
      BY <1>3
    <3> QED BY <1>4, <3>1, <3>2, Zenon DEF Shifted, SameSockets
  <2>2. Shifted(timerlist, timerlist', 0)
    BY <1>1, NotShifted
  <2> QED BY <1>1, <2>1, <2>2 DEF Called
<1>10. Served'
  BY <1>1, <1>8 DEF Served
<1> QED BY <1>1, <1>7, <1>9, <1>10, CallingTyped

\* io_settimer: the new entry is in front of the timer's other ones.
LEMMA SetTimerCalled ==
  ASSUME Inv, NEW f \in Timer, SetTimer(f)
  PROVE  TypedLists' /\ TypedWalk' /\ Served' /\ Called
<1> USE DEF Inv
<1> DEFINE s == timerlist
           t == timerlist'
<1>1. /\ set' = [set EXCEPT ![f] = @ + 1]
      /\ UNCHANGED <<thinned, iolist, iocnt, open, pc, fds, n, cursor, back>> /\ Calling
  BY DEF SetTimer
<1>2. PICK e \in FreeEntry : t = Add(NewIot(e, f), s)
  BY DEF SetTimer
<1>3. PICK x \in Iot : x = NewIot(e, f)
  BY DEF NewIot, Iot, FreeEntry
<1>4. /\ \A i \in 1 .. Len(s) : s[i].e # e
      /\ s \in Seq(Iot) /\ Len(s) \in Nat
  BY LenProperties DEF FreeEntry, Addresses, TypedLists
<1>5. x.e = e /\ x.func = f /\ ~x.remove
  BY <1>3 DEF NewIot
<1>6. /\ t \in Seq(Iot) /\ Len(t) = Len(s) + 1 /\ t[1] = x
      /\ \A i \in 1 .. Len(s) : t[i + 1] = s[i]
  <2>1. t = Add(x, s)
    BY <1>2, <1>3
  <2>2. /\ Add(x, s) \in Seq(Iot) /\ Len(Add(x, s)) = Len(s) + 1 /\ Add(x, s)[1] = x
        /\ \A i \in 1 .. Len(s) : Add(x, s)[i + 1] = s[i]
    BY <1>4, AddIot
  <2> QED BY <2>1, <2>2, Zenon
<1>7. /\ \A i \in 1 .. Len(t) : i = 1 \/ (i - 1 \in 1 .. Len(s) /\ t[i] = s[i - 1])
      /\ 1 \in 1 .. Len(t) /\ \A i \in 1 .. Len(s) : i + 1 \in 1 .. Len(t)
  <2>1. \A i \in 1 .. Len(t) : i # 1 => i - 1 \in 1 .. Len(s) /\ i - 1 + 1 = i
    BY <1>4, <1>6
  <2> QED BY <1>4, <1>6, <2>1
<1>8. ServedTimers(s, set, thinned) /\ set \in [Timer -> Nat]
  BY DEF Served, TypedLists
<1>9. Distinct(t)
  <2>1. \A i, j \in 1 .. Len(s) : s[i].e = s[j].e => i = j
    BY DEF TypedLists, Distinct
  <2> SUFFICES ASSUME NEW i \in 1 .. Len(t), NEW j \in 1 .. Len(t), t[i].e = t[j].e
               PROVE  i = j
    BY DEF Distinct
  <2>2. \A k \in 1 .. Len(t) : k # 1 => t[k].e = s[k - 1].e /\ k - 1 \in 1 .. Len(s)
    BY <1>7
  <2>3. t[1].e = e
    BY <1>5, <1>6
  <2>4. CASE i = 1 \/ j = 1
    BY <1>4, <2>2, <2>3, <2>4
  <2>5. CASE i # 1 /\ j # 1
    <3>1. i - 1 = j - 1
      BY <2>1, <2>2, <2>5
    <3> QED BY <3>1
  <2> QED BY <2>4, <2>5
<1>10. TypedLists'
  <2>1. set' \in [Timer -> Nat]
    BY <1>1, <1>8
  <2> QED BY <1>1, <1>6, <1>9, <2>1 DEF TypedLists
<1>11. ServedTimers(t, set', thinned')
  <2> HIDE DEF s, t
  <2>1. ASSUME NEW g \in Timer
        PROVE  Serving(t, g) = IF g = f THEN Serving(s, g) \cup {e} ELSE Serving(s, g)
    <3>1. ASSUME NEW y, y \in Serving(t, g)
          PROVE  y \in Serving(s, g) \/ (g = f /\ y = e)
      <4>1. PICK i \in 1 .. Len(t) : t[i].func = g /\ ~t[i].remove /\ t[i].e = y
        BY <3>1, ServingIs
      <4>2. CASE i = 1
        BY <1>5, <1>6, <4>1, <4>2
      <4>3. CASE i # 1
        BY <1>7, <4>1, <4>3, ServingIs
      <4> QED BY <4>2, <4>3
    <3>2. ASSUME NEW y, y \in Serving(s, g) PROVE y \in Serving(t, g)
      <4>1. PICK i \in 1 .. Len(s) : s[i].func = g /\ ~s[i].remove /\ s[i].e = y
        BY <3>2, ServingIs
      <4>2. i + 1 \in 1 .. Len(t) /\ t[i + 1] = s[i]
        BY <1>6, <1>7
      <4> QED BY <4>1, <4>2, ServingIs
    <3>3. e \in Serving(t, f)
      BY <1>5, <1>6, <1>7, ServingIs
    <3> QED BY <3>1, <3>2, <3>3
  <2>2. e \notin Serving(s, f)
    BY <1>4, ServingIs
  <2>3. ASSUME NEW g \in Timer, LiveInFront(s, g) PROVE LiveInFront(t, g)
    <3> SUFFICES ASSUME NEW i \in 1 .. Len(t), NEW j \in 1 .. Len(t),
                        t[i].func = g, t[j].func = g, t[i].remove, ~t[j].remove
                 PROVE  j < i
      BY DEF LiveInFront
    <3>1. i # 1
      BY <1>5, <1>6
    <3>2. i - 1 \in 1 .. Len(s) /\ t[i] = s[i - 1]
      BY <1>7, <3>1
    <3>3. CASE j = 1
      BY <3>1, <3>3
    <3>4. CASE j # 1
      <4>1. j - 1 \in 1 .. Len(s) /\ t[j] = s[j - 1]
        BY <1>7, <3>4
      <4>2. j - 1 < i - 1
        BY <2>3, <3>2, <4>1 DEF LiveInFront
      <4> QED BY <4>2
    <3> QED BY <3>3, <3>4
  <2> SUFFICES ASSUME NEW g \in Timer
               PROVE  /\ IsFiniteSet(Serving(t, g))
                      /\ Cardinality(Serving(t, g)) >= set'[g]
                      /\ g \notin thinned => Cardinality(Serving(t, g)) = set'[g] /\ LiveInFront(t, g)
    BY <1>1 DEF ServedTimers
  <2>4. /\ IsFiniteSet(Serving(s, g)) /\ Cardinality(Serving(s, g)) >= set[g]
        /\ g \notin thinned => Cardinality(Serving(s, g)) = set[g] /\ LiveInFront(s, g)
    BY <1>8 DEF ServedTimers
  <2>5. set[g] \in Nat /\ Cardinality(Serving(s, g)) \in Nat
    BY <1>8, <2>4, FS_CardinalityType
  <2>6. CASE g = f
    <3>1. /\ IsFiniteSet(Serving(t, g))
          /\ Cardinality(Serving(t, g)) = Cardinality(Serving(s, g)) + 1
      BY <2>1, <2>2, <2>4, <2>6, FS_AddElement
    <3>2. set'[g] = set[g] + 1
      BY <1>1, <1>8, <2>6
    <3> QED BY <2>3, <2>4, <2>5, <3>1, <3>2
  <2>7. CASE g # f
    <3>1. Serving(t, g) = Serving(s, g) /\ set'[g] = set[g]
      BY <1>1, <1>8, <2>1, <2>7
    <3> QED BY <2>3, <2>4, <3>1
  <2> QED BY <2>6, <2>7
<1>12. Called
  <2>1. Shifted(s, t, 1)
    BY <1>6, Zenon DEF Shifted
  <2>2. Shifted(iolist, iolist', 0) /\ SameSockets(iolist, iolist', 0)
    BY <1>1, NotShifted
  <2> QED BY <1>1, <2>1, <2>2 DEF Called
<1>13. Served'
  BY <1>1, <1>11 DEF Served
<1> QED BY <1>1, <1>10, <1>12, <1>13, CallingTyped

\* io_unsettimer marks the p-th entry.
Marks(s, p, t) == t = [s EXCEPT ![p].remove = TRUE]

\* Marking the newest entry of a timer, or one that is marked already, stops at
\* most one of its calls.
LEMMA MarkedTimer ==
  ASSUME NEW s \in Seq(Iot), Distinct(s), NEW f \in Timer, NEW p \in 1 .. Len(s),
         s[p].func = f, \A i \in 1 .. Len(s) : s[i].func = f => p <= i,
         NEW t, Marks(s, p, t)
  PROVE  /\ t \in Seq(Iot) /\ Len(t) = Len(s) /\ Distinct(t) /\ Shifted(s, t, 0)
         /\ \A g \in Timer :
              Serving(t, g) = IF g = f THEN Serving(s, g) \ {s[p].e} ELSE Serving(s, g)
         /\ \A g \in Timer \ {f} : LiveInFront(s, g) => LiveInFront(t, g)
         /\ s[p].remove => t = s
         /\ ~s[p].remove => s[p].e \in Serving(s, f)
         /\ s[p].remove /\ LiveInFront(s, f) => Serving(s, f) = {}
<1>1. s[p] \in Iot /\ Len(s) \in Nat
  BY ElementOfSeq, LenProperties
<1>2. PICK x \in Iot : x = [s[p] EXCEPT !.remove = TRUE]
  BY <1>1 DEF Iot
<1>3. x.e = s[p].e /\ x.func = s[p].func /\ x.remove /\ (s[p].remove => x = s[p])
  BY <1>1, <1>2 DEF Iot
<1>4. t = [s EXCEPT ![p] = x]
  BY <1>2 DEF Marks
<1>5. /\ t \in Seq(Iot) /\ Len(t) = Len(s)
      /\ \A i \in 1 .. Len(s) : t[i] = IF i = p THEN x ELSE s[i]
  <2>1. s \in Seq(Iot) /\ p \in 1 .. Len(s) /\ x \in Iot
    OBVIOUS
  <2> QED BY ONLY <1>4, <2>1, ExceptSeq
<1>6. /\ \A i \in 1 .. Len(s) : t[i].e = s[i].e /\ t[i].func = s[i].func
      /\ \A i \in 1 .. Len(s) : t[i].remove <=> (i = p \/ s[i].remove)
  BY <1>3, <1>5, Zenon
<1>7. Distinct(t)
  BY <1>5, <1>6 DEF Distinct
<1>8. Shifted(s, t, 0)
  <2>1. \A i \in 1 .. Len(s) : i + 0 = i
    BY <1>1
  <2>2. Len(s) + 0 = Len(s)
    BY <1>1
  <2> QED BY <1>5, <1>6, <2>1, <2>2, Zenon DEF Shifted
<1>9. ASSUME NEW g \in Timer
      PROVE  Serving(t, g) = IF g = f THEN Serving(s, g) \ {s[p].e} ELSE Serving(s, g)
  <2>1. ASSUME NEW y, y \in Serving(t, g) PROVE y \in Serving(s, g) /\ y # s[p].e
    <3>1. PICK i \in 1 .. Len(t) : t[i].func = g /\ ~t[i].remove /\ t[i].e = y
      BY ONLY <2>1, ServingIs
    <3>2. i \in 1 .. Len(s) /\ s[i].func = g /\ ~s[i].remove /\ s[i].e = y /\ i # p
      BY <1>5, <1>6, <3>1
    <3>3. y # s[p].e
      BY <3>2 DEF Distinct
    <3> QED BY <3>2, <3>3, ServingIs
  <2>2. ASSUME NEW y, y \in Serving(s, g), g # f \/ y # s[p].e PROVE y \in Serving(t, g)
    <3>1. PICK i \in 1 .. Len(s) : s[i].func = g /\ ~s[i].remove /\ s[i].e = y
      BY ONLY <2>2, ServingIs
    <3>2. i # p
      BY <2>2, <3>1
    <3>3. i \in 1 .. Len(t) /\ t[i].func = g /\ ~t[i].remove /\ t[i].e = y
      BY <1>5, <1>6, <3>1, <3>2
    <3> QED BY ONLY <3>3, ServingIs
  <2> QED BY <2>1, <2>2
<1>10. ASSUME NEW g \in Timer \ {f}, LiveInFront(s, g) PROVE LiveInFront(t, g)
  <2> SUFFICES ASSUME NEW i \in 1 .. Len(s), NEW j \in 1 .. Len(s),
                      t[i].func = g, t[j].func = g, t[i].remove, ~t[j].remove
               PROVE  j < i
    BY <1>5 DEF LiveInFront
  <2>1. s[i].func = g /\ s[j].func = g /\ s[i].remove /\ ~s[j].remove
    BY <1>6
  <2> QED BY <1>10, <2>1 DEF LiveInFront
<1>11. s[p].remove => t = s
  BY <1>3, <1>4
<1>12. ~s[p].remove => s[p].e \in Serving(s, f)
  BY ServingIs
<1>13. ASSUME s[p].remove, LiveInFront(s, f), NEW y \in Serving(s, f) PROVE FALSE
  <2>1. PICK i \in 1 .. Len(s) : s[i].func = f /\ ~s[i].remove
    BY <1>13, ServingIs
  <2>2. i < p /\ p <= i
    BY <1>13, <2>1 DEF LiveInFront
  <2> QED BY <1>1, <2>2
<1> QED BY <1>5, <1>7, <1>8, <1>9, <1>10, <1>11, <1>12, <1>13

\* io_unsettimer: the newest entry of the timer is marked, if there is one.
LEMMA UnsetTimerCalled ==
  ASSUME Inv, NEW f \in Timer, UnsetTimer(f)
  PROVE  TypedLists' /\ TypedWalk' /\ Served' /\ Called
<1> USE DEF Inv
<1> DEFINE s == timerlist
           t == timerlist'
           p == FirstTimer(f)
<1>1. /\ t = IF p = 0 THEN s ELSE [s EXCEPT ![p].remove = TRUE]
      /\ set' = [set EXCEPT ![f] = IF @ = 0 THEN 0 ELSE @ - 1]
      /\ thinned' = IF set[f] > 1 THEN thinned \cup {f} ELSE thinned
      /\ UNCHANGED <<iolist, iocnt, open, pc, fds, n, cursor, back>> /\ Calling
  BY DEF UnsetTimer
<1>2. \/ p = 0 /\ \A i \in 1 .. Len(s) : s[i].func # f
      \/ p \in 1 .. Len(s) /\ s[p].func = f /\ \A i \in 1 .. Len(s) : s[i].func = f => p <= i
  BY FirstTimerIs
<1>3. /\ s \in Seq(Iot) /\ Len(s) \in Nat /\ Distinct(s)
      /\ set \in [Timer -> Nat] /\ thinned \subseteq Timer
  BY LenProperties DEF TypedLists
<1>4. ServedTimers(s, set, thinned)
  BY DEF Served
<1> HIDE DEF s, t, p
<1>5. /\ set' \in [Timer -> Nat] /\ thinned' \subseteq Timer
      /\ set'[f] = IF set[f] = 0 THEN 0 ELSE set[f] - 1
      /\ \A g \in Timer \ {f} : set'[g] = set[g] /\ (g \in thinned' <=> g \in thinned)
      /\ set[f] \in Nat
  <2>1. set[f] \in Nat
    BY <1>3
  <2>2. PICK k \in Nat : k = IF set[f] = 0 THEN 0 ELSE set[f] - 1
    BY <2>1
  <2>3. set' = [set EXCEPT ![f] = k]
    BY <1>1, <1>3, <2>2
  <2>4. \A g \in Timer \ {f} : g \in thinned' <=> g \in thinned
    BY <1>1
  <2>5. thinned' \subseteq Timer
    BY <1>1, <1>3
  <2> QED BY <1>3, <2>1, <2>2, <2>3, <2>4, <2>5
<1>6. /\ t \in Seq(Iot) /\ Distinct(t) /\ Shifted(s, t, 0)
      /\ \A g \in Timer \ {f} :
           /\ Serving(t, g) = Serving(s, g)
           /\ LiveInFront(s, g) => LiveInFront(t, g)
      /\ f \notin thinned =>
           /\ Cardinality(Serving(t, f)) = IF set[f] = 0 THEN 0 ELSE set[f] - 1
           /\ set[f] < 2 => Serving(t, f) = {}
      /\ IsFiniteSet(Serving(t, f)) /\ Cardinality(Serving(t, f)) \in Nat
      /\ Cardinality(Serving(t, f)) >= set[f] - 1
  <2>1. /\ IsFiniteSet(Serving(s, f)) /\ Cardinality(Serving(s, f)) >= set[f]
        /\ f \notin thinned => Cardinality(Serving(s, f)) = set[f] /\ LiveInFront(s, f)
    BY <1>4 DEF ServedTimers
  <2>2. Cardinality(Serving(s, f)) \in Nat /\ Cardinality({}) = 0 /\ IsFiniteSet({})
        /\ (Cardinality(Serving(s, f)) = 0 => Serving(s, f) = {})
    BY <2>1, FS_CardinalityType, FS_EmptySet
  <2>3. CASE p = 0
    <3>1. t = s /\ Serving(s, f) = {}
      <4>1. \A i \in 1 .. Len(s) : s[i].func # f
        BY <1>2, <1>3, <2>3
      <4> QED BY <1>1, <2>3, <4>1, ServingIs
    <3>2. set[f] = 0
      BY <1>5, <2>1, <2>2, <3>1
    <3>3. Shifted(s, t, 0)
      <4>1. \A i \in 1 .. Len(s) : i + 0 = i
        BY <1>3
      <4>2. Len(s) + 0 = Len(s)
        BY <1>3
      <4> QED BY <3>1, <4>1, <4>2, Zenon DEF Shifted
    <3> QED BY <1>3, <2>2, <3>1, <3>2, <3>3
  <2>4. CASE p # 0
    <3>1. /\ p \in 1 .. Len(s) /\ s[p].func = f /\ \A i \in 1 .. Len(s) : s[i].func = f => p <= i
          /\ Marks(s, p, t)
      BY <1>1, <1>2, <2>4 DEF Marks
    <3>2. /\ t \in Seq(Iot) /\ Distinct(t) /\ Shifted(s, t, 0)
          /\ \A g \in Timer :
               Serving(t, g) = IF g = f THEN Serving(s, g) \ {s[p].e} ELSE Serving(s, g)
          /\ \A g \in Timer \ {f} : LiveInFront(s, g) => LiveInFront(t, g)
          /\ s[p].remove => t = s
          /\ ~s[p].remove => s[p].e \in Serving(s, f)
          /\ s[p].remove /\ LiveInFront(s, f) => Serving(s, f) = {}
      BY ONLY <1>3, <3>1, f \in Timer, MarkedTimer
    <3>3. CASE s[p].remove
      <4>1. t = s /\ (f \notin thinned => Serving(s, f) = {} /\ set[f] = 0)
        BY <2>1, <2>2, <3>2, <3>3
      <4> QED BY <1>5, <2>1, <2>2, <3>2, <4>1
    <3>4. CASE ~s[p].remove
      <4>1. s[p].e \in Serving(s, f) /\ Serving(t, f) = Serving(s, f) \ {s[p].e}
        BY <3>2, <3>4
      <4>2. /\ IsFiniteSet(Serving(t, f))
            /\ Cardinality(Serving(t, f)) = Cardinality(Serving(s, f)) - 1
        BY <2>1, <4>1, FS_RemoveElement
      <4>3. Cardinality(Serving(t, f)) \in Nat
            /\ (Cardinality(Serving(t, f)) = 0 => Serving(t, f) = {})
        BY <4>2, FS_CardinalityType, FS_EmptySet
      <4>4. Cardinality(Serving(t, f)) >= set[f] - 1
        BY <1>5, <2>1, <2>2, <4>2
      <4>5. f \notin thinned => /\ set[f] # 0 /\ Cardinality(Serving(t, f)) = set[f] - 1
                                /\ (set[f] < 2 => Serving(t, f) = {})
        BY <1>5, <2>1, <2>2, <4>2, <4>3
      <4> QED BY <3>2, <4>2, <4>3, <4>4, <4>5
    <3> QED BY <3>3, <3>4
  <2> QED BY <2>3, <2>4
<1>7. ServedTimers(t, set', thinned')
  <2>1. ASSUME NEW g \in Timer, g # f
        PROVE  /\ IsFiniteSet(Serving(t, g)) /\ Cardinality(Serving(t, g)) >= set'[g]
               /\ g \notin thinned' => Cardinality(Serving(t, g)) = set'[g] /\ LiveInFront(t, g)
    <3>1. /\ Serving(t, g) = Serving(s, g) /\ (LiveInFront(s, g) => LiveInFront(t, g))
          /\ set'[g] = set[g] /\ (g \in thinned' <=> g \in thinned)
      BY <1>5, <1>6, <2>1
    <3>2. /\ IsFiniteSet(Serving(s, g)) /\ Cardinality(Serving(s, g)) >= set[g]
          /\ g \notin thinned => Cardinality(Serving(s, g)) = set[g] /\ LiveInFront(s, g)
      BY <1>4 DEF ServedTimers
    <3> QED BY <3>1, <3>2
  <2>2. IsFiniteSet(Serving(t, f)) /\ Cardinality(Serving(t, f)) >= set'[f]
    BY <1>5, <1>6
  <2>3. ASSUME f \notin thinned'
        PROVE  Cardinality(Serving(t, f)) = set'[f] /\ LiveInFront(t, f)
    <3>1. f \notin thinned /\ ~(set[f] > 1)
      BY <1>1, <2>3
    <3>2. set[f] < 2
      BY <1>5, <3>1
    <3>3. Serving(t, f) = {} /\ Cardinality(Serving(t, f)) = set'[f]
      BY <1>5, <1>6, <3>1, <3>2
    <3>4. \A j \in 1 .. Len(t) : t[j].func = f => t[j].remove
      BY <3>3, ServingIs
    <3> QED BY <3>3, <3>4 DEF LiveInFront
  <2> QED BY <2>1, <2>2, <2>3 DEF ServedTimers
<1>8. TypedLists'
  BY <1>1, <1>5, <1>6 DEF TypedLists, t
<1>9. Called
  <2>1. Shifted(timerlist, timerlist', 0)
    BY <1>6 DEF s, t
  <2>2. Shifted(iolist, iolist', 0) /\ SameSockets(iolist, iolist', 0)
    BY <1>1, NotShifted
  <2> QED BY <1>1, <2>1, <2>2 DEF Called
<1>10. Served'
  BY <1>1, <1>7 DEF Served, t
<1> QED BY <1>1, <1>8, <1>9, <1>10, CallingTyped

-----------------------------------------------------------------------------
(* The purge: what it leaves of a list.                                     *)

\* at says where the entries of r stand in s: in their order, all the live
\* ones among them.
Thinned(s, r, at) ==
  /\ at \in [1 .. Len(r) -> 1 .. Len(s)]
  /\ \A k \in 1 .. Len(r) : r[k] = s[at[k]]
  /\ \A k, m \in 1 .. Len(r) : k < m => at[k] < at[m]
  /\ \A i \in 1 .. Len(s) : ~s[i].remove => \E k \in 1 .. Len(r) : at[k] = i

\* A purged list names no entry twice.
LEMMA ThinnedDistinct ==
  ASSUME NEW s, NEW r, NEW at, Len(s) \in Nat, Len(r) \in Nat,
         Thinned(s, r, at), Distinct(s)
  PROVE  /\ Distinct(r)
         /\ \A i, j \in 1 .. Len(r) : at[i] = at[j] => i = j
<1>1. ASSUME NEW i \in 1 .. Len(r), NEW j \in 1 .. Len(r), at[i] = at[j] PROVE i = j
  <2>1. at[i] \in 1 .. Len(s) /\ at[j] \in 1 .. Len(s)
    BY DEF Thinned
  <2>2. ~(i < j) /\ ~(j < i)
    BY <1>1, <2>1 DEF Thinned
  <2> QED BY <2>2
<1>2. \A i, j \in 1 .. Len(r) : r[i].e = r[j].e => at[i] = at[j]
  <2> SUFFICES ASSUME NEW i \in 1 .. Len(r), NEW j \in 1 .. Len(r), r[i].e = r[j].e
               PROVE  at[i] = at[j]
    OBVIOUS
  <2>1. /\ at[i] \in 1 .. Len(s) /\ at[j] \in 1 .. Len(s)
        /\ s[at[i]].e = s[at[j]].e
    BY DEF Thinned
  <2> QED BY <2>1 DEF Distinct
<1> QED BY <1>1, <1>2, Zenon DEF Distinct

\* A purge drops no open descriptor.
LEMMA ThinnedServesFds ==
  ASSUME NEW s, NEW r, NEW at, Len(s) \in Nat, Len(r) \in Nat,
         Thinned(s, r, at), Distinct(s), NEW held, ServedFds(s, held)
  PROVE  ServedFds(r, held)
<1>1. \A i \in 1 .. Len(r) : at[i] \in 1 .. Len(s) /\ r[i] = s[at[i]]
  BY DEF Thinned
<1>2. \A i \in 1 .. Len(r) : ~r[i].remove => r[i].d \in held
  BY <1>1, ZenonT(30) DEF ServedFds
<1>3. ASSUME NEW c \in held PROVE \E i \in 1 .. Len(r) : r[i].d = c /\ ~r[i].remove
  <2>1. PICK i \in 1 .. Len(s) : s[i].d = c /\ ~s[i].remove
    BY DEF ServedFds
  <2>2. PICK k \in 1 .. Len(r) : at[k] = i
    BY <2>1 DEF Thinned
  <2> QED BY <1>1, <2>1, <2>2, Zenon
<1>4. ASSUME NEW i \in 1 .. Len(r), NEW j \in 1 .. Len(r), r[i].d = r[j].d, ~r[i].remove, ~r[j].remove
      PROVE  i = j
  <2>1. at[i] = at[j]
    <3>1. /\ at[i] \in 1 .. Len(s) /\ at[j] \in 1 .. Len(s)
          /\ s[at[i]].d = s[at[j]].d /\ ~s[at[i]].remove /\ ~s[at[j]].remove
      BY <1>1, <1>4
    <3> QED BY <3>1 DEF ServedFds
  <2> QED BY <2>1, ThinnedDistinct
<1> QED BY <1>2, <1>3, <1>4, Zenon DEF ServedFds

\* A purge stops no timer, and a list without marked entries has none in front.
LEMMA ThinnedServesTimers ==
  ASSUME NEW s, NEW r, NEW at, Len(s) \in Nat, Len(r) \in Nat,
         Thinned(s, r, at), \A k \in 1 .. Len(r) : ~r[k].remove,
         NEW times, NEW loose, ServedTimers(s, times, loose)
  PROVE  ServedTimers(r, times, loose)
<1>1. \A i \in 1 .. Len(r) : at[i] \in 1 .. Len(s) /\ r[i] = s[at[i]]
  BY DEF Thinned
<1>2. ASSUME NEW f \in Timer PROVE Serving(r, f) = Serving(s, f)
  <2>1. ASSUME NEW y, y \in Serving(r, f) PROVE y \in Serving(s, f)
    <3>1. PICK i \in 1 .. Len(r) : r[i].func = f /\ ~r[i].remove /\ r[i].e = y
      BY <2>1, ServingIs
    <3>2. at[i] \in 1 .. Len(s) /\ s[at[i]].func = f /\ ~s[at[i]].remove /\ s[at[i]].e = y
      BY <1>1, <3>1
    <3> QED BY <3>2, ServingIs
  <2>2. ASSUME NEW y, y \in Serving(s, f) PROVE y \in Serving(r, f)
    <3>1. PICK i \in 1 .. Len(s) : s[i].func = f /\ ~s[i].remove /\ s[i].e = y
      BY <2>2, ServingIs
    <3>2. PICK k \in 1 .. Len(r) : at[k] = i
      BY <3>1 DEF Thinned
    <3>3. r[k].func = f /\ ~r[k].remove /\ r[k].e = y
      BY <1>1, <3>1, <3>2
    <3> QED BY <3>3, ServingIs
  <2> QED BY <2>1, <2>2
<1>3. \A f \in Timer : LiveInFront(r, f)
  BY DEF LiveInFront
<1> QED BY <1>2, <1>3 DEF ServedTimers

\* The live entries of a list.
LEMMA LiveIs ==
  ASSUME NEW S, NEW s \in Seq(S)
  PROVE  /\ Live(s) \in Seq(S) /\ Len(Live(s)) \in Nat
         /\ \E at : Thinned(s, Live(s), at)
         /\ \A k \in 1 .. Len(Live(s)) : ~Live(s)[k].remove
<1> DEFINE I == {i \in 1 .. Len(s) : ~s[i].remove}
           r == Live(s)
<1>1. r = Sublist(s, I)
  BY DEF Live
<1> HIDE DEF r
<1>2. \A i : i \in I <=> i \in 1 .. Len(s) /\ ~s[i].remove
  OBVIOUS
<1> HIDE DEF I
<1>3. r \in Seq(S) /\ \E at : Stands(s, I, Len(s), r, at)
  BY <1>1, SublistIs
<1>4. PICK at : Stands(s, I, Len(s), r, at)
  BY <1>3
<1>5. Thinned(s, r, at) /\ \A k \in 1 .. Len(r) : ~r[k].remove
  BY <1>2, <1>4, Zenon DEF Stands, Thinned
<1>6. Len(r) \in Nat
  BY <1>3, LenProperties
<1> QED BY <1>3, <1>5, <1>6 DEF r

\* The live entries are as many as the open descriptors, and theirs.
LEMMA LiveFds ==
  ASSUME NEW S, NEW s \in Seq(S), NEW held, ServedFds(s, held), Distinct(s)
  PROVE  /\ {x.d : x \in ToSet(Live(s))} = held
         /\ Len(Live(s)) = Cardinality(held)
<1> DEFINE r == Live(s)
<1>1. Len(s) \in Nat /\ r \in Seq(S) /\ Len(r) \in Nat /\ \A k \in 1 .. Len(r) : ~r[k].remove
  BY LiveIs, LenProperties
<1>2. ServedFds(r, held)
  BY LiveIs, LenProperties, ThinnedServesFds
<1> HIDE DEF r
<1>3. {x.d : x \in ToSet(r)} = held
  <2>1. \A x : x \in ToSet(r) <=> \E k \in 1 .. Len(r) : x = r[k]
    <3>1. DOMAIN r = 1 .. Len(r)
      BY <1>1, LenProperties
    <3> QED BY <3>1 DEF ToSet
  <2>2. \A k \in 1 .. Len(r) : r[k].d \in held
    BY <1>1, <1>2 DEF ServedFds
  <2>3. \A h \in held : \E k \in 1 .. Len(r) : r[k].d = h
    BY <1>2 DEF ServedFds
  <2> QED BY <2>1, <2>2, <2>3
<1>4. Len(r) = Cardinality(held)
  <2> DEFINE key == [k \in 1 .. Len(r) |-> r[k].d]
  <2>1. \A k \in 1 .. Len(r) : key[k] = r[k].d
    OBVIOUS
  <2>2. key \in [1 .. Len(r) -> held]
    BY <1>1, <1>2 DEF ServedFds
  <2> HIDE DEF key
  <2>3. \A i, j \in 1 .. Len(r) : key[i] = key[j] => i = j
    BY <1>1, <1>2, <2>1, Zenon DEF ServedFds
  <2>4. ASSUME NEW x \in held PROVE \E i \in 1 .. Len(r) : key[i] = x
    <3>1. PICK i \in 1 .. Len(r) : r[i].d = x
      BY <1>2 DEF ServedFds
    <3> QED BY <2>1, <3>1
  <2> QED BY <1>1, <2>2, <2>3, <2>4, CountIs
<1> QED BY <1>3, <1>4 DEF r

\* The purge of io_loop leaves the live entries, and behind them marked ones.
LEMMA PurgedIs ==
  ASSUME iolist \in Seq(Iod)
  PROVE  /\ Purged \in Seq(Iod) /\ Len(Purged) \in Nat
         /\ \E at : Thinned(iolist, Purged, at)
         /\ Len(Live(iolist)) <= Len(Purged)
         /\ \A k \in 1 .. Len(Live(iolist)) : Purged[k] = Live(iolist)[k]
         /\ Purged # <<>> => Len(Live(iolist)) # 0
<1> DEFINE s == iolist
           r == Live(s)
           N == Len(s)
           K == Len(r)
           I == {i \in 1 .. N : ~s[i].remove}
           last == SelectLastInSeq(s, LAMBDA x : ~x.remove)
           rest == SubSeq(s, last + 1, N)
<1>1. last = IF I # {} THEN Max(I) ELSE 0
  BY DEF SelectLastInSeq
<1>2. Purged = r \o (IF last = 0 THEN <<>> ELSE rest)
  BY DEF Purged
<1>3. N \in Nat /\ s \in Seq(Iod) /\ r \in Seq(Iod) /\ K \in Nat
      /\ \A i \in 1 .. N : s[i] \in Iod
  BY LiveIs, LenProperties, ElementOfSeq
<1>4. PICK at : Thinned(s, r, at)
  BY LiveIs
<1>5. /\ \A k \in 1 .. K : at[k] \in 1 .. N /\ r[k] = s[at[k]] /\ ~s[at[k]].remove
      /\ \A k, m \in 1 .. K : k < m => at[k] < at[m]
      /\ \A i \in 1 .. N : ~s[i].remove => \E k \in 1 .. K : at[k] = i
  <2>1. \A k \in 1 .. K : ~r[k].remove
    BY LiveIs
  <2> HIDE DEF s, r
  <2> QED BY <1>4, <2>1, Zenon DEF Thinned
<1>6. \A i : i \in I <=> i \in 1 .. N /\ ~s[i].remove
  OBVIOUS
<1> HIDE DEF s, r, I, last
<1>7. CASE I = {}
  <2>1. Purged = r
    BY <1>1, <1>2, <1>3, <1>7, ConcatEmptySeq
  <2>2. K = 0
    <3>1. K # 0 => 1 \in 1 .. K
      BY <1>3
    <3> QED BY <1>5, <1>6, <1>7, <3>1, Zenon
  <2>3. r = <<>>
    BY <1>3, <2>2, EmptySeq
  <2> QED BY <1>3, <1>4, <2>1, <2>3 DEF r, s
<1>8. CASE I # {}
  <2>1. last \in 1 .. N /\ last \in I /\ \A i \in I : last >= i
    <3>1. I \subseteq 1 .. N
      BY <1>6
    <3>2. Max(I) \in I /\ \A i \in I : Max(I) >= i
      BY <1>3, <1>8, <3>1, MaxIs
    <3> QED BY <1>1, <1>8, <3>1, <3>2
  <2> DEFINE M == Len(rest)
             q == r \o rest
             to == [k \in 1 .. K + M |-> IF k <= K THEN at[k] ELSE last + (k - K)]
  <2>2. rest \in Seq(Iod) /\ M = N - last /\ \A k \in 1 .. M : rest[k] = s[last + k]
    <3>1. \A i \in last + 1 .. N : s[i] \in Iod
      BY <1>3, <2>1
    <3>2. last + 1 \in Int /\ N \in Int
      BY <1>3, <2>1
    <3>3. /\ rest \in Seq(Iod)
          /\ M = IF last + 1 <= N THEN N - (last + 1) + 1 ELSE 0
          /\ \A k \in 1 .. N - (last + 1) + 1 : rest[k] = s[last + 1 + k - 1]
      <4> DEFINE a == last + 1
      <4>1. a \in Int /\ \A i \in a .. N : s[i] \in Iod
        BY <3>1, <3>2
      <4> HIDE DEF a
      <4>2. /\ SubSeq(s, a, N) \in Seq(Iod)
            /\ Len(SubSeq(s, a, N)) = IF a <= N THEN N - a + 1 ELSE 0
            /\ \A k \in 1 .. N - a + 1 : SubSeq(s, a, N)[k] = s[a + k - 1]
        BY <3>2, <4>1, SubSeqProperties
      <4> QED BY <4>2 DEF a
    <3> HIDE DEF rest
    <3>4. M = N - last
      BY <1>3, <2>1, <3>3
    <3>5. ASSUME NEW k \in 1 .. M PROVE rest[k] = s[last + k]
      <4>1. k \in 1 .. N - (last + 1) + 1 /\ last + 1 + k - 1 = last + k
        BY <1>3, <2>1, <3>4
      <4> QED BY <3>3, <4>1
    <3> QED BY <3>3, <3>4, <3>5
  <2> HIDE DEF rest
  <2>3. M \in Nat
    BY <1>3, <2>1, <2>2
  <2>4. /\ q \in Seq(Iod) /\ Len(q) = K + M
        /\ \A k \in 1 .. K + M : q[k] = IF k <= K THEN r[k] ELSE rest[k - K]
    <3>1. rest \in Seq(Iod) /\ r \in Seq(Iod)
      BY <1>3, <2>2
    <3> QED BY <3>1, ConcatProperties
  <2>5. Purged = q
    BY <1>2, <1>3, <2>1
  <2> HIDE DEF q
  <2>6. \A k \in 1 .. K + M : to[k] = IF k <= K THEN at[k] ELSE last + (k - K)
    OBVIOUS
  <2>7. to = [k \in 1 .. K + M |-> to[k]]
    OBVIOUS
  <2> HIDE DEF to
  <2>8. \A k \in 1 .. K : at[k] <= last
    BY <1>5, <1>6, <2>1
  <2>9. ASSUME NEW k \in 1 .. K + M PROVE to[k] \in 1 .. N /\ q[k] = s[to[k]]
    <3>1. CASE k <= K
      <4>1. k \in 1 .. K
        BY <1>3, <3>1
      <4> QED BY <1>5, <2>4, <2>6, <3>1, <4>1
    <3>2. CASE ~(k <= K)
      <4> DEFINE m == k - K
      <4>1. m \in 1 .. M /\ last + m \in 1 .. N
        BY <1>3, <2>1, <2>2, <2>3, <3>2
      <4>2. q[k] = rest[m] /\ to[k] = last + m
        BY <2>4, <2>6, <3>2
      <4> HIDE DEF m
      <4> QED BY <2>2, <4>1, <4>2
    <3> QED BY <3>1, <3>2
  <2>10. ASSUME NEW k \in 1 .. K + M, NEW m \in 1 .. K + M, k < m PROVE to[k] < to[m]
    <3>1. CASE m <= K
      <4>1. k \in 1 .. K /\ m \in 1 .. K /\ k <= K
        BY <1>3, <2>10, <3>1
      <4> QED BY <1>5, <2>6, <2>10, <3>1, <4>1
    <3>2. CASE ~(m <= K) /\ k <= K
      <4>1. k \in 1 .. K
        BY <1>3, <3>2
      <4>2. to[m] = last + (m - K) /\ to[k] = at[k]
        BY <2>6, <3>2
      <4>3. at[k] \in 1 .. N
        BY <1>5, <4>1
      <4> QED BY <1>3, <2>1, <2>3, <2>8, <3>2, <4>1, <4>2, <4>3
    <3>3. CASE ~(m <= K) /\ ~(k <= K)
      <4>1. to[m] = last + (m - K) /\ to[k] = last + (k - K)
        BY <2>6, <3>3
      <4> QED BY <1>3, <2>1, <2>3, <2>10, <4>1
    <3> QED BY <3>1, <3>2, <3>3
  <2>11. ASSUME NEW i \in 1 .. N, ~s[i].remove PROVE \E k \in 1 .. K + M : to[k] = i
    <3>1. PICK k \in 1 .. K : at[k] = i
      BY <1>5, <2>11
    <3>2. k \in 1 .. K + M /\ k <= K
      BY <1>3, <2>3
    <3> QED BY <2>6, <3>1, <3>2
  <2>12. Thinned(s, q, to)
    <3>1. to \in [1 .. K + M -> 1 .. N]
      BY <2>7, <2>9
    <3> QED BY <2>4, <2>9, <2>10, <2>11, <3>1, Zenon DEF Thinned
  <2>13. K <= Len(q) /\ Len(q) \in Nat /\ \A k \in 1 .. K : q[k] = r[k]
    BY <1>3, <2>3, <2>4
  <2>14. K # 0
    <3>1. PICK k \in 1 .. K : at[k] = last
      BY <1>5, <1>6, <2>1
    <3> QED BY <1>3, <3>1
  <2> QED BY <2>4, <2>5, <2>12, <2>13, <2>14 DEF r, s
<1> QED BY <1>7, <1>8

\* The purge of both lists, of the turn and of a poll that failed.
LEMMA PurgeKeeps ==
  ASSUME TypedLists, Served,
         iolist' = Purged, timerlist' = Live(timerlist), UNCHANGED <<iocnt, open, set, thinned>>
  PROVE  TypedLists' /\ Served'
<1>1. /\ iolist \in Seq(Iod) /\ Len(iolist) \in Nat /\ Distinct(iolist)
      /\ timerlist \in Seq(Iot) /\ Len(timerlist) \in Nat
  BY LenProperties DEF TypedLists
<1>2. ServedFds(iolist, open) /\ ServedTimers(timerlist, set, thinned)
  BY DEF Served
<1>3. Purged \in Seq(Iod) /\ Len(Purged) \in Nat /\ \E at : Thinned(iolist, Purged, at)
  BY <1>1, PurgedIs
<1>4. Distinct(Purged) /\ ServedFds(Purged, open)
  <2>1. PICK at : Thinned(iolist, Purged, at)
    BY <1>3
  <2> QED BY <1>1, <1>2, <1>3, <2>1, ThinnedDistinct, ThinnedServesFds, Zenon
<1> DEFINE r == Live(timerlist)
<1>5. /\ r \in Seq(Iot) /\ Len(r) \in Nat /\ \E at : Thinned(timerlist, r, at)
      /\ \A k \in 1 .. Len(r) : ~r[k].remove
  BY <1>1, LiveIs
<1>6. Distinct(r) /\ ServedTimers(r, set, thinned)
  <2>1. PICK at : Thinned(timerlist, r, at)
    BY <1>5
  <2>2. Distinct(timerlist)
    BY DEF TypedLists
  <2> HIDE DEF r
  <2> QED BY <1>1, <1>2, <1>5, <2>1, <2>2, ThinnedDistinct, ThinnedServesTimers, Zenon
<1>7. TypedLists'
  BY <1>3, <1>4, <1>5, <1>6 DEF TypedLists
<1>8. Served'
  BY <1>4, <1>6 DEF Served
<1> QED BY <1>7, <1>8

-----------------------------------------------------------------------------
(* The walks keep their places.                                             *)

\* The entries behind an entry are those at greater positions.
LEMMA BehindIs ==
  ASSUME NEW s, Len(s) \in Nat, Distinct(s), NEW i \in 1 .. Len(s), s[i].e = cursor
  PROVE  Behind(s) = Len(s) - i
BY IndexIs DEF Behind

\* A call moves the place of a walk together with the entries behind it.
LEMMA CallKeepsPlaces ==
  ASSUME TypedLists, TypedLists', TypedWalk, FdsInStep, TimersInStep, Called
  PROVE  /\ FdsInStep' /\ TimersInStep'
         /\ OverFds => Behind(iolist)' <= Behind(iolist)
         /\ OverTimers /\ cursor # None => Behind(timerlist)' <= Behind(timerlist)
<1>1. PICK h \in {0, 1} : Shifted(iolist, iolist', h) /\ SameSockets(iolist, iolist', h)
  BY DEF Called
<1>2. PICK g \in {0, 1} : Shifted(timerlist, timerlist', g)
  BY DEF Called
<1>3. pc' = pc /\ fds' = fds /\ n' = n /\ cursor' = cursor /\ back' = back
  BY DEF Called
<1>4. (OverFds' <=> OverFds) /\ (OverTimers' <=> OverTimers)
  BY <1>3 DEF OverFds, OverTimers
<1>5. /\ Len(iolist) \in Nat /\ Len(iolist') \in Nat /\ Len(timerlist) \in Nat /\ Len(timerlist') \in Nat
      /\ Distinct(iolist) /\ Distinct(iolist') /\ Distinct(timerlist) /\ Distinct(timerlist')
      /\ Len(fds) \in Nat /\ n \in Nat
  BY LenProperties DEF TypedLists, TypedWalk
<1>6. ASSUME OverFds PROVE FdsInStep' /\ Behind(iolist)' <= Behind(iolist)
  <2>1. n \in 1 .. Len(fds)
    BY <1>6 DEF FdsInStep
  <2>2. PICK c \in 1 .. Len(iolist) : Place(c)
    BY <1>6 DEF FdsInStep
  <2> DEFINE b == c + h
  <2>3. b \in 1 .. Len(iolist') /\ iolist'[b].e = cursor'
    BY <1>1, <1>3, <1>5, <2>2 DEF Shifted, Place
  <2>4. ASSUME NEW k \in n' .. Len(fds')
        PROVE  /\ b + (k - n') <= Len(iolist')
               /\ iolist'[b + (k - n')].e = fds'[k].e
               /\ iolist'[b + (k - n')].d = fds'[k].d
    <3> DEFINE i == c + (k - n)
    <3>1. k \in n .. Len(fds) /\ k - n >= 0
      BY <1>3, <1>5
    <3>2. i <= Len(iolist) /\ iolist[i].e = fds[k].e /\ iolist[i].d = fds[k].d
      BY <2>2, <3>1 DEF Place
    <3>3. i \in 1 .. Len(iolist) /\ b + (k - n') = i + h
      BY <1>3, <1>5, <3>1, <3>2
    <3> HIDE DEF i, b
    <3>4. iolist'[i + h].e = iolist[i].e /\ iolist'[i + h].d = iolist[i].d
      BY <1>1, <3>3 DEF Shifted, SameSockets
    <3>5. i + h <= Len(iolist')
      BY <1>1, <1>5, <3>3 DEF Shifted
    <3> QED BY <1>3, <3>2, <3>3, <3>4, <3>5
  <2>5. FdsInStep'
    <3>1. Place(b)'
      <4> HIDE DEF b
      <4> QED BY <2>3, <2>4 DEF Place
    <3>2. n' \in 1 .. Len(fds')
      BY <1>3, <2>1
    <3>3. \E a \in 1 .. Len(iolist') : Place(a)'
      BY <2>3, <3>1
    <3> QED BY <3>2, <3>3 DEF FdsInStep
  <2>6. Behind(iolist) = Len(iolist) - c
    BY <1>5, <2>2, BehindIs DEF Place
  <2>7. Behind(iolist)' = Len(iolist') - b
    <3>1. IndexIn(iolist', iolist'[b].e) = b
      <4> HIDE DEF b
      <4> QED BY <1>5, <2>3, IndexIs
    <3> QED BY <2>3, <3>1 DEF Behind
  <2> QED BY <1>1, <1>5, <2>5, <2>6, <2>7 DEF Shifted
<1>7. ASSUME OverTimers, cursor # None
      PROVE  TimersInStep' /\ Behind(timerlist)' <= Behind(timerlist)
  <2>1. PICK c \in 1 .. Len(timerlist) : timerlist[c].e = cursor
    BY <1>7 DEF TimersInStep, Addresses
  <2> DEFINE b == c + g
  <2>2. b \in 1 .. Len(timerlist') /\ timerlist'[b].e = cursor'
    BY <1>2, <1>3, <1>5, <2>1 DEF Shifted
  <2>3. Behind(timerlist) = Len(timerlist) - c
    BY <1>5, <2>1, BehindIs
  <2>4. Behind(timerlist)' = Len(timerlist') - b
    <3>1. IndexIn(timerlist', timerlist'[b].e) = b
      <4> HIDE DEF b
      <4> QED BY <1>5, <2>2, IndexIs
    <3> QED BY <2>2, <3>1 DEF Behind
  <2>5. TimersInStep'
    <3> HIDE DEF b
    <3> QED BY <2>2 DEF TimersInStep, Addresses
  <2> QED BY <1>2, <1>5, <2>3, <2>4, <2>5 DEF Shifted
<1>8. FdsInStep'
  BY <1>4, <1>6 DEF FdsInStep
<1>9. TimersInStep'
  BY <1>3, <1>4, <1>7 DEF TimersInStep
<1> QED BY <1>6, <1>7, <1>8, <1>9

\* The first entry of a list is one of its entries.
LEMMA HeadIs ==
  ASSUME NEW S, NEW s \in Seq(S), s # <<>>
  PROVE  1 \in 1 .. Len(s) /\ HeadOf(s) = s[1].e
BY EmptySeq, LenProperties DEF HeadOf

\* The walk over the timers starts at one of them.
LEMMA TimersStart ==
  ASSUME timerlist' \in Seq(Iot), pc' = "timers", cursor' = HeadOf(timerlist')
  PROVE  FdsInStep' /\ TimersInStep' /\ cursor' \in Entry \cup {None} /\ ~OverFds'
<1>1. ~OverFds'
  BY DEF OverFds
<1>2. CASE timerlist' = <<>>
  BY <1>1, <1>2 DEF HeadOf, FdsInStep, TimersInStep
<1>3. CASE timerlist' # <<>>
  <2>1. 1 \in 1 .. Len(timerlist') /\ cursor' = timerlist'[1].e
    BY <1>3, HeadIs
  <2>2. timerlist'[1] \in Iot
    BY <2>1, ElementOfSeq
  <2> QED BY <1>1, <2>1, <2>2 DEF FdsInStep, TimersInStep, Addresses, Iot
<1> QED BY <1>2, <1>3

\* The walk over iolist goes on with the next entry and the next of fds.
LEMMA AdvanceKeeps ==
  ASSUME TypedLists, TypedWalk, FdsInStep, OverFds,
         UNCHANGED lists, Advance(n + 1), UNCHANGED <<ops, back>>
  PROVE  /\ TypedWalk' /\ FdsInStep' /\ TimersInStep'
         /\ OverFds' => Behind(iolist)' <= Behind(iolist)
         /\ ~OverTimers
<1>1. /\ Len(iolist) \in Nat /\ Distinct(iolist) /\ iolist \in Seq(Iod) /\ timerlist \in Seq(Iot)
      /\ Len(fds) \in Nat /\ n \in Nat
  BY LenProperties DEF TypedLists, TypedWalk
<1>2. iolist' = iolist /\ timerlist' = timerlist
  BY DEF lists
<1>3. ~OverTimers
  BY DEF OverFds, OverTimers
<1> DEFINE e == After(iolist, cursor)
<1>4. CASE n + 1 > Len(fds) \/ e = None
  <2>1. pc' = "timers" /\ cursor' = HeadOf(timerlist) /\ n' = 1 /\ fds' = <<>>
    BY <1>4 DEF Advance, StartTimers
  <2>2. FdsInStep' /\ TimersInStep' /\ cursor' \in Entry \cup {None} /\ ~OverFds'
    BY <1>1, <1>2, <2>1, TimersStart
  <2>3. <<>> \in Seq(Polled)
    BY EmptySeq
  <2>4. TypedWalk'
    BY <2>1, <2>2, <2>3 DEF TypedWalk
  <2> QED BY <1>3, <2>2, <2>4
<1>5. CASE ~(n + 1 > Len(fds) \/ e = None)
  <2>1. pc' = "write" /\ cursor' = e /\ n' = n + 1 /\ fds' = fds
    BY <1>5 DEF Advance
  <2>2. n \in 1 .. Len(fds)
    BY DEF FdsInStep
  <2>3. PICK c \in 1 .. Len(iolist) : Place(c)
    BY DEF FdsInStep
  <2>4. After(iolist, iolist[c].e) = IF c = Len(iolist) THEN None ELSE iolist[c + 1].e
    BY <1>1, AfterIs
  <2>5. c # Len(iolist) /\ e = iolist[c + 1].e
    BY <1>5, <2>3, <2>4 DEF Place
  <2> DEFINE b == c + 1
  <2>6. b \in 1 .. Len(iolist) /\ cursor' = iolist[b].e
    BY <1>1, <2>1, <2>5
  <2>7. iolist[b] \in Iod
    BY <1>1, <2>6, ElementOfSeq
  <2>8. TypedWalk'
    BY <1>1, <2>1, <2>6, <2>7 DEF TypedWalk, Iod
  <2>9. FdsInStep'
    <3>1. n' \in 1 .. Len(fds')
      BY <1>1, <1>5, <2>1
    <3>2. ASSUME NEW k \in n' .. Len(fds')
          PROVE  /\ b + (k - n') <= Len(iolist')
                 /\ iolist'[b + (k - n')].e = fds'[k].e
                 /\ iolist'[b + (k - n')].d = fds'[k].d
      <4>1. k \in n .. Len(fds) /\ b + (k - n') = c + (k - n)
        BY <1>1, <2>1
      <4> HIDE DEF b
      <4> QED BY <1>2, <2>1, <2>3, <4>1 DEF Place
    <3> HIDE DEF b
    <3>3. Place(b)'
      BY <1>2, <2>6, <3>2 DEF Place
    <3>4. \E a \in 1 .. Len(iolist') : Place(a)'
      BY <1>2, <2>6, <3>3
    <3> QED BY <3>1, <3>4 DEF FdsInStep
  <2>10. TimersInStep'
    BY <2>1 DEF TimersInStep, OverTimers
  <2>11. Behind(iolist)' <= Behind(iolist)
    <3>1. Behind(iolist) = Len(iolist) - c
      BY <1>1, <2>3, BehindIs DEF Place
    <3>2. IndexIn(iolist, iolist[b].e) = b
      <4> HIDE DEF b
      <4> QED BY <1>1, <2>6, IndexIs
    <3>3. Behind(iolist)' = Len(iolist) - b
      BY <1>2, <2>6, <3>2 DEF Behind
    <3> QED BY <1>1, <3>1, <3>3
  <2> QED BY <1>3, <2>8, <2>9, <2>10, <2>11
<1> QED BY <1>4, <1>5

\* The walk over the timers goes on with the next of them.
LEMMA NextTimer ==
  ASSUME TypedLists, TypedWalk, TimersInStep, OverTimers, cursor # None,
         UNCHANGED lists, cursor' = After(timerlist, cursor)
  PROVE  /\ cursor' \in Entry \cup {None}
         /\ cursor' # None => /\ cursor' \in Addresses(timerlist')
                              /\ Behind(timerlist)' <= Behind(timerlist)
<1>1. /\ Len(timerlist) \in Nat /\ Distinct(timerlist) /\ timerlist \in Seq(Iot)
      /\ timerlist' = timerlist
  BY LenProperties DEF TypedLists, lists
<1>2. PICK c \in 1 .. Len(timerlist) : timerlist[c].e = cursor
  BY DEF TimersInStep, Addresses
<1>3. cursor' = IF c = Len(timerlist) THEN None ELSE timerlist[c + 1].e
  BY <1>1, <1>2, AfterIs
<1>4. CASE c = Len(timerlist)
  BY <1>3, <1>4
<1>5. CASE c # Len(timerlist)
  <2> DEFINE b == c + 1
  <2>1. b \in 1 .. Len(timerlist) /\ cursor' = timerlist[b].e
    BY <1>1, <1>3, <1>5
  <2>2. timerlist[b] \in Iot
    BY <1>1, <2>1, ElementOfSeq
  <2>3. cursor' \in Entry /\ cursor' \in Addresses(timerlist')
    <3> HIDE DEF b
    <3> QED BY <1>1, <2>1, <2>2 DEF Addresses, Iot
  <2>4. Behind(timerlist) = Len(timerlist) - c
    BY <1>1, <1>2, BehindIs
  <2>5. Behind(timerlist)' = Len(timerlist) - b
    <3>1. IndexIn(timerlist, timerlist[b].e) = b
      <4> HIDE DEF b
      <4> QED BY <1>1, <2>1, IndexIs
    <3> QED BY <1>1, <2>1, <3>1 DEF Behind
  <2> QED BY <1>1, <2>3, <2>4, <2>5
<1> QED BY <1>4, <1>5

-----------------------------------------------------------------------------
(* The steps of a turn.                                                     *)

\* What every step keeps of the walks, and what it may do to the entries
\* behind them.
Kept ==
  /\ TypedWalk' /\ FdsInStep' /\ TimersInStep'
  /\ OverFds /\ OverFds' => Behind(iolist)' <= Behind(iolist)
  /\ OverTimers /\ OverTimers' /\ None \notin {cursor, cursor'}
       => Behind(timerlist)' <= Behind(timerlist)

\* A step that moves no walk and goes on over the same list keeps its place.
LEMMA StandsStill ==
  ASSUME Inv, TypedWalk', UNCHANGED <<lists, fds, n, cursor>>,
         OverFds' => OverFds, OverTimers' => OverTimers \/ cursor = None
  PROVE  Kept
<1>1. iolist' = iolist /\ timerlist' = timerlist /\ fds' = fds /\ n' = n /\ cursor' = cursor
  BY DEF lists
<1>2. FdsInStep'
  <2>1. \A c : Place(c)' <=> Place(c)
    BY <1>1 DEF Place
  <2> QED BY <1>1, <2>1 DEF FdsInStep, Inv
<1>3. TimersInStep'
  BY <1>1 DEF TimersInStep, Inv
<1>4. Behind(iolist)' = Behind(iolist) /\ Behind(timerlist)' = Behind(timerlist)
  BY <1>1 DEF Behind
<1>5. OverFds => Behind(iolist) \in Int
  <2> SUFFICES ASSUME OverFds PROVE Behind(iolist) \in Int
    OBVIOUS
  <2>1. PICK c \in 1 .. Len(iolist) : Place(c)
    BY DEF FdsInStep, Inv
  <2>2. Len(iolist) \in Nat /\ Distinct(iolist)
    BY LenProperties DEF TypedLists, Inv
  <2>3. Behind(iolist) = Len(iolist) - c
    BY <2>1, <2>2, BehindIs DEF Place
  <2> QED BY <2>2, <2>3
<1>6. OverTimers /\ cursor # None => Behind(timerlist) \in Int
  <2> SUFFICES ASSUME OverTimers, cursor # None PROVE Behind(timerlist) \in Int
    OBVIOUS
  <2>1. PICK c \in 1 .. Len(timerlist) : timerlist[c].e = cursor
    BY DEF TimersInStep, Addresses, Inv
  <2>2. Len(timerlist) \in Nat /\ Distinct(timerlist)
    BY LenProperties DEF TypedLists, Inv
  <2>3. Behind(timerlist) = Len(timerlist) - c
    BY <2>1, <2>2, BehindIs
  <2> QED BY <2>2, <2>3
<1>7. OverFds /\ OverFds' => Behind(iolist)' <= Behind(iolist)
  <2> SUFFICES ASSUME OverFds PROVE Behind(iolist)' <= Behind(iolist)
    OBVIOUS
  <2>1. \A i \in Int : i <= i
    OBVIOUS
  <2> QED BY <1>4, <1>5, <2>1
<1>8. OverTimers /\ OverTimers' /\ None \notin {cursor, cursor'}
        => Behind(timerlist)' <= Behind(timerlist)
  <2> SUFFICES ASSUME OverTimers, cursor # None PROVE Behind(timerlist)' <= Behind(timerlist)
    BY <1>1
  <2>1. \A i \in Int : i <= i
    OBVIOUS
  <2> QED BY <1>4, <1>6, <2>1
<1> QED BY <1>2, <1>3, <1>7, <1>8 DEF Kept

\* What poll filled in is a list of polled entries.
LEMMA PolledIs ==
  ASSUME NEW s \in Seq(Iod), NEW ev \in [1 .. Len(s) -> SUBSET {"in", "out"}], NEW p,
         p = [i \in 1 .. Len(s) |-> [d |-> s[i].d, e |-> s[i].e, events |-> ev[i]]]
  PROVE  /\ p \in Seq(Polled) /\ Len(p) = Len(s)
         /\ \A i \in 1 .. Len(s) : p[i].d = s[i].d /\ p[i].e = s[i].e
<1>1. Len(s) \in Nat /\ \A i \in 1 .. Len(s) : s[i] \in Iod
  BY LenProperties, ElementOfSeq
<1>2. \A i \in 1 .. Len(s) : p[i] = [d |-> s[i].d, e |-> s[i].e, events |-> ev[i]]
  OBVIOUS
<1>3. \A i \in 1 .. Len(s) : p[i] \in Polled
  BY <1>1, <1>2 DEF Iod, Polled
<1>4. p \in [1 .. Len(s) -> Polled]
  BY <1>3
<1>5. p \in Seq(Polled) /\ Len(p) = Len(s)
  BY <1>1, <1>4
<1> QED BY <1>2, <1>5

\* Purge and poll: the walk starts at the first entry, the first that was polled.
LEMMA StartTurnKeeps ==
  ASSUME Inv, StartTurn
  PROVE  TypedLists' /\ Served' /\ Kept
<1> DEFINE r == Live(iolist)
           first == Live(timerlist)
<1>1. /\ pc = "out" /\ iolist' = Purged /\ timerlist' = first /\ n' = 1
      /\ UNCHANGED <<iocnt, open, set, thinned, ops, back>>
      /\ IF Purged = <<>> THEN pc' = "timers" /\ cursor' = HeadOf(first)
                          ELSE pc' = "write" /\ cursor' = HeadOf(Purged)
  BY DEF StartTurn
<1>2. PICK ev \in [1 .. Len(r) -> SUBSET {"in", "out"}] :
        fds' = [i \in 1 .. Len(r) |-> [d |-> r[i].d, e |-> r[i].e, events |-> ev[i]]]
  BY DEF StartTurn
<1>3. TypedLists' /\ Served'
  BY <1>1, PurgeKeeps DEF Inv
<1>4. iolist \in Seq(Iod) /\ r \in Seq(Iod) /\ Len(r) \in Nat
  BY LiveIs DEF Inv, TypedLists
<1>5. /\ fds' \in Seq(Polled) /\ Len(fds') = Len(r)
      /\ \A i \in 1 .. Len(r) : fds'[i].d = r[i].d /\ fds'[i].e = r[i].e
  <2> HIDE DEF r
  <2>1. \A p : p = [i \in 1 .. Len(r) |-> [d |-> r[i].d, e |-> r[i].e, events |-> ev[i]]]
                 => /\ p \in Seq(Polled) /\ Len(p) = Len(r)
                    /\ \A i \in 1 .. Len(r) : p[i].d = r[i].d /\ p[i].e = r[i].e
    BY <1>4, PolledIs
  <2> QED BY <1>2, <2>1, Zenon
<1>6. /\ Purged \in Seq(Iod) /\ Len(Purged) \in Nat
      /\ Len(r) <= Len(Purged)
      /\ \A k \in 1 .. Len(r) : Purged[k] = r[k]
      /\ Purged # <<>> => Len(r) # 0
  BY <1>4, PurgedIs
<1>7. ~OverFds /\ ~OverTimers
  BY <1>1 DEF OverFds, OverTimers
<1> HIDE DEF r
<1>8. CASE Purged = <<>>
  <2>1. pc' = "timers" /\ cursor' = HeadOf(timerlist')
    BY <1>1, <1>8
  <2>2. FdsInStep' /\ TimersInStep' /\ cursor' \in Entry \cup {None}
    BY <1>3, <2>1, TimersStart DEF TypedLists
  <2>3. TypedWalk'
    BY <1>1, <1>5, <2>1, <2>2 DEF TypedWalk, Inv
  <2> QED BY <1>3, <1>7, <2>2, <2>3 DEF Kept
<1>9. CASE Purged # <<>>
  <2>1. pc' = "write" /\ cursor' = HeadOf(Purged)
    BY <1>1, <1>9
  <2>2. 1 \in 1 .. Len(Purged) /\ cursor' = Purged[1].e
    BY <1>6, <1>9, <2>1, HeadIs
  <2>3. Purged[1] \in Iod
    BY <1>6, <2>2, ElementOfSeq
  <2>4. TypedWalk'
    BY <1>1, <1>5, <2>1, <2>2, <2>3 DEF TypedWalk, Inv, Iod
  <2>5. FdsInStep'
    <3>1. n' \in 1 .. Len(fds')
      BY <1>1, <1>4, <1>5, <1>6, <1>9
    <3>2. ASSUME NEW k \in n' .. Len(fds')
          PROVE  /\ 1 + (k - n') <= Len(iolist')
                 /\ iolist'[1 + (k - n')].e = fds'[k].e
                 /\ iolist'[1 + (k - n')].d = fds'[k].d
      <4>1. k \in 1 .. Len(r) /\ 1 + (k - n') = k
        BY <1>1, <1>4, <1>5
      <4>2. k <= Len(Purged)
        BY <1>4, <1>6, <4>1
      <4> QED BY <1>1, <1>5, <1>6, <4>1, <4>2
    <3>3. Place(1)'
      BY <1>1, <2>2, <3>2 DEF Place
    <3>4. \E a \in 1 .. Len(iolist') : Place(a)'
      BY <1>1, <2>2, <3>3
    <3> QED BY <3>1, <3>4 DEF FdsInStep
  <2>6. TimersInStep'
    BY <2>1 DEF TimersInStep, OverTimers
  <2> QED BY <1>3, <1>7, <2>4, <2>5, <2>6 DEF Kept
<1> QED BY <1>8, <1>9

\* A poll that failed leaves the program between two turns.
LEMMA PollFailsKeeps ==
  ASSUME Inv, PollFails
  PROVE  TypedLists' /\ Served' /\ Kept
<1>1. /\ pc = "out" /\ iolist' = Purged /\ timerlist' = Live(timerlist)
      /\ UNCHANGED <<iocnt, open, set, thinned>>
      /\ pc' = pc /\ fds' = fds /\ n' = n /\ cursor' = cursor /\ ops' = ops /\ back' = back
  BY DEF PollFails, walk
<1>2. TypedLists' /\ Served'
  BY <1>1, PurgeKeeps DEF Inv
<1>3. ~OverFds /\ ~OverTimers /\ ~OverFds' /\ ~OverTimers'
  BY <1>1 DEF OverFds, OverTimers
<1>4. TypedWalk'
  BY <1>1 DEF TypedWalk, Inv
<1> QED BY <1>2, <1>3, <1>4 DEF Kept, FdsInStep, TimersInStep

\* Steps that change no list keep what is known of the lists.
LEMMA ListsKept ==
  ASSUME Inv, UNCHANGED lists
  PROVE  TypedLists' /\ Served'
BY DEF Inv, lists, TypedLists, Served

\* can_write: the entry of the walk is the one whose place in fds is looked at.
LEMMA CallWriteKeeps ==
  ASSUME Inv, CallWrite
  PROVE  Kept
<1>1. pc = "write" /\ UNCHANGED lists
  BY DEF CallWrite
<1>2. OverFds /\ ~OverTimers
  BY <1>1 DEF OverFds, OverTimers
<1>3. fds[n].d = At.d
  <2>1. PICK c \in 1 .. Len(iolist) : Place(c)
    BY <1>2 DEF Inv, FdsInStep
  <2>2. n \in 1 .. Len(fds) /\ Len(fds) \in Nat
    BY <1>2, LenProperties DEF Inv, FdsInStep, TypedWalk
  <2>3. n \in n .. Len(fds) /\ c + (n - n) = c
    BY <2>2
  <2>4. iolist[c].d = fds[n].d
    BY <2>1, <2>3 DEF Place
  <2>5. IndexIn(iolist, iolist[c].e) = c
    BY IndexIs, LenProperties DEF Inv, TypedLists
  <2> QED BY <2>1, <2>4, <2>5 DEF At, Place
<1>4. /\ UNCHANGED <<fds, n, cursor>>
      /\ \/ pc' = "callback" /\ ops' = MaxOps /\ back' = "read"
         \/ pc' = "read" /\ UNCHANGED <<ops, back>>
  BY <1>3 DEF CallWrite, Callback
<1>5. TypedWalk'
  BY <1>4, IoAssumption DEF TypedWalk, Inv
<1>6. ~OverTimers'
  BY <1>4 DEF OverTimers
<1> QED BY <1>1, <1>2, <1>4, <1>5, <1>6, StandsStill

\* can_read, or the way on to the next entry.
LEMMA CallReadKeeps ==
  ASSUME Inv, CallRead
  PROVE  Kept
<1>1. pc = "read" /\ UNCHANGED lists
  BY DEF CallRead
<1>2. OverFds /\ ~OverTimers
  BY <1>1 DEF OverFds, OverTimers
<1>3. CASE Callback("advance") /\ UNCHANGED <<fds, n, cursor>>
  <2>1. TypedWalk'
    BY <1>3, IoAssumption DEF TypedWalk, Inv, Callback
  <2>2. ~OverTimers'
    BY <1>3 DEF OverTimers, Callback
  <2> QED BY <1>1, <1>2, <1>3, <2>1, <2>2, StandsStill
<1>4. CASE Advance(Count(At.remove)) /\ UNCHANGED <<ops, back>>
  BY <1>1, <1>2, <1>4, AdvanceKeeps DEF Count, Kept, Inv
<1> QED BY <1>3, <1>4 DEF CallRead

\* The way on after can_read.
LEMMA ReadDoneKeeps ==
  ASSUME Inv, ReadDone
  PROVE  Kept
<1>1. pc = "advance" /\ UNCHANGED lists /\ Advance(n + 1) /\ UNCHANGED <<ops, back>>
  BY DEF ReadDone, Count
<1>2. OverFds /\ ~OverTimers
  BY <1>1 DEF OverFds, OverTimers
<1> QED BY <1>1, <1>2, AdvanceKeeps DEF Kept, Inv

\* A timer is called, or passed over when it is marked.
LEMMA RunTimerKeeps ==
  ASSUME Inv, RunTimer
  PROVE  Kept
<1>1. pc = "timers" /\ cursor # None /\ UNCHANGED lists /\ UNCHANGED <<fds, n>>
  BY DEF RunTimer
<1>2. ~OverFds /\ OverTimers
  BY <1>1 DEF OverFds, OverTimers
<1>3. CASE cursor' = After(timerlist, cursor) /\ UNCHANGED <<pc, ops, back>>
  <2>1. /\ cursor' \in Entry \cup {None}
        /\ cursor' # None => /\ cursor' \in Addresses(timerlist')
                             /\ Behind(timerlist)' <= Behind(timerlist)
    BY <1>1, <1>2, <1>3, NextTimer DEF Inv
  <2>2. TypedWalk'
    BY <1>1, <1>3, <2>1 DEF TypedWalk, Inv
  <2>3. ~OverFds'
    BY <1>1, <1>3 DEF OverFds
  <2> QED BY <1>2, <2>1, <2>2, <2>3 DEF Kept, FdsInStep, TimersInStep
<1>4. CASE Callback("timer_done") /\ UNCHANGED cursor
  <2>1. TypedWalk'
    BY <1>1, <1>4, IoAssumption DEF TypedWalk, Inv, Callback
  <2>2. ~OverFds'
    BY <1>4 DEF OverFds, Callback
  <2> QED BY <1>1, <1>2, <1>4, <2>1, <2>2, StandsStill
<1> QED BY <1>3, <1>4 DEF RunTimer

\* The way on after a timer.
LEMMA TimerDoneKeeps ==
  ASSUME Inv, TimerDone
  PROVE  Kept
<1>1. /\ pc = "timer_done" /\ UNCHANGED lists /\ UNCHANGED <<fds, n, ops, back>>
      /\ cursor' = After(timerlist, cursor) /\ pc' = "timers"
  BY DEF TimerDone
<1>2. ~OverFds /\ OverTimers /\ cursor # None
  BY <1>1 DEF OverFds, OverTimers, TypedWalk, Inv
<1>3. /\ cursor' \in Entry \cup {None}
      /\ cursor' # None => /\ cursor' \in Addresses(timerlist')
                           /\ Behind(timerlist)' <= Behind(timerlist)
  BY <1>1, <1>2, NextTimer DEF Inv
<1>4. TypedWalk'
  BY <1>1, <1>3 DEF TypedWalk, Inv
<1>5. ~OverFds'
  BY <1>1 DEF OverFds
<1> QED BY <1>2, <1>3, <1>4, <1>5 DEF Kept, FdsInStep, TimersInStep

\* The turn is over.
LEMMA EndTurnKeeps ==
  ASSUME Inv, EndTurn
  PROVE  Kept
<1>1. pc' = "out" /\ UNCHANGED <<lists, fds, n, cursor, ops, back>>
  BY DEF EndTurn
<1>2. ~OverFds' /\ ~OverTimers'
  BY <1>1 DEF OverFds, OverTimers
<1>3. TypedWalk'
  BY <1>1 DEF TypedWalk, Inv
<1> QED BY <1>1, <1>2, <1>3, StandsStill

\* A callback returns to where the walk was left.
LEMMA ReturnKeeps ==
  ASSUME Inv, Return
  PROVE  Kept
<1>1. pc = "callback" /\ pc' = back /\ ops' = 0 /\ UNCHANGED <<lists, fds, n, cursor, back>>
  BY DEF Return
<1>2. back \in {"read", "advance", "timer_done"}
  BY <1>1 DEF TypedWalk, Inv
<1>3. (OverFds' => OverFds) /\ (OverTimers' => OverTimers)
  BY <1>1, <1>2 DEF OverFds, OverTimers
<1>4. TypedWalk'
  BY <1>1, <1>2, IoAssumption DEF TypedWalk, Inv
<1> QED BY <1>1, <1>3, <1>4, StandsStill

-----------------------------------------------------------------------------
(* The theorems.                                                            *)

\* The program starts with empty lists.
LEMMA InitInv == Init => Inv
<1> SUFFICES ASSUME Init PROVE Inv
  OBVIOUS
<1>1. <<>> \in Seq(Iod) /\ Len(<<>>) = 0
  BY EmptySeq
<1>2. <<>> \in Seq(Iot)
  BY EmptySeq
<1>3. <<>> \in Seq(Polled)
  BY EmptySeq
<1>4. \A i : i \notin 1 .. 0
  OBVIOUS
<1>5. Distinct(<<>>) /\ ServedFds(<<>>, {})
  BY <1>1, <1>4, Zenon DEF Distinct, ServedFds
<1>6. IsFiniteSet({}) /\ Cardinality({}) = 0
  BY FS_EmptySet
<1>7. ServedTimers(timerlist, set, thinned)
  <2>1. timerlist = <<>> /\ \A f \in Timer : set[f] = 0
    BY DEF Init
  <2>2. \A f : Serving(timerlist, f) = {} /\ LiveInFront(timerlist, f)
    <3>1. \A i : i \notin 1 .. Len(timerlist)
      BY <1>1, <1>4, <2>1
    <3>2. \A f : LiveInFront(timerlist, f)
      BY ONLY <3>1 DEF LiveInFront
    <3>3. \A f, x : x \notin Serving(timerlist, f)
      BY ONLY <3>1, ServingIs
    <3> QED BY <3>2, <3>3
  <2>3. \A f \in Timer : set[f] = 0
    BY <2>1
  <2>4. Cardinality({}) >= 0
    BY <1>6
  <2> QED BY ONLY <1>6, <2>2, <2>3, <2>4 DEF ServedTimers
<1>7a. TypedLists
  BY <1>1, <1>2, <1>5, <1>6 DEF TypedLists, Init
<1>8. TypedWalk
  BY <1>3, IoAssumption DEF TypedWalk, Init
<1>9. Served
  BY <1>5, <1>6, <1>7 DEF Served, Init
<1>10. ~OverFds /\ ~OverTimers
  BY DEF Init, OverFds, OverTimers
<1> QED BY <1>7a, <1>8, <1>9, <1>10 DEF Inv, FdsInStep, TimersInStep

\* A step that changes nothing.
LEMMA StutterKeeps ==
  ASSUME Inv, UNCHANGED vars
  PROVE  TypedLists' /\ Served' /\ Kept
<1>1. UNCHANGED lists /\ UNCHANGED <<fds, n, cursor>> /\ UNCHANGED <<pc, ops, back>>
  BY DEF vars, walk
<1>2. (OverFds' => OverFds) /\ (OverTimers' => OverTimers)
  BY <1>1 DEF OverFds, OverTimers
<1>3. TypedWalk'
  BY <1>1 DEF TypedWalk, Inv
<1> QED BY <1>1, <1>2, <1>3, StandsStill, ListsKept

\* A call keeps the lists and both walks.
LEMMA CallKeeps ==
  ASSUME Inv, TypedLists', TypedWalk', Served', Called
  PROVE  Kept
<1>1. /\ FdsInStep' /\ TimersInStep'
      /\ OverFds => Behind(iolist)' <= Behind(iolist)
      /\ OverTimers /\ cursor # None => Behind(timerlist)' <= Behind(timerlist)
  BY CallKeepsPlaces DEF Inv
<1> QED BY <1>1, Zenon DEF Kept

\* Every step keeps the invariant, and adds nothing behind a walk.
LEMMA NextKeeps ==
  ASSUME Inv, [Next]_vars
  PROVE  Inv' /\ Kept
<1> SUFFICES TypedLists' /\ Served' /\ Kept
  BY DEF Inv, Kept
<1>1. ASSUME NEW d \in Descriptor, Register(d) \/ Close(d) PROVE TypedLists' /\ Served' /\ Kept
  BY <1>1, RegisterCalled, CloseCalled, CallKeeps
<1>2. ASSUME NEW d \in Descriptor, NEW on \in BOOLEAN, WantRead(d, on) \/ WantWrite(d, on)
      PROVE  TypedLists' /\ Served' /\ Kept
  BY <1>2, WantCalled, CallKeeps
<1>3. ASSUME NEW f \in Timer, SetTimer(f) \/ UnsetTimer(f) PROVE TypedLists' /\ Served' /\ Kept
  BY <1>3, SetTimerCalled, UnsetTimerCalled, CallKeeps
<1>4. CASE StartTurn
  BY <1>4, StartTurnKeeps
<1>5. CASE PollFails
  BY <1>5, PollFailsKeeps
<1>6. CASE IdleTurn \/ UNCHANGED vars
  BY <1>6, StutterKeeps DEF IdleTurn
<1>7. CASE CallWrite
  BY <1>7, CallWriteKeeps, ListsKept DEF CallWrite
<1>8. CASE CallRead
  BY <1>8, CallReadKeeps, ListsKept DEF CallRead
<1>9. CASE ReadDone
  BY <1>9, ReadDoneKeeps, ListsKept DEF ReadDone
<1>10. CASE RunTimer
  BY <1>10, RunTimerKeeps, ListsKept DEF RunTimer
<1>11. CASE TimerDone
  BY <1>11, TimerDoneKeeps, ListsKept DEF TimerDone
<1>12. CASE EndTurn
  BY <1>12, EndTurnKeeps, ListsKept DEF EndTurn
<1>13. CASE Return
  BY <1>13, ReturnKeeps, ListsKept DEF Return
<1> QED
  BY <1>1, <1>2, <1>3, <1>4, <1>5, <1>6, <1>7, <1>8, <1>9, <1>10, <1>11, <1>12, <1>13 DEF Next

\* The invariant.
LEMMA InvHolds == Spec => []Inv
<1>1. Inv /\ [Next]_vars => Inv'
  BY NextKeeps
<1> QED BY InitInv, <1>1, PTL DEF Spec

\* For any numbers of sockets and timers, what the owners hold open is what the
\* loop serves, once each, and a timer is called for every time it is set,
\* whatever is closed, registered, set again and unset between the purges
\* (io.c:213, 222-233).
THEOREM IoLoopOwnersAgree == Spec => []OwnersAgree
<1>1. ASSUME Inv PROVE OwnersAgree
  <2>1. /\ iolist \in Seq(Iod) /\ timerlist \in Seq(Iot) /\ Distinct(iolist)
        /\ ServedFds(iolist, open) /\ ServedTimers(timerlist, set, thinned)
    BY <1>1 DEF Inv, TypedLists, Served
  <2>2. TypeOK
    <3>1. \A i \in 1 .. Len(iolist) : iolist[i] \in Iod
      BY <2>1, ElementOfSeq
    <3>2. \A i \in 1 .. Len(timerlist) : timerlist[i] \in Iot
      BY <2>1, ElementOfSeq
    <3> QED BY <1>1, <3>1, <3>2 DEF TypeOK, Inv, TypedLists, TypedWalk, Iod, Iot
  <2>3. {x.d : x \in ToSet(Live(iolist))} = open /\ Len(Live(iolist)) = Cardinality(open)
    BY <2>1, LiveFds
  <2>4. \A f \in Timer :
          /\ Cardinality(Serving(timerlist, f)) >= set[f]
          /\ f \notin thinned => Cardinality(Serving(timerlist, f)) = set[f]
    BY <2>1 DEF ServedTimers
  <2>5. iocnt = Cardinality(open)
    BY <1>1 DEF Inv, Served
  <2> QED BY <2>2, <2>3, <2>4, <2>5 DEF OwnersAgree
<1>2. Inv => OwnersAgree
  BY <1>1
<1> QED BY InvHolds, <1>2, PTL

\* However many entries callbacks add and close in front of and behind the
\* walk, it stays in step with fds and stands on no freed entry (io.c:248, 263).
THEOREM IoLoopInStep == Spec => []InStep
<1>1. ASSUME Inv PROVE InStep
  <2>1. ASSUME OverFds
        PROVE  /\ cursor \in Addresses(iolist) /\ n <= Len(fds) /\ fds[n].e = cursor
               /\ After(iolist, cursor) = None => n = Len(fds)
    <3>1. /\ iolist \in Seq(Iod) /\ Len(iolist) \in Nat /\ Distinct(iolist)
          /\ n \in 1 .. Len(fds) /\ Len(fds) \in Nat
      BY <1>1, <2>1, LenProperties DEF Inv, TypedLists, TypedWalk, FdsInStep
    <3>2. PICK c \in 1 .. Len(iolist) : Place(c)
      BY <1>1, <2>1 DEF Inv, FdsInStep
    <3>3. n \in n .. Len(fds) /\ c + (n - n) = c
      BY <3>1
    <3>4. cursor = iolist[c].e /\ fds[n].e = cursor
      BY <3>2, <3>3 DEF Place
    <3>5. ASSUME n # Len(fds) PROVE After(iolist, cursor) # None
      <4> DEFINE k == n + 1
                 b == c + 1
      <4>1. k \in n .. Len(fds) /\ c + (k - n) = b
        BY <3>1, <3>5
      <4>2. b <= Len(iolist)
        <5> HIDE DEF k, b
        <5> QED BY <3>2, <4>1 DEF Place
      <4>3. b \in 1 .. Len(iolist) /\ c # Len(iolist)
        BY <3>1, <4>2
      <4>4. iolist[b] \in Iod
        BY <3>1, <4>3, ElementOfSeq
      <4>5. After(iolist, iolist[c].e) = iolist[b].e
        BY <3>1, <4>3, AfterIs
      <4> HIDE DEF b
      <4>6. iolist[b].e \in Entry
        BY <4>4 DEF Iod
      <4> QED BY <3>4, <4>5, <4>6, EntryAssumption
    <3>6. cursor \in Addresses(iolist)
      BY <3>4 DEF Addresses
    <3>7. n <= Len(fds)
      BY <3>1
    <3> QED BY <3>4, <3>5, <3>6, <3>7
  <2>2. OverTimers /\ cursor # None => cursor \in Addresses(timerlist)
    BY <1>1 DEF Inv, TimersInStep
  <2> QED BY <2>1, <2>2 DEF InStep
<1>2. Inv => InStep
  BY <1>1
<1> QED BY InvHolds, <1>2, PTL

\* No step, of the turn or of a callback, puts an entry behind the place of a
\* walk: a turn that calls back ends (io.c:236-266).
THEOREM IoLoopNothingAddedBehind == Spec => NothingAddedBehind
<1>1. Inv /\ [Next]_vars =>
        [ (OverFds /\ OverFds' => Behind(iolist)' <= Behind(iolist))
          /\ (OverTimers /\ OverTimers' /\ None \notin {cursor, cursor'}
                => Behind(timerlist)' <= Behind(timerlist)) ]_vars
  BY NextKeeps DEF Kept
<1> QED BY InvHolds, <1>1, PTL DEF Spec, NothingAddedBehind
=============================================================================
