------------------------------ MODULE IrcProofs ------------------------------
(***************************************************************************)
(* The safety invariants of Connection and of Channels, for every choice   *)
(* of their constants.                                                     *)
(*                                                                         *)
(* Connection: a callback works on a record c of its variables, so the     *)
(* lemmas are about records: what each function of sock.c, dns.c and irc.c *)
(* does to one (the lemmas ...Does), and that the parts of the inductive   *)
(* invariant, Held, Bound, Waits and OnTime, survive it.  A reconnect may  *)
(* only begin when no query is pending (Idle), unless the case that the    *)
(* ghost parted marks has occurred; that this is so when the silence of a  *)
(* server ends in a reconnect needs OnTime: the silence is no longer than  *)
(* the pending query and the one before it have lived, which is less than  *)
(* CONNTIMEOUT.                                                            *)
(*                                                                         *)
(* Channels: the lines under way to the bot tell a story of each channel   *)
(* (StoryOf): the rooms it will believe in, from the one its list agrees   *)
(* with now to the one the server has.  The server only puts lines behind  *)
(* it (Says), the bot only reads its first (Follows), and what else it     *)
(* does leaves the list in agreement with where it begins (Fits).  Of the  *)
(* orders, OrderInv says what is under way for a channel that is to be in  *)
(* (ToBeIn) or out (ToBeOut).                                              *)
(***************************************************************************)
EXTENDS Connection, Channels, ListProofs


\* The values of fds, queries and bs.
Sock == [peer : Server, net : NetStates, want : BOOLEAN]

Sockets == UNION {[D -> Sock] : D \in SUBSET Descriptor}

Asked == [owner : {"bs", "freed"}, family : {"a", "aaaa"}, host : Server, age : 0 .. QueryLife]

SocketObjects ==
  [state : BS_ERR .. BS_READY, s : Descriptor \cup {NoFd}, host : Server \cup {NoFd}]

\* The records that a callback works on.
Records ==
  [state : BS_ERR .. BS_READY, s : Descriptor \cup {NoFd}, host : Server \cup {NoFd},
   fds : Sockets, queries : Seq(Asked), nextserv : Server, out : BOOLEAN,
   lines : BOOLEAN, quiet : 0 .. Timeout + 1, purged : BOOLEAN, parted : BOOLEAN,
   tried : SUBSET Server, ok : BOOLEAN]

\* The one socket is the one that the socket object knows of.
Held(c) == DOMAIN c.fds = {c.s} \ {NoFd}

\* A connection has its socket; the socket leads to the host last chosen, and no
\* query is pending besides it; a query of the socket object asks for a host.
Bound(c) ==
  /\ c.state \in {BS_CONN, BS_READY} => c.s # NoFd
  /\ ~c.parted /\ c.s # NoFd => c.fds[c.s].peer = c.host /\ c.queries = <<>>
  /\ c.host \in Server \/ \A i \in 1 .. Len(c.queries) : c.queries[i].owner = "freed"

\* No query is pending.
Idle(c) == ~c.parted => c.queries = <<>>

\* At most one query is pending, the socket object's, for the host last chosen.
Waits(c) == ~c.parted => \/ c.queries = <<>>
                         \/ \E q \in Asked : c.queries = <<q>> /\ q.owner = "bs" /\ q.host = c.host

\* The A query may follow an AAAA query that has used up its time.
Allowed(q) == q.age + (IF q.family = "a" THEN QueryLife ELSE 0)

\* The server has been silent no longer than the queries have taken.
OnTime(c) == ~c.parted => \A i \in 1 .. Len(c.queries) : c.quiet <= Allowed(c.queries[i])

\* What every call leaves, and what a reconnect begins with.
Fit(c) == c \in Records /\ Held(c) /\ Bound(c)

\* What is in the table of sockets.
LEMMA SocketsIs ==
  ASSUME NEW f \in Sockets
  PROVE  /\ DOMAIN f \subseteq Descriptor
         /\ f = [d \in DOMAIN f |-> f[d]]
         /\ \A d \in DOMAIN f : f[d] \in Sock
BY DEF Sockets

\* A table of sockets.
LEMMA SocketsBe ==
  ASSUME NEW D, D \subseteq Descriptor, NEW f \in [D -> Sock]
  PROVE  f \in Sockets /\ DOMAIN f = D
BY DEF Sockets

\* io_close leaves no socket and changes nothing else.
LEMMA IoCloseDoes ==
  ASSUME NEW c \in Records, Held(c)
  PROVE  /\ IoClose(c) \in Records
         /\ DOMAIN IoClose(c).fds = {} /\ IoClose(c).s = NoFd
         /\ IoClose(c).state = c.state /\ IoClose(c).host = c.host
         /\ IoClose(c).queries = c.queries /\ IoClose(c).nextserv = c.nextserv
         /\ IoClose(c).quiet = c.quiet /\ IoClose(c).parted = c.parted
         /\ IoClose(c).tried = c.tried
<1>1. CASE c.s = NoFd
  BY <1>1 DEF IoClose, Held
<1>2. CASE c.s # NoFd
  <2> DEFINE f == [d \in DOMAIN c.fds \ {c.s} |-> c.fds[d]]
             r == [c EXCEPT !.fds = f, !.s = NoFd, !.purged = FALSE]
  <2>1. DOMAIN f = {} /\ f \in Sockets
    BY <1>2, SocketsBe DEF Held
  <2> HIDE DEF f
  <2>2. /\ r \in Records /\ r.fds = f /\ r.s = NoFd
        /\ r.state = c.state /\ r.host = c.host /\ r.queries = c.queries
        /\ r.nextserv = c.nextserv /\ r.quiet = c.quiet /\ r.parted = c.parted
        /\ r.tried = c.tried
    BY <2>1 DEF Records
  <2>3. IoClose(c) = r
    BY <1>2 DEF IoClose, f
  <2> HIDE DEF r
  <2> QED BY <2>1, <2>2, <2>3
<1> QED BY <1>1, <1>2

\* io_wantwrite changes no more than the interest in writing.
LEMMA WantWriteDoes ==
  ASSUME NEW c \in Records, Held(c), NEW w \in BOOLEAN
  PROVE  /\ WantWrite(c, w) \in Records /\ Held(WantWrite(c, w))
         /\ WantWrite(c, w).s = c.s
         /\ c.s # NoFd => WantWrite(c, w).fds[c.s].peer = c.fds[c.s].peer
         /\ WantWrite(c, w).state = c.state /\ WantWrite(c, w).host = c.host
         /\ WantWrite(c, w).queries = c.queries /\ WantWrite(c, w).nextserv = c.nextserv
         /\ WantWrite(c, w).quiet = c.quiet /\ WantWrite(c, w).parted = c.parted
         /\ WantWrite(c, w).tried = c.tried /\ WantWrite(c, w).ok = c.ok
<1>1. CASE c.s = NoFd
  BY <1>1 DEF WantWrite
<1>2. CASE c.s # NoFd
  <2>0. c.fds \in Sockets /\ DOMAIN c.fds = {c.s}
    BY <1>2 DEF Records, Held
  <2> DEFINE g == c.fds
             e == g[c.s]
             f == [g EXCEPT ![c.s] = [@ EXCEPT !.want = w]]
             r == [c EXCEPT !.fds = f]
  <2>1. g \in [{c.s} -> Sock] /\ {c.s} \subseteq Descriptor /\ e \in Sock
    BY <2>0, SocketsIs
  <2>2. [e EXCEPT !.want = w] \in Sock /\ [e EXCEPT !.want = w].peer = e.peer
    BY <2>1 DEF Sock
  <2>3. f \in [{c.s} -> Sock] /\ f[c.s].peer = e.peer
    BY <2>1, <2>2
  <2>4. f \in Sockets /\ DOMAIN f = {c.s}
    BY <2>1, <2>3, SocketsBe
  <2>5. WantWrite(c, w) = r
    BY <1>2 DEF WantWrite
  <2> HIDE DEF f
  <2>6. /\ r \in Records /\ r.fds = f /\ r.s = c.s
        /\ r.state = c.state /\ r.host = c.host /\ r.queries = c.queries
        /\ r.nextserv = c.nextserv /\ r.quiet = c.quiet /\ r.parted = c.parted
        /\ r.tried = c.tried /\ r.ok = c.ok
    BY <2>4 DEF Records
  <2> HIDE DEF r
  <2>7. Held(r)
    BY <1>2, <2>4, <2>6 DEF Held
  <2> QED BY <2>3, <2>5, <2>6, <2>7
<1> QED BY <1>1, <1>2

\* The states of a socket object.
LEMMA StatesAre ==
  {BS_ERR, BS_DISCON, BS_DNS, BS_CONN, BS_READY} \subseteq BS_ERR .. BS_READY
BY DEF BS_ERR, BS_DISCON, BS_DNS, BS_CONN, BS_READY

\* The kernel finds a free descriptor.
LEMMA LowestIs ==
  ASSUME NEW f, DOMAIN f = {}
  PROVE  LowestFree(f) \in Descriptor
<1>1. \E d \in Descriptor \ DOMAIN f : \A e \in Descriptor \ DOMAIN f : d <= e
  <2>1. 0 \in Descriptor \ DOMAIN f /\ \A e \in Descriptor \ DOMAIN f : 0 <= e
    BY DEF Descriptor
  <2> QED BY <2>1
<1> QED BY <1>1, Zenon DEF LowestFree

\* An attempt to connect leaves one socket, to the peer asked for, or none.
LEMMA TcpConnDoes ==
  ASSUME NEW c \in Records, Held(c), Idle(c), c.host \in Server, NEW peer \in Server,
         ~c.parted => c.host = peer, NEW r \in TcpConn(c, peer)
  PROVE  /\ Fit(r) /\ Idle(r)
         /\ r.host = c.host /\ r.queries = c.queries /\ r.nextserv = c.nextserv
         /\ r.quiet = c.quiet /\ r.parted = c.parted /\ r.tried = c.tried
         /\ ~r.ok => r.s = NoFd
<1> DEFINE k == IoClose(c)
           d == LowestFree(k.fds)
           no == [k EXCEPT !.state = BS_ERR, !.ok = FALSE]
           f == [e \in DOMAIN k.fds \cup {d} |->
                   IF e = d THEN [peer |-> peer, net |-> "connecting", want |-> TRUE]
                            ELSE k.fds[e]]
           yes == [k EXCEPT !.state = BS_CONN, !.s = d, !.ok = TRUE, !.fds = f]
<1>1. r = no \/ r = yes
  BY DEF TcpConn
<1>2. /\ k \in Records /\ DOMAIN k.fds = {} /\ k.s = NoFd
      /\ k.host = c.host /\ k.queries = c.queries /\ k.nextserv = c.nextserv
      /\ k.quiet = c.quiet /\ k.parted = c.parted /\ k.tried = c.tried
  BY IoCloseDoes
<1> HIDE DEF k
<1>3. d \in Descriptor /\ d # NoFd
  <2> DEFINE g == k.fds
  <2>1. DOMAIN g = {}
    BY <1>2
  <2> HIDE DEF g
  <2>2. LowestFree(g) \in Descriptor
    BY <2>1, LowestIs
  <2>3. d \in Descriptor
    BY <2>2, Zenon DEF g
  <2> HIDE DEF d
  <2> QED BY <2>3 DEF Descriptor, NoFd
<1> HIDE DEF d
<1>4. f \in [{d} -> Sock] /\ f[d].peer = peer
  BY <1>2, <1>3 DEF Sock, NetStates
<1>5. f \in Sockets /\ DOMAIN f = {d}
  BY <1>3, <1>4, SocketsBe
<1> HIDE DEF f
<1>6. CASE r = no
  <2>1. /\ no \in Records /\ no.fds = k.fds /\ no.s = NoFd /\ no.state = BS_ERR
        /\ no.host = k.host /\ no.queries = k.queries /\ no.nextserv = k.nextserv
        /\ no.quiet = k.quiet /\ no.parted = k.parted /\ no.tried = k.tried
    BY <1>2, StatesAre DEF Records
  <2> HIDE DEF no
  <2> QED BY <1>2, <1>6, <2>1 DEF Fit, Held, Bound, Idle, BS_ERR, BS_CONN, BS_READY
<1>7. CASE r = yes
  <2>1. /\ yes \in Records /\ yes.fds = f /\ yes.s = d /\ yes.state = BS_CONN /\ yes.ok = TRUE
        /\ yes.host = k.host /\ yes.queries = k.queries /\ yes.nextserv = k.nextserv
        /\ yes.quiet = k.quiet /\ yes.parted = k.parted /\ yes.tried = k.tried
    BY <1>2, <1>3, <1>5, StatesAre DEF Records
  <2>2. yes.ok
    BY <2>1
  <2> HIDE DEF yes
  <2>3. Held(yes)
    BY <1>3, <1>5, <2>1 DEF Held
  <2>4. Bound(yes) /\ Idle(yes)
    BY <1>2, <1>3, <1>4, <2>1 DEF Bound, Idle
  <2> QED BY <1>2, <1>7, <2>1, <2>2, <2>3, <2>4 DEF Fit
<1> QED BY <1>1, <1>6, <1>7

\* dns_host2ip puts a query in front of the others, or fails for want of a resolver.
LEMMA AskDoes ==
  ASSUME NEW c \in Records, NEW family \in {"a", "aaaa"}, NEW host \in Server,
         NEW r, r = Ask(c, family, host)
  PROVE  /\ r \in Records
         /\ r.ok = DnsUp
         /\ DnsUp => r.queries = <<Query(family, host)>> \o c.queries
         /\ ~DnsUp => r.queries = c.queries
         /\ r.state = c.state /\ r.s = c.s /\ r.host = c.host /\ r.fds = c.fds
         /\ r.nextserv = c.nextserv /\ r.quiet = c.quiet /\ r.parted = c.parted
         /\ r.tried = c.tried
<1> DEFINE q == Query(family, host)
           more == <<q>> \o c.queries
           yes == [c EXCEPT !.queries = more, !.ok = TRUE]
           no == [c EXCEPT !.ok = FALSE]
<1>1. q \in Asked
  BY ConnectionAssumption DEF Query, Asked
<1>2. <<q>> \in Seq(Asked) /\ c.queries \in Seq(Asked)
  BY <1>1 DEF Records
<1>3. more \in Seq(Asked)
  BY <1>2, ConcatProperties
<1>4. r = IF DnsUp THEN yes ELSE no
  BY DEF Ask
<1>5. CASE DnsUp
  <2> HIDE DEF more
  <2>1. /\ yes \in Records /\ yes.queries = more /\ yes.ok = TRUE
        /\ yes.state = c.state /\ yes.s = c.s /\ yes.host = c.host /\ yes.fds = c.fds
        /\ yes.nextserv = c.nextserv /\ yes.quiet = c.quiet /\ yes.parted = c.parted
        /\ yes.tried = c.tried
    BY <1>3 DEF Records
  <2>2. DnsUp = TRUE
    BY <1>5, ConnectionAssumption
  <2> HIDE DEF yes
  <2> QED BY <1>4, <1>5, <2>1, <2>2, Zenon DEF more
<1>6. CASE ~DnsUp
  <2>1. /\ no \in Records /\ no.queries = c.queries /\ no.ok = FALSE
        /\ no.state = c.state /\ no.s = c.s /\ no.host = c.host /\ no.fds = c.fds
        /\ no.nextserv = c.nextserv /\ no.quiet = c.quiet /\ no.parted = c.parted
        /\ no.tried = c.tried
    BY DEF Records
  <2>2. DnsUp = FALSE
    BY <1>6, ConnectionAssumption
  <2> HIDE DEF no
  <2> QED BY <1>4, <1>6, <2>1, <2>2, Zenon
<1> QED BY <1>5, <1>6

\* A turn of the loop of irc_conn: one that fails leaves no query behind.
LEMMA AttemptDoes ==
  ASSUME NEW c, Fit(c), Idle(c), NEW r \in Attempt(c)
  PROVE  Fit(r) /\ Waits(r) /\ (~r.ok => Idle(r))
<1> DEFINE host == c.nextserv
           fresh == [c EXCEPT !.out = FALSE, !.host = host]
           family == IF IPv6 THEN "aaaa" ELSE "a"
           asked == Ask(fresh, family, host)
           resolving == [asked EXCEPT !.state = IF asked.ok THEN BS_DNS ELSE BS_ERR,
                                      !.parted = @ \/ c.s # NoFd]
           next == (c.nextserv + 1) % NServers
<1>1. PICK b \in TcpConnect(c, host) : r = [b EXCEPT !.nextserv = next, !.tried = @ \cup {host}]
  BY DEF Attempt
<1>2. /\ c \in Records /\ Held(c) /\ Bound(c) /\ host \in Server
      /\ c.s \in Descriptor \cup {NoFd} /\ c.parted \in BOOLEAN
  BY DEF Fit, Records
<1>3. next \in Server
  <2>1. host \in 0 .. NServers - 1 /\ NServers \in Nat \ {0}
    BY <1>2, ConnectionAssumption DEF Server
  <2> QED BY <2>1 DEF Server
<1> HIDE DEF host, next
<1>4. /\ fresh \in Records /\ fresh.fds = c.fds /\ fresh.s = c.s /\ fresh.state = c.state
      /\ fresh.host = host /\ fresh.queries = c.queries /\ fresh.parted = c.parted
  BY <1>2 DEF Records
<1>5. IF host \in ByName THEN b = resolving ELSE b \in TcpConn(fresh, host)
  <2>1. b \in IF host \in ByName THEN {resolving} ELSE TcpConn(fresh, host)
    BY <1>1 DEF TcpConnect
  <2> QED BY <2>1
<1> HIDE DEF fresh
<1>6. Fit(b) /\ Waits(b) /\ (~b.ok => Idle(b))
  <2>1. CASE host \notin ByName
    <3>1. Held(fresh) /\ Idle(fresh) /\ (~fresh.parted => fresh.host = host)
      BY <1>2, <1>4 DEF Held, Idle
    <3>2. fresh.host \in Server
      BY <1>2, <1>4
    <3>3. Fit(b) /\ Idle(b)
      BY <1>2, <1>4, <1>5, <2>1, <3>1, <3>2, TcpConnDoes
    <3> QED BY <3>3 DEF Idle, Waits
  <2>2. CASE host \in ByName
    <3>0. family \in {"a", "aaaa"}
      BY ConnectionAssumption
    <3> HIDE DEF family
    <3>1. /\ asked \in Records /\ asked.ok = DnsUp
          /\ DnsUp => asked.queries = <<Query(family, host)>> \o c.queries
          /\ ~DnsUp => asked.queries = c.queries
          /\ asked.s = c.s /\ asked.host = host /\ asked.fds = c.fds
          /\ asked.parted = c.parted
      <4>1. asked = Ask(fresh, family, host)
        BY Zenon
      <4> HIDE DEF asked
      <4>2. fresh \in Records /\ host \in Server /\ family \in {"a", "aaaa"}
        BY <1>2, <1>4, <3>0, Zenon
      <4>3. /\ asked \in Records /\ asked.ok = DnsUp
            /\ DnsUp => asked.queries = <<Query(family, host)>> \o fresh.queries
            /\ ~DnsUp => asked.queries = fresh.queries
            /\ asked.s = fresh.s /\ asked.host = fresh.host /\ asked.fds = fresh.fds
            /\ asked.parted = fresh.parted
        BY ONLY <4>1, <4>2, AskDoes, SMTT(20)
      <4> QED BY <1>4, <4>3, Zenon
    <3> HIDE DEF asked
    <3> DEFINE st == IF asked.ok THEN BS_DNS ELSE BS_ERR
               pa == c.parted \/ c.s # NoFd
    <3>2. st \in BS_ERR .. BS_READY /\ st # BS_CONN /\ st # BS_READY /\ pa \in BOOLEAN
      BY StatesAre, <1>2 DEF BS_ERR, BS_DNS, BS_CONN, BS_READY
    <3>3. b = [asked EXCEPT !.state = st, !.parted = pa]
      <4>1. b = resolving
        BY <1>5, <2>2
      <4> QED BY <3>1, <4>1, Zenon
    <3> HIDE DEF st, pa
    <3>4. ASSUME NEW e, e = [asked EXCEPT !.state = st, !.parted = pa]
          PROVE  /\ e \in Records /\ e.state = st /\ e.parted = pa /\ e.ok = asked.ok
                 /\ e.queries = asked.queries /\ e.s = asked.s /\ e.host = asked.host
                 /\ e.fds = asked.fds
      BY <3>1, <3>2, <3>4 DEF Records
    <3>5. /\ b \in Records /\ b.state = st /\ b.parted = pa /\ b.ok = asked.ok
          /\ b.queries = asked.queries /\ b.s = asked.s /\ b.host = asked.host
          /\ b.fds = asked.fds
      BY <3>3, <3>4
    <3>6. Fit(b)
      <4>1. Held(b)
        BY <1>2, <3>1, <3>5 DEF Held
      <4>2. Bound(b)
        BY <1>2, <3>1, <3>2, <3>5 DEF Bound, pa
      <4> QED BY <3>5, <4>1, <4>2 DEF Fit
    <3>7. CASE b.parted
      BY <3>6, <3>7 DEF Waits, Idle
    <3>8. CASE ~b.parted
      <4>1. c.queries = <<>> /\ ~c.parted
        BY <3>5, <3>8 DEF Idle, pa
      <4> DEFINE q == Query(family, host)
      <4>2. q \in Asked /\ q.owner = "bs" /\ q.host = host
        BY <1>2, <3>0, ConnectionAssumption DEF Query, Asked
      <4> HIDE DEF q
      <4>3. <<q>> \o <<>> = <<q>>
        BY <4>2
      <4>4. DnsUp => b.queries = <<q>> /\ b.host = host
        BY <3>1, <3>5, <4>1, <4>3 DEF q
      <4>5. ~DnsUp => b.queries = <<>>
        BY <3>1, <3>5, <4>1
      <4>6. Waits(b)
        BY <4>2, <4>4, <4>5 DEF Waits
      <4>7. ~b.ok => Idle(b)
        BY <3>1, <3>5, <4>5 DEF Idle
      <4> QED BY <3>6, <4>6, <4>7
    <3> QED BY <3>7, <3>8
  <2> QED BY <2>1, <2>2
<1>7. b \in Records
  BY <1>6 DEF Fit
<1>8. ASSUME NEW e, e = [b EXCEPT !.nextserv = next, !.tried = @ \cup {host}]
      PROVE  /\ e \in Records /\ e.state = b.state /\ e.parted = b.parted /\ e.ok = b.ok
             /\ e.queries = b.queries /\ e.s = b.s /\ e.host = b.host /\ e.fds = b.fds
  BY <1>2, <1>3, <1>7, <1>8 DEF Records
<1>9. /\ r \in Records /\ r.state = b.state /\ r.parted = b.parted /\ r.ok = b.ok
      /\ r.queries = b.queries /\ r.s = b.s /\ r.host = b.host /\ r.fds = b.fds
  BY <1>1, <1>8
<1> QED BY <1>6, <1>9 DEF Fit, Held, Bound, Waits, Idle

\* The turns of the loop of irc_conn: what it begins with, which attempts fail, and
\* the records that n failed attempts may lead to.
Begun(c) == {[c EXCEPT !.tried = {}]}

Failures(S) == {r \in UNION {Attempt(x) : x \in S} : ~r.ok}

Round(c, f) == f = [n \in 0 .. NServers |-> IF n = 0 THEN Begun(c) ELSE Failures(f[n - 1])]

\* The records that an attempt may begin with.
Ready == {c \in Records : Held(c) /\ Bound(c) /\ Idle(c)}

\* The loop of irc_conn begins as its caller was.
LEMMA BegunReady ==
  ASSUME NEW c \in Ready
  PROVE  Begun(c) \in SUBSET Ready
<1> DEFINE e == [c EXCEPT !.tried = {}]
<1>1. /\ e \in Records /\ e.fds = c.fds /\ e.s = c.s /\ e.state = c.state
      /\ e.host = c.host /\ e.queries = c.queries /\ e.parted = c.parted
  BY DEF Ready, Records
<1> HIDE DEF e
<1>2. e \in Ready
  BY <1>1 DEF Ready, Held, Bound, Idle
<1> QED BY <1>2 DEF Begun, e

\* After a failed attempt the next one may begin.
LEMMA FailuresReady ==
  ASSUME NEW S \in SUBSET Ready
  PROVE  Failures(S) \in SUBSET Ready
<1>1. ASSUME NEW r \in Failures(S) PROVE r \in Ready
  <2>1. PICK x \in S : r \in Attempt(x) /\ ~r.ok
    BY DEF Failures
  <2>2. Fit(x) /\ Idle(x)
    BY DEF Ready, Fit
  <2>3. Fit(r) /\ Idle(r)
    BY <2>1, <2>2, AttemptDoes, Zenon
  <2> QED BY <2>3, Zenon DEF Fit, Ready
<1> QED BY <1>1

\* The recursion by which IrcConn counts the failed attempts has a solution.
LEMMA RoundEnds ==
  ASSUME NEW c \in Ready
  PROVE  \E f : Round(c, f)
<1> DEFINE N == NServers
           step == [p \in (1 .. N) \X SUBSET Ready |-> Failures(p[2])]
<1>1. N \in Nat
  BY ConnectionAssumption
<1>2. PICK f : Walk(N, Begun(c), step, f)
  BY <1>1, WalkExists, Zenon
<1>3. /\ f = [n \in 0 .. N |-> IF n = 0 THEN Begun(c) ELSE step[<<n, f[n - 1]>>]]
      /\ \A n \in 0 .. N : f[n] = IF n = 0 THEN Begun(c) ELSE step[<<n, f[n - 1]>>]
  BY <1>2, Zenon DEF Walk
<1>4. ASSUME NEW n \in 1 .. N, NEW v \in SUBSET Ready
      PROVE  step[<<n, v>>] = Failures(v) /\ step[<<n, v>>] \in SUBSET Ready
  <2>1. <<n, v>> \in (1 .. N) \X SUBSET Ready
    OBVIOUS
  <2>2. step[<<n, v>>] = Failures(v)
    BY <2>1
  <2> HIDE DEF step
  <2> QED BY <2>2, FailuresReady, Zenon
<1> HIDE DEF N, step
<1> DEFINE T == {n \in 0 .. N : f[n] \in SUBSET Ready}
<1>5. 0 \in T
  <2>1. 0 \in 0 .. N /\ f[0] = Begun(c)
    BY <1>1, <1>3
  <2> QED BY <2>1, BegunReady
<1>6. ASSUME NEW n \in 0 .. N - 1, n \in T PROVE n + 1 \in T
  <2> DEFINE a == n + 1
  <2>1. a \in 1 .. N /\ a - 1 = n /\ a \in 0 .. N /\ a # 0 /\ f[n] \in SUBSET Ready
    BY <1>1, <1>6
  <2> HIDE DEF a, T
  <2>2. f[a] \in SUBSET Ready
    BY <1>3, <1>4, <2>1, Zenon
  <2>3. a \in T
    BY <2>1, <2>2 DEF T
  <2> QED BY <2>3 DEF a
<1> HIDE DEF T
<1>7. 0 .. N \subseteq T
  BY <1>1, <1>5, <1>6, InductiveUpTo
<1>8. ASSUME NEW n \in 0 .. N
      PROVE  f[n] = IF n = 0 THEN Begun(c) ELSE Failures(f[n - 1])
  <2>1. CASE n = 0
    BY <1>3, <2>1
  <2>2. CASE n # 0
    <3>1. n \in 1 .. N /\ n - 1 \in 0 .. N
      BY <1>1, <2>2
    <3>2. f[n - 1] \in SUBSET Ready
      BY <1>7, <3>1 DEF T
    <3> QED BY <1>3, <1>4, <2>2, <3>1, <3>2, Zenon
  <2> QED BY <2>1, <2>2
<1>9. Round(c, f)
  <2> DEFINE h == [n \in 0 .. N |-> IF n = 0 THEN Begun(c) ELSE Failures(f[n - 1])]
  <2>1. \A n \in 0 .. N : f[n] = h[n]
    BY <1>8, Zenon
  <2>2. f = [n \in 0 .. N |-> f[n]] /\ h = [n \in 0 .. N |-> h[n]]
    BY <1>3, Zenon
  <2> HIDE DEF h
  <2>3. [n \in 0 .. N |-> f[n]] = [n \in 0 .. N |-> h[n]]
    BY <2>1
  <2>4. f = h
    BY <2>2, <2>3, Zenon
  <2> QED BY <2>4, Zenon DEF h, N, Round
<1> QED BY <1>9, Zenon

\* irc_reg changes nothing but lines and interest in writing; the silence begins anew.
LEMMA RegisteredDoes ==
  ASSUME NEW c, Fit(c), Waits(c), NEW r \in Registered([c EXCEPT !.quiet = 0])
  PROVE  Fit(r) /\ Waits(r) /\ OnTime(r) /\ (r.ok <=> c.ok)
<1> DEFINE k == [c EXCEPT !.quiet = 0]
           p == [k EXCEPT !.lines = TRUE]
           q == [k EXCEPT !.out = TRUE, !.lines = TRUE]
<1>1. r = p \/ r = WantWrite(q, TRUE)
  <2>1. r \in Registered(k)
    BY Zenon
  <2> HIDE DEF k
  <2>2. r \in {p} \cup (IF k.lines THEN {} ELSE {WantWrite(q, TRUE)})
    BY <2>1, Zenon DEF Registered
  <2> HIDE DEF p, q
  <2> QED BY <2>2
<1>2. /\ k \in Records /\ k.fds = c.fds /\ k.s = c.s /\ k.state = c.state /\ k.quiet = 0
      /\ k.host = c.host /\ k.queries = c.queries /\ k.parted = c.parted /\ k.ok = c.ok
  BY ConnectionAssumption, SMTT(30) DEF Fit, Records
<1> HIDE DEF k
<1>3. /\ p \in Records /\ p.fds = c.fds /\ p.s = c.s /\ p.state = c.state /\ p.quiet = 0
      /\ p.host = c.host /\ p.queries = c.queries /\ p.parted = c.parted /\ p.ok = c.ok
  BY <1>2 DEF Records
<1>4. /\ q \in Records /\ q.fds = c.fds /\ q.s = c.s /\ q.state = c.state /\ q.quiet = 0
      /\ q.host = c.host /\ q.queries = c.queries /\ q.parted = c.parted /\ q.ok = c.ok
  BY <1>2 DEF Records
<1> HIDE DEF p, q
<1>5. Held(p) /\ Held(q)
  BY <1>3, <1>4 DEF Held, Fit
<1>6. /\ r \in Records /\ Held(r) /\ r.s = c.s /\ r.state = c.state /\ r.quiet = 0
      /\ r.host = c.host /\ r.queries = c.queries /\ r.parted = c.parted /\ r.ok = c.ok
      /\ c.s # NoFd => r.fds[c.s].peer = c.fds[c.s].peer
  <2>1. CASE r = p
    BY <1>3, <1>5, <2>1
  <2>2. CASE r = WantWrite(q, TRUE)
    <3> DEFINE v == WantWrite(q, TRUE)
    <3>1. /\ v \in Records /\ Held(v) /\ v.s = q.s /\ v.state = q.state /\ v.quiet = q.quiet
          /\ v.host = q.host /\ v.queries = q.queries /\ v.parted = q.parted /\ v.ok = q.ok
          /\ q.s # NoFd => v.fds[q.s].peer = q.fds[q.s].peer
      BY ONLY <1>4, <1>5, WantWriteDoes
    <3> HIDE DEF v
    <3> QED BY <1>4, <2>2, <3>1 DEF v
  <2> QED BY <1>1, <2>1, <2>2
<1>7. Fit(r) /\ Waits(r)
  BY <1>6 DEF Fit, Bound, Waits
<1>8. OnTime(r)
  <2>1. ASSUME NEW i \in 1 .. Len(r.queries) PROVE r.quiet <= Allowed(r.queries[i])
    <3>1. r.queries[i] \in Asked
      BY <1>6, ElementOfSeq DEF Records
    <3> QED BY <1>6, <3>1, ConnectionAssumption DEF Allowed, Asked
  <2> QED BY <2>1 DEF OnTime
<1> QED BY <1>6, <1>7, <1>8

\* irc_conn, however many of its attempts fail.
LEMMA IrcConnDoes ==
  ASSUME NEW c, Fit(c), Idle(c), NEW r \in IrcConn(c)
  PROVE  Fit(r) /\ Waits(r) /\ OnTime(r) /\ (~r.ok => Idle(r))
<1> DEFINE f == CHOOSE g : Round(c, g)
           N == NServers
           A == UNION {Attempt(x) : x \in UNION {f[n] : n \in 0 .. N - 1}}
           underway == {a \in A : a.ok}
           U == UNION {Registered([a EXCEPT !.quiet = 0]) : a \in underway}
<1>1. c \in Ready
  BY DEF Ready, Fit
<1>2. Round(c, f)
  BY <1>1, RoundEnds, Zenon
<1>3. r \in U \cup f[N]
  BY Zenon DEF IrcConn, Round, Begun, Failures
<1> HIDE DEF f
<1>4. N \in Nat \ {0}
  BY ConnectionAssumption
<1>5. \A n \in 0 .. N : f[n] = IF n = 0 THEN Begun(c) ELSE Failures(f[n - 1])
  BY <1>2, Zenon DEF Round
<1> HIDE DEF N
<1> DEFINE T == {n \in 0 .. N : f[n] \in SUBSET Ready}
<1>6. 0 \in T
  <2>1. 0 \in 0 .. N /\ f[0] = Begun(c)
    BY <1>4, <1>5
  <2> QED BY <1>1, <2>1, BegunReady
<1>7. ASSUME NEW n \in 0 .. N - 1, n \in T PROVE n + 1 \in T
  <2> DEFINE a == n + 1
  <2>1. a \in 1 .. N /\ a - 1 = n /\ a \in 0 .. N /\ a # 0 /\ f[n] \in SUBSET Ready
    BY <1>4, <1>7
  <2> HIDE DEF a, T
  <2>2. f[a] \in SUBSET Ready
    BY <1>5, <2>1, FailuresReady, Zenon
  <2>3. a \in T
    BY <2>1, <2>2 DEF T
  <2> QED BY <2>3 DEF a
<1> HIDE DEF T
<1>8. \A n \in 0 .. N : f[n] \in SUBSET Ready
  <2>1. 0 .. N \subseteq T
    BY <1>4, <1>6, <1>7, InductiveUpTo
  <2> QED BY <2>1 DEF T
<1>9. CASE r \in f[N]
  <2>1. r \in Ready
    BY <1>4, <1>8, <1>9
  <2>2. Fit(r) /\ Idle(r)
    BY <2>1 DEF Ready, Fit
  <2>3. Waits(r)
    BY <2>2 DEF Idle, Waits
  <2>4. OnTime(r)
    BY <2>2 DEF Idle, OnTime
  <2> QED BY <2>2, <2>3, <2>4
<1>10. CASE r \in U
  <2>1. PICK a \in underway : r \in Registered([a EXCEPT !.quiet = 0])
    BY <1>10, Zenon
  <2>2. PICK n \in 0 .. N - 1 : \E x \in f[n] : a \in Attempt(x) /\ a.ok
    OBVIOUS
  <2>3. PICK x \in f[n] : a \in Attempt(x) /\ a.ok
    BY <2>2
  <2>4. x \in Ready
    BY <1>4, <1>8, <2>3
  <2>5. Fit(x) /\ Idle(x)
    BY <2>4 DEF Ready, Fit
  <2>6. Fit(a) /\ Waits(a)
    BY <2>3, <2>5, AttemptDoes, Zenon
  <2>7. Fit(r) /\ Waits(r) /\ OnTime(r) /\ (r.ok <=> a.ok)
    BY <2>1, <2>6, RegisteredDoes, Zenon
  <2> QED BY <2>3, <2>7
<1> HIDE DEF U
<1> QED BY <1>3, <1>9, <1>10

\* The inductive invariant, of a record.
Kept(c) == Fit(c) /\ Waits(c) /\ OnTime(c)

\* Nothing has to be said about queries when there is none.
LEMMA IdleKept ==
  ASSUME NEW c, Fit(c), Idle(c)
  PROVE  Kept(c)
<1>1. Waits(c)
  BY DEF Idle, Waits
<1>2. OnTime(c)
  BY DEF Idle, OnTime
<1> QED BY <1>1, <1>2 DEF Kept

\* A call that changes only what the invariant does not speak of.
LEMMA SameKept ==
  ASSUME NEW c, Kept(c), NEW e \in Records, Held(e), e.s = c.s,
         c.s # NoFd => e.fds[c.s].peer = c.fds[c.s].peer,
         e.host = c.host, e.queries = c.queries, e.parted = c.parted,
         e.state = c.state \/ (e.state = BS_READY /\ c.s # NoFd),
         e.quiet = c.quiet \/ e.quiet = 0
  PROVE  Kept(e) /\ (Idle(c) => Idle(e))
<1>1. Fit(c) /\ Waits(c) /\ OnTime(c)
  BY DEF Kept
<1>2. Bound(e)
  BY <1>1 DEF Fit, Bound
<1>3. Waits(e)
  BY <1>1 DEF Waits
<1>4. ASSUME ~e.parted, NEW i \in 1 .. Len(e.queries) PROVE e.quiet <= Allowed(e.queries[i])
  <2>1. e.queries[i] \in Asked
    BY ElementOfSeq DEF Records
  <2>2. Allowed(e.queries[i]) \in Nat
    BY <2>1, ConnectionAssumption DEF Allowed, Asked
  <2>3. e.quiet = c.quiet => e.quiet <= Allowed(e.queries[i])
    BY <1>1, <1>4 DEF OnTime
  <2> HIDE DEF Allowed
  <2> QED BY <2>2, <2>3
<1>5. OnTime(e)
  BY <1>4 DEF OnTime
<1>6. Idle(c) => Idle(e)
  BY DEF Idle
<1> QED BY <1>2, <1>3, <1>5, <1>6 DEF Kept, Fit

\* The error callback reconnects.
LEMMA CbErrDoes ==
  ASSUME NEW c, Fit(c), Idle(c), NEW r \in CbErr(c)
  PROVE  Kept(r)
BY IrcConnDoes, Zenon DEF CbErr, Kept

\* A socket that was closed may be replaced.
LEMMA ClosedReady ==
  ASSUME NEW c \in Records, Held(c), Idle(c), NEW st \in {BS_ERR, BS_DISCON},
         c.host \in Server \/ \A i \in 1 .. Len(c.queries) : c.queries[i].owner = "freed",
         NEW e, e = [IoClose(c) EXCEPT !.state = st]
  PROVE  Fit(e) /\ Idle(e)
<1> DEFINE k == IoClose(c)
<1>1. /\ k \in Records /\ DOMAIN k.fds = {} /\ k.s = NoFd /\ k.host = c.host
      /\ k.queries = c.queries /\ k.parted = c.parted
  BY IoCloseDoes
<1>2. e = [k EXCEPT !.state = st]
  OBVIOUS
<1> HIDE DEF k
<1>3. st \in BS_ERR .. BS_READY /\ st # BS_CONN /\ st # BS_READY
  BY StatesAre DEF BS_ERR, BS_DISCON, BS_CONN, BS_READY
<1>4. /\ e \in Records /\ e.fds = k.fds /\ e.s = k.s /\ e.state = st /\ e.host = k.host
      /\ e.queries = k.queries /\ e.parted = k.parted
  BY <1>1, <1>2, <1>3 DEF Records
<1>5. Held(e)
  BY <1>1, <1>4 DEF Held
<1>6. Bound(e)
  BY <1>1, <1>3, <1>4 DEF Bound
<1>7. Idle(e)
  BY <1>1, <1>4 DEF Idle
<1> QED BY <1>4, <1>5, <1>6, <1>7 DEF Fit

\* A name without an address leads to a reconnect.
LEMMA UnresolvedDoes ==
  ASSUME NEW c, Fit(c), Idle(c), NEW r \in Unresolved(c)
  PROVE  Kept(r)
<1> DEFINE e == [c EXCEPT !.state = BS_ERR]
<1>1. /\ e \in Records /\ e.fds = c.fds /\ e.s = c.s /\ e.state = BS_ERR /\ e.host = c.host
      /\ e.queries = c.queries /\ e.parted = c.parted
  BY StatesAre DEF Fit, Records
<1>2. r \in CbErr(e)
  BY DEF Unresolved
<1> HIDE DEF e
<1>3. Fit(e) /\ Idle(e)
  BY <1>1 DEF Fit, Held, Bound, Idle, BS_ERR, BS_CONN, BS_READY
<1> QED BY <1>2, <1>3, CbErrDoes

\* The A query in the place of a failed IPv6 attempt.
LEMMA FallBackDoes ==
  ASSUME NEW c, Fit(c), Idle(c), c.host \in Server,
         ~c.parted => c.s = NoFd /\ c.quiet <= QueryLife, NEW r \in FallBack(c)
  PROVE  Kept(r)
<1> DEFINE asked == Ask(c, "a", c.host)
           q == Query("a", c.host)
<1>0. c \in Records
  BY DEF Fit
<1>1. asked.ok => r = asked
  BY DEF FallBack
<1>2. ~asked.ok => r \in Unresolved(c)
  BY DEF FallBack
<1>3. /\ asked \in Records /\ asked.ok = DnsUp
      /\ DnsUp => asked.queries = <<q>> \o c.queries
      /\ asked.state = c.state /\ asked.s = c.s /\ asked.host = c.host /\ asked.fds = c.fds
      /\ asked.quiet = c.quiet /\ asked.parted = c.parted
  <2>1. asked = Ask(c, "a", c.host) /\ "a" \in {"a", "aaaa"}
    OBVIOUS
  <2> HIDE DEF asked
  <2> QED BY ONLY <1>0, <2>1, c.host \in Server, AskDoes DEF q
<1>4. q \in Asked /\ q.owner = "bs" /\ q.host = c.host /\ Allowed(q) = QueryLife
  BY ConnectionAssumption DEF Query, Asked, Allowed
<1> HIDE DEF asked, q
<1>5. CASE asked.ok
  <2>1. DnsUp
    BY <1>3, <1>5
  <2>2. Held(asked)
    BY <1>3 DEF Held, Fit
  <2>3. Bound(asked)
    BY <1>3 DEF Bound, Fit
  <2>4. ASSUME ~asked.parted
        PROVE  /\ asked.queries = <<q>> /\ Len(asked.queries) = 1 /\ asked.queries[1] = q
               /\ asked.quiet <= Allowed(q)
    <3>1. c.queries = <<>> /\ c.quiet <= QueryLife
      BY <1>3, <2>4 DEF Idle
    <3>2. <<q>> \o <<>> = <<q>>
      BY <1>4
    <3>3. asked.queries = <<q>>
      BY <1>3, <2>1, <3>1, <3>2
    <3>4. Len(<<q>>) = 1 /\ <<q>>[1] = q
      OBVIOUS
    <3>5. asked.quiet <= Allowed(q)
      BY <1>3, <1>4, <3>1
    <3> QED BY <3>3, <3>4, <3>5
  <2>5. Waits(asked)
    BY <1>3, <1>4, <2>4 DEF Waits
  <2>6. OnTime(asked)
    BY <2>4 DEF OnTime
  <2> QED BY <1>1, <1>3, <1>5, <2>2, <2>3, <2>5, <2>6 DEF Kept, Fit
<1>6. CASE ~asked.ok
  BY <1>2, <1>6, UnresolvedDoes
<1> QED BY <1>5, <1>6

\* An address for a name, from bufsock_dns.
LEMMA ResolvedDoes ==
  ASSUME NEW c, Fit(c), Idle(c), c.host \in Server, NEW host \in Server,
         ~c.parted => c.host = host, NEW r \in Resolved(c, host)
  PROVE  Kept(r)
<1>0. c \in Records /\ Held(c)
  BY DEF Fit
<1>1. CASE c.state # BS_DNS
  <2>1. r = c
    BY <1>1 DEF Resolved
  <2> QED BY <2>1, IdleKept
<1>2. CASE c.state = BS_DNS
  <2>1. \/ r \in TcpConn(c, host)
        \/ \E x \in TcpConn(c, host) : r \in CbErr(x)
    BY <1>2 DEF Resolved
  <2>2. ASSUME NEW x \in TcpConn(c, host) PROVE Fit(x) /\ Idle(x)
    BY <1>0, TcpConnDoes, Zenon
  <2>3. CASE r \in TcpConn(c, host)
    BY <2>2, <2>3, IdleKept
  <2>4. CASE \E x \in TcpConn(c, host) : r \in CbErr(x)
    BY <2>2, <2>4, CbErrDoes
  <2> QED BY <2>1, <2>3, <2>4
<1> QED BY <1>1, <1>2

\* An address for a name, from bufsock_dns6.
LEMMA Resolved6Does ==
  ASSUME NEW c, Fit(c), Idle(c), c.host \in Server, NEW host \in Server,
         ~c.parted => c.host = host /\ c.quiet <= QueryLife, NEW r \in Resolved6(c, host)
  PROVE  Kept(r)
<1>0. c \in Records /\ Held(c) /\ (~c.parted => c.host = host)
  BY DEF Fit
<1>1. CASE c.state # BS_DNS
  <2>1. r = c
    BY <1>1 DEF Resolved6
  <2> QED BY <2>1, IdleKept
<1>2. CASE c.state = BS_DNS
  <2>1. \/ r \in TcpConn(c, host)
        \/ \E x \in TcpConn(c, host) : ~x.ok /\ r \in FallBack(x)
    BY <1>2 DEF Resolved6
  <2>2. ASSUME NEW x \in TcpConn(c, host)
        PROVE  /\ Fit(x) /\ Idle(x) /\ x.host = c.host /\ x.quiet = c.quiet
               /\ x.parted = c.parted /\ (~x.ok => x.s = NoFd)
    BY <1>0, TcpConnDoes, Zenon
  <2>3. CASE r \in TcpConn(c, host)
    BY <2>2, <2>3, IdleKept
  <2>4. CASE \E x \in TcpConn(c, host) : ~x.ok /\ r \in FallBack(x)
    <3>1. PICK x \in TcpConn(c, host) : ~x.ok /\ r \in FallBack(x)
      BY <2>4
    <3>2. x.host \in Server /\ (~x.parted => x.s = NoFd /\ x.quiet <= QueryLife)
      BY <2>2, <3>1
    <3> QED BY <2>2, <3>1, <3>2, FallBackDoes
  <2> QED BY <2>1, <2>3, <2>4
<1> QED BY <1>1, <1>2

\* The inductive invariant, of a state: until the loop of main.c has got a
\* connection under way, no query is pending.
IInv ==
  /\ bs \in SocketObjects
  /\ Kept(Here)
  /\ mode \in {"starting", "running"}
  /\ mode = "starting" => Idle(Here)

\* The record of the present state.
LEMMA HereIs ==
  /\ Here.state = bs.state /\ Here.s = bs.s /\ Here.host = bs.host /\ Here.fds = fds
  /\ Here.queries = queries /\ Here.nextserv = nextserv /\ Here.out = out
  /\ Here.lines = lines /\ Here.quiet = quiet /\ Here.purged = purged
  /\ Here.parted = parted /\ Here.tried = tried
BY DEF Here

\* A state that takes over a record that fits.
LEMMA BecomeKeeps ==
  ASSUME NEW c, Kept(c), Become(c)
  PROVE  /\ bs' \in SocketObjects
         /\ Kept(Here') /\ (Idle(c) => Idle(Here'))
<1>1. c \in Records /\ Held(c)
  BY DEF Kept, Fit
<1>2. bs' = [state |-> c.state, s |-> c.s, host |-> c.host]
  BY DEF Become
<1>3. bs' \in SocketObjects
  BY <1>1, <1>2 DEF Records, SocketObjects
<1> DEFINE h == Here'
<1>4. h = [state |-> c.state, s |-> c.s, host |-> c.host, fds |-> c.fds,
           queries |-> c.queries, nextserv |-> c.nextserv, out |-> c.out,
           lines |-> c.lines, quiet |-> c.quiet, purged |-> c.purged,
           parted |-> c.parted, tried |-> c.tried, ok |-> TRUE]
  BY <1>2 DEF Here, Become
<1> HIDE DEF h
<1>5. /\ h \in Records /\ h.state = c.state /\ h.s = c.s /\ h.host = c.host /\ h.fds = c.fds
      /\ h.queries = c.queries /\ h.quiet = c.quiet /\ h.parted = c.parted
  BY <1>1, <1>4 DEF Records
<1>6. Held(h)
  BY <1>1, <1>5 DEF Held
<1>7. Kept(h) /\ (Idle(c) => Idle(h))
  <2>1. PICK e : e = h
    OBVIOUS
  <2>2. /\ e \in Records /\ e.state = c.state /\ e.s = c.s /\ e.host = c.host /\ e.fds = c.fds
        /\ e.queries = c.queries /\ e.quiet = c.quiet /\ e.parted = c.parted /\ Held(e)
    BY <1>5, <1>6, <2>1, Zenon
  <2>3. /\ c.s # NoFd => e.fds[c.s].peer = c.fds[c.s].peer
        /\ e.state = c.state \/ (e.state = BS_READY /\ c.s # NoFd)
        /\ e.quiet = c.quiet \/ e.quiet = 0
    BY <2>2
  <2>4. Kept(e) /\ (Idle(c) => Idle(e))
    BY ONLY Kept(c), <2>2, <2>3, SameKept
  <2> QED BY <2>1, <2>4
<1> QED BY <1>3, <1>7 DEF h

\* Taking an entry off a list.
LEMMA RemoveAtIs ==
  ASSUME NEW S, NEW s \in Seq(S), NEW i \in 1 .. Len(s)
  PROVE  /\ RemoveAt(s, i) \in Seq(S)
         /\ Len(RemoveAt(s, i)) = Len(s) - 1
         /\ \A j \in 1 .. Len(s) - 1 :
              RemoveAt(s, i)[j] = IF j < i THEN s[j] ELSE s[j + 1]
<1> DEFINE N == Len(s)
           a == SubSeq(s, 1, i - 1)
           b == SubSeq(s, i + 1, N)
<1>1. N \in Nat /\ i \in Nat /\ 1 <= i /\ i <= N
  BY LenProperties
<1>2. /\ a \in Seq(S) /\ Len(a) = i - 1
      /\ \A j \in 1 .. i - 1 : a[j] = s[j]
  BY <1>1, SubSeqProperties
<1>3. /\ b \in Seq(S) /\ Len(b) = N - i
      /\ \A j \in 1 .. N - i : b[j] = s[i + j]
  BY <1>1, SubSeqProperties
<1> HIDE DEF a, b, N
<1>4. /\ a \o b \in Seq(S) /\ Len(a \o b) = Len(a) + Len(b)
      /\ \A j \in 1 .. Len(a) + Len(b) : (a \o b)[j] = IF j <= Len(a) THEN a[j] ELSE b[j - Len(a)]
  BY <1>2, <1>3, ConcatProperties
<1>5. RemoveAt(s, i) = a \o b
  BY DEF RemoveAt, a, b, N
<1> DEFINE r == a \o b
<1> HIDE DEF r
<1>6. ASSUME NEW j \in 1 .. N - 1
      PROVE  r[j] = IF j < i THEN s[j] ELSE s[j + 1]
  <2>1. r[j] = IF j <= i - 1 THEN a[j] ELSE b[j - (i - 1)]
    BY <1>1, <1>2, <1>3, <1>4 DEF r
  <2>2. CASE j < i
    BY <1>1, <1>2, <2>1, <2>2
  <2>3. CASE j >= i
    <3>1. j - (i - 1) \in 1 .. N - i /\ i + (j - (i - 1)) = j + 1
      BY <1>1, <2>3
    <3> QED BY <1>1, <1>3, <2>1, <2>3, <3>1
  <2> QED BY <1>1, <2>2, <2>3
<1>7. r \in Seq(S) /\ Len(r) = N - 1
  BY <1>1, <1>2, <1>3, <1>4 DEF r
<1>8. RemoveAt(s, i) = r
  BY <1>5, Zenon DEF r
<1> QED BY <1>6, <1>7, <1>8, Zenon DEF N

\* dns_canread takes a query off the list: the only one there is.
LEMMA AnsweredDoes ==
  ASSUME IInv, NEW i \in 1 .. Len(queries)
  PROVE  /\ Fit(Answered(i)) /\ Idle(Answered(i)) /\ Answered(i).host = bs.host
         /\ Answered(i).parted = parted /\ Answered(i).quiet = quiet /\ Answered(i).s = bs.s
         /\ queries[i] \in Asked
         /\ queries[i].owner = "bs" => bs.host \in Server
         /\ ~parted => /\ queries[i].host = bs.host /\ bs.s = NoFd
                       /\ quiet <= Allowed(queries[i])
<1> DEFINE c == Answered(i)
           rest == RemoveAt(queries, i)
<1>1. /\ Here \in Records /\ Held(Here) /\ Bound(Here) /\ Waits(Here) /\ OnTime(Here)
      /\ queries \in Seq(Asked)
  BY HereIs DEF IInv, Kept, Fit, Records
<1>2. /\ rest \in Seq(Asked) /\ Len(rest) = Len(queries) - 1
      /\ \A j \in 1 .. Len(queries) - 1 : rest[j] = IF j < i THEN queries[j] ELSE queries[j + 1]
  BY <1>1, RemoveAtIs
<1>3. c = [Here EXCEPT !.queries = rest]
  BY HereIs DEF Answered
<1> HIDE DEF c, rest
<1>4. /\ c \in Records /\ c.queries = rest /\ c.fds = fds /\ c.s = bs.s /\ c.state = bs.state
      /\ c.host = bs.host /\ c.parted = parted /\ c.quiet = quiet
  <2> DEFINE h == Here
  <2>1. h \in Records /\ c = [h EXCEPT !.queries = rest]
    BY <1>1, <1>3
  <2> HIDE DEF h
  <2>2. /\ c \in Records /\ c.queries = rest /\ c.fds = h.fds /\ c.s = h.s /\ c.state = h.state
        /\ c.host = h.host /\ c.parted = h.parted /\ c.quiet = h.quiet
    BY <1>2, <2>1 DEF Records
  <2> QED BY <2>2, HereIs DEF h
<1>5. queries[i] \in Asked /\ Len(queries) \in Nat /\ queries # <<>>
  BY <1>1, ElementOfSeq, LenProperties
<1>6. queries[i].owner = "bs" => bs.host \in Server
  BY <1>1, HereIs DEF Bound
<1>7. ASSUME ~parted
      PROVE  /\ queries[i].host = bs.host /\ bs.s = NoFd /\ quiet <= Allowed(queries[i])
             /\ rest = <<>>
  <2>1. PICK q \in Asked : queries = <<q>> /\ q.owner = "bs" /\ q.host = bs.host
    BY <1>1, <1>5, <1>7, HereIs DEF Waits
  <2>2. Len(queries) = 1 /\ i = 1 /\ queries[i] = q
    BY <2>1
  <2>3. Len(rest) = 0 /\ rest = <<>>
    BY <1>2, <2>2, EmptySeq
  <2>4. bs.s = NoFd
    BY <1>1, <1>5, <1>7, HereIs DEF Bound
  <2>5. quiet <= Allowed(queries[i])
    BY <1>1, <1>7, HereIs DEF OnTime
  <2> QED BY <2>1, <2>2, <2>3, <2>4, <2>5
<1>8. Held(c)
  BY <1>1, <1>4, HereIs DEF Held
<1>9. bs.host \in Server \/ \A j \in 1 .. Len(rest) : rest[j].owner = "freed"
  <2>1. CASE \A j \in 1 .. Len(queries) : queries[j].owner = "freed"
    BY <1>2, <1>5, <2>1
  <2> QED BY <1>1, <2>1, HereIs DEF Bound
<1>10. Bound(c)
  BY <1>1, <1>4, <1>7, <1>9, HereIs DEF Bound
<1>11. Idle(c)
  BY <1>4, <1>7 DEF Idle
<1> QED BY <1>4, <1>5, <1>6, <1>7, <1>8, <1>10, <1>11 DEF Fit, c

\* What the invariant says of the present state.
LEMMA HereKept ==
  ASSUME IInv
  PROVE  /\ Here \in Records /\ Held(Here) /\ Fit(Here) /\ Kept(Here)
         /\ fds \in Sockets /\ queries \in Seq(Asked) /\ quiet \in 0 .. Timeout + 1
         /\ Open = {bs.s} \ {NoFd}
         /\ bs.s # NoFd => Idle(Here)
<1>1. Here \in Records /\ Held(Here) /\ Bound(Here) /\ Fit(Here) /\ Kept(Here)
  BY DEF IInv, Kept, Fit
<1>2. fds \in Sockets /\ queries \in Seq(Asked) /\ quiet \in 0 .. Timeout + 1
  BY <1>1, HereIs DEF Records
<1>3. Open = {bs.s} \ {NoFd}
  BY <1>1, HereIs DEF Held, Open
<1>4. bs.s # NoFd => Idle(Here)
  BY <1>1, HereIs DEF Bound, Idle
<1> QED BY <1>1, <1>2, <1>3, <1>4

\* An action that keeps the record keeps the rest, once the loop runs.
LEMMA RunningKeeps ==
  ASSUME IInv, mode = "running", UNCHANGED mode, NEW c, Kept(c), Become(c)
  PROVE  IInv'
<1>1. mode' = "running"
  OBVIOUS
<1>2. /\ bs' \in SocketObjects
      /\ Kept(Here')
  BY BecomeKeeps, Zenon
<1> QED BY <1>1, <1>2 DEF IInv

\* The invariant holds at first.
LEMMA InitIInv == Init => IInv
<1> SUFFICES ASSUME Init PROVE IInv
  OBVIOUS
<1>1. fds \in Sockets /\ DOMAIN fds = {}
  <2>1. fds \in [{} -> Sock] /\ {} \subseteq Descriptor
    BY DEF Init
  <2> QED BY <2>1, SocketsBe
<1>2. queries \in Seq(Asked) /\ queries = <<>>
  BY EmptySeq DEF Init
<1>3. 0 \in Server /\ 0 \in 0 .. Timeout + 1
  BY ConnectionAssumption DEF Server
<1>4. bs.state = BS_DISCON /\ bs.s = NoFd /\ bs.host = NoFd
  BY DEF Init
<1> DEFINE h == Here
<1>5. /\ h \in Records /\ h.fds = fds /\ h.s = NoFd /\ h.state = BS_DISCON
      /\ h.queries = <<>>
  BY <1>1, <1>2, <1>3, <1>4, StatesAre DEF Init, Here, Records
<1> HIDE DEF h
<1>6. Held(h)
  BY <1>1, <1>5 DEF Held
<1>7. Bound(h)
  BY <1>5 DEF Bound, BS_DISCON, BS_CONN, BS_READY
<1>8. Idle(h)
  BY <1>5 DEF Idle
<1>9. Kept(h)
  BY <1>5, <1>6, <1>7, <1>8, IdleKept DEF Fit
<1> QED BY <1>4, <1>8, <1>9, StatesAre DEF Init, IInv, SocketObjects, h

\* The first connection keeps the invariant.
LEMMA FirstConnKeeps ==
  ASSUME IInv, FirstConn
  PROVE  IInv'
<1>1. PICK c \in IrcConn(Here) : Become(c) /\ mode' = IF c.ok THEN "running" ELSE "starting"
  BY DEF FirstConn
<1>2. Fit(Here) /\ Idle(Here)
  BY HereKept DEF FirstConn, IInv
<1>3. Fit(c) /\ Waits(c) /\ OnTime(c) /\ (~c.ok => Idle(c))
  BY <1>2, IrcConnDoes, Zenon
<1>4. /\ bs' \in SocketObjects
      /\ Kept(Here') /\ (Idle(c) => Idle(Here'))
  BY <1>1, <1>3, BecomeKeeps, Zenon DEF Kept
<1>5. mode' \in {"starting", "running"} /\ (mode' = "starting" => Idle(c))
  BY <1>1, <1>3
<1> QED BY <1>4, <1>5 DEF IInv

\* bufsock_canwrite keeps the invariant.
LEMMA CanWriteKeeps ==
  ASSUME IInv, NEW d \in Descriptor, CanWrite(d)
  PROVE  IInv'
<1> DEFINE h == Here
           ready == [h EXCEPT !.state = BS_READY]
           sent == [ready EXCEPT !.out = FALSE]
           flushed == WantWrite(sent, FALSE)
           failed == [IoClose(ready) EXCEPT !.state = BS_ERR]
<1>1. /\ Become(flushed) \/ Become(ready) \/ \E c \in CbErr(failed) : Become(c)
      /\ d \in Open /\ mode = "running" /\ UNCHANGED mode
  BY Zenon DEF CanWrite, LoopTurns
<1>2. /\ h \in Records /\ Held(h) /\ Kept(h) /\ h.s = bs.s /\ h.s # NoFd /\ Idle(h) /\ Bound(h)
  BY <1>1, HereKept, HereIs DEF Fit
<1> HIDE DEF h
<1>3. /\ ready \in Records /\ ready.fds = h.fds /\ ready.s = h.s /\ ready.state = BS_READY
      /\ ready.host = h.host /\ ready.queries = h.queries /\ ready.parted = h.parted
      /\ ready.quiet = h.quiet
  BY <1>2, StatesAre DEF Records
<1> HIDE DEF ready
<1>4. Held(ready)
  BY <1>2, <1>3 DEF Held
<1>5. Kept(ready) /\ Idle(ready)
  BY <1>2, <1>3, <1>4, SameKept
<1>6. Kept(flushed)
  <2>1. /\ sent \in Records /\ sent.fds = ready.fds /\ sent.s = ready.s /\ sent.state = ready.state
        /\ sent.host = ready.host /\ sent.queries = ready.queries /\ sent.parted = ready.parted
        /\ sent.quiet = ready.quiet
    BY <1>3 DEF Records
  <2> HIDE DEF sent
  <2>2. Held(sent)
    BY <1>4, <2>1 DEF Held
  <2>3. /\ flushed \in Records /\ Held(flushed) /\ flushed.s = sent.s
        /\ sent.s # NoFd => flushed.fds[sent.s].peer = sent.fds[sent.s].peer
        /\ flushed.state = sent.state /\ flushed.host = sent.host
        /\ flushed.queries = sent.queries /\ flushed.quiet = sent.quiet
        /\ flushed.parted = sent.parted
    BY ONLY <2>1, <2>2, WantWriteDoes
  <2> HIDE DEF flushed
  <2> QED BY <1>5, <2>1, <2>3, SameKept
<1>7. ASSUME NEW c \in CbErr(failed) PROVE Kept(c)
  <2>1. PICK e : e = failed
    OBVIOUS
  <2>2. Fit(e) /\ Idle(e)
    <3>1. \/ ready.host \in Server
          \/ \A i \in 1 .. Len(ready.queries) : ready.queries[i].owner = "freed"
      BY <1>2, <1>3 DEF Bound
    <3>2. BS_ERR \in {BS_ERR, BS_DISCON} /\ e = [IoClose(ready) EXCEPT !.state = BS_ERR]
      BY <2>1
    <3> HIDE DEF failed
    <3> QED BY ONLY <1>3, <1>4, <1>5, <3>1, <3>2, ClosedReady
  <2> QED BY <1>7, <2>1, <2>2, CbErrDoes, Zenon
<1> QED BY <1>1, <1>5, <1>6, <1>7, RunningKeeps, Zenon

\* bufsock_canread keeps the invariant.
LEMMA CanReadKeeps ==
  ASSUME IInv, NEW d \in Descriptor, CanRead(d)
  PROVE  IInv'
<1> DEFINE h == Here
<1>1. /\ \/ \E c \in CbData(h) : Become(c)
         \/ \E st \in {BS_ERR, BS_DISCON} :
              \E c \in CbErr([IoClose(h) EXCEPT !.state = st]) : Become(c)
      /\ d \in Open /\ mode = "running" /\ UNCHANGED mode
  BY DEF CanRead, LoopTurns
<1>2. /\ h \in Records /\ Held(h) /\ Kept(h) /\ h.s = bs.s /\ h.s # NoFd /\ Idle(h) /\ Bound(h)
  BY <1>1, HereKept, HereIs DEF Fit
<1> HIDE DEF h
<1>3. ASSUME NEW c \in CbData(h) PROVE Kept(c)
  <2> DEFINE heard == [h EXCEPT !.quiet = 0]
             more == [heard EXCEPT !.lines = TRUE]
             sent == [heard EXCEPT !.out = TRUE]
             woken == WantWrite(sent, TRUE)
  <2>1. c = heard \/ c = more \/ c = woken
    <3>1. c \in {heard, more} \cup (IF lines THEN {} ELSE {woken})
      BY Zenon DEF CbData
    <3> HIDE DEF heard, more, woken
    <3> QED BY <3>1
  <2>2. /\ heard \in Records /\ heard.fds = h.fds /\ heard.s = h.s /\ heard.state = h.state
        /\ heard.host = h.host /\ heard.queries = h.queries /\ heard.parted = h.parted
        /\ heard.quiet = 0
    BY <1>2, ConnectionAssumption, SMTT(30) DEF Records
  <2> HIDE DEF heard
  <2>3. Held(heard)
    BY <1>2, <2>2 DEF Held
  <2>4. Kept(heard)
    BY <1>2, <2>2, <2>3, SameKept
  <2>5. /\ more \in Records /\ more.fds = h.fds /\ more.s = h.s /\ more.state = h.state
        /\ more.host = h.host /\ more.queries = h.queries /\ more.parted = h.parted
        /\ more.quiet = 0
    BY <2>2 DEF Records
  <2>6. /\ sent \in Records /\ sent.fds = h.fds /\ sent.s = h.s /\ sent.state = h.state
        /\ sent.host = h.host /\ sent.queries = h.queries /\ sent.parted = h.parted
        /\ sent.quiet = 0
    BY <2>2 DEF Records
  <2> HIDE DEF more, sent
  <2>7. Held(more) /\ Held(sent)
    BY <1>2, <2>5, <2>6 DEF Held
  <2>8. Kept(more)
    BY <1>2, <2>5, <2>7, SameKept
  <2>9. /\ woken \in Records /\ Held(woken) /\ woken.s = sent.s
        /\ sent.s # NoFd => woken.fds[sent.s].peer = sent.fds[sent.s].peer
        /\ woken.state = sent.state /\ woken.host = sent.host
        /\ woken.queries = sent.queries /\ woken.quiet = sent.quiet
        /\ woken.parted = sent.parted
    BY ONLY <2>6, <2>7, WantWriteDoes
  <2> HIDE DEF woken
  <2>10. Kept(woken)
    BY <1>2, <2>6, <2>9, SameKept
  <2> QED BY <2>1, <2>4, <2>8, <2>10
<1>4. ASSUME NEW st \in {BS_ERR, BS_DISCON}, NEW c \in CbErr([IoClose(h) EXCEPT !.state = st])
      PROVE  Kept(c)
  <2>1. PICK e : e = [IoClose(h) EXCEPT !.state = st]
    OBVIOUS
  <2>2. h.host \in Server \/ \A i \in 1 .. Len(h.queries) : h.queries[i].owner = "freed"
    BY <1>2 DEF Bound
  <2>3. Fit(e) /\ Idle(e)
    BY ONLY <1>2, <1>4, <2>1, <2>2, ClosedReady
  <2> QED BY <1>4, <2>1, <2>3, CbErrDoes, Zenon
<1> QED BY <1>1, <1>3, <1>4, RunningKeeps, Zenon

\* An answer of the resolver keeps the invariant.
LEMMA DnsAnswerKeeps ==
  ASSUME IInv, NEW i \in 1 .. Len(queries), DnsAnswer(i)
  PROVE  IInv'
<1> DEFINE c == Answered(i)
           q == queries[i]
<1>1. /\ \E r \in (IF q.family = "a" THEN Resolved(c, q.host) \cup Unresolved(c)
                                     ELSE Resolved6(c, q.host) \cup FallBack(c)) : Become(r)
      /\ q.owner = "bs" /\ mode = "running" /\ UNCHANGED mode
  BY DEF DnsAnswer, LoopTurns
<1>2. /\ Fit(c) /\ Idle(c) /\ c.host = bs.host /\ c.parted = parted /\ c.quiet = quiet
      /\ c.s = bs.s /\ q \in Asked /\ bs.host \in Server
      /\ ~parted => q.host = bs.host /\ bs.s = NoFd /\ quiet <= Allowed(q)
  BY <1>1, AnsweredDoes
<1> HIDE DEF c, q
<1>3. q.host \in Server /\ q.age \in 0 .. QueryLife /\ quiet \in 0 .. Timeout + 1
  BY <1>2, HereKept DEF Asked
<1>4. q.family # "a" /\ ~parted => quiet <= QueryLife
  <2>1. q.family # "a" => Allowed(q) = q.age
    BY <1>3, ConnectionAssumption DEF Allowed
  <2> QED BY <1>2, <1>3, <2>1, ConnectionAssumption
<1>5. ASSUME NEW r \in Resolved(c, q.host) PROVE Kept(r)
  BY <1>2, <1>3, <1>5, ResolvedDoes
<1>6. ASSUME NEW r \in Unresolved(c) PROVE Kept(r)
  BY <1>2, <1>6, UnresolvedDoes
<1>7. ASSUME q.family # "a", NEW r \in Resolved6(c, q.host) PROVE Kept(r)
  BY <1>2, <1>3, <1>4, <1>7, Resolved6Does
<1>8. ASSUME q.family # "a", NEW r \in FallBack(c) PROVE Kept(r)
  BY <1>2, <1>4, <1>8, FallBackDoes
<1>9. PICK r : Become(r) /\ Kept(r)
  BY <1>1, <1>5, <1>6, <1>7, <1>8
<1> QED BY <1>1, <1>9, RunningKeeps

\* A query that is given up keeps the invariant.
LEMMA DnsGiveUpKeeps ==
  ASSUME IInv, NEW i \in 1 .. Len(queries), DnsGiveUp(i)
  PROVE  IInv'
<1>1. Become(Answered(i)) /\ mode = "running" /\ UNCHANGED mode
  BY DEF DnsGiveUp, LoopTurns
<1>2. Fit(Answered(i)) /\ Idle(Answered(i))
  BY AnsweredDoes
<1> QED BY <1>1, <1>2, IdleKept, RunningKeeps

\* The timer of irc.c keeps the invariant.
LEMMA IrcTimerKeeps ==
  ASSUME IInv, IrcTimer
  PROVE  IInv'
<1> DEFINE h == Here
           e == [h EXCEPT !.purged = TRUE]
           sent(more) == [h EXCEPT !.out = TRUE, !.lines = more, !.purged = TRUE]
<1>1. /\ IF quiet > Timeout THEN \E c \in IrcConn(e) : Become(c)
         ELSE Become(e) \/ \E more \in BOOLEAN : Become(WantWrite(sent(more), TRUE))
      /\ mode = "running" /\ UNCHANGED mode
  BY DEF IrcTimer, LoopTurns
<1>2. /\ h \in Records /\ Held(h) /\ Fit(h) /\ Kept(h) /\ h.quiet = quiet /\ h.queries = queries
      /\ h.parted = parted /\ queries \in Seq(Asked) /\ quiet \in 0 .. Timeout + 1
  BY HereKept, HereIs
<1> HIDE DEF h
<1>3. /\ e \in Records /\ e.fds = h.fds /\ e.s = h.s /\ e.state = h.state /\ e.host = h.host
      /\ e.queries = h.queries /\ e.parted = h.parted /\ e.quiet = h.quiet
  BY <1>2 DEF Records
<1> HIDE DEF e
<1>4. Held(e)
  BY <1>2, <1>3 DEF Held
<1>5. Kept(e) /\ Fit(e)
  <2>1. Kept(e)
    BY <1>2, <1>3, <1>4, SameKept
  <2> QED BY <2>1 DEF Kept
<1>6. ASSUME NEW more \in BOOLEAN PROVE Kept(WantWrite(sent(more), TRUE))
  <2> DEFINE s == sent(more)
             w == WantWrite(s, TRUE)
  <2>1. /\ s \in Records /\ s.fds = h.fds /\ s.s = h.s /\ s.state = h.state /\ s.host = h.host
        /\ s.queries = h.queries /\ s.parted = h.parted /\ s.quiet = h.quiet
    BY <1>2 DEF Records
  <2> HIDE DEF s
  <2>2. Held(s)
    BY <1>2, <2>1 DEF Held
  <2>3. /\ w \in Records /\ Held(w) /\ w.s = s.s
        /\ s.s # NoFd => w.fds[s.s].peer = s.fds[s.s].peer
        /\ w.state = s.state /\ w.host = s.host /\ w.queries = s.queries
        /\ w.quiet = s.quiet /\ w.parted = s.parted
    BY ONLY <2>1, <2>2, WantWriteDoes
  <2> HIDE DEF w
  <2>4. Kept(w)
    BY <1>2, <2>1, <2>3, SameKept
  <2> QED BY <2>4 DEF w, s
<1> HIDE DEF sent
<1>7. quiet > Timeout => Idle(e)
  <2> SUFFICES ASSUME quiet > Timeout, ~parted, queries # <<>> PROVE FALSE
    BY <1>2, <1>3 DEF Idle
  <2>1. Len(queries) \in Nat /\ Len(queries) # 0
    BY <1>2, LenProperties, EmptySeq
  <2>2. quiet <= Allowed(queries[1]) /\ queries[1] \in Asked
    BY <1>2, <2>1, ElementOfSeq DEF Kept, OnTime
  <2>3. Allowed(queries[1]) <= 2 * QueryLife
    BY <2>2, ConnectionAssumption DEF Allowed, Asked
  <2>4. Allowed(queries[1]) \in Nat
    BY <2>2, ConnectionAssumption DEF Allowed, Asked
  <2> QED BY <1>2, <2>2, <2>3, <2>4, ConnectionAssumption
<1>8. ASSUME quiet > Timeout, NEW c \in IrcConn(e) PROVE Kept(c)
  BY <1>5, <1>7, <1>8, IrcConnDoes, Zenon DEF Kept
<1> QED BY <1>1, <1>5, <1>6, <1>8, RunningKeeps, Zenon

\* A function on the first numbers is a list.
LEMMA ListIs ==
  ASSUME NEW S, NEW N \in Nat, NEW f \in [1 .. N -> S]
  PROVE  f \in Seq(S) /\ Len(f) = N
OBVIOUS

\* bufsock_free leaves no query of its own, if there was but one.
LEMMA OrphanedIs ==
  ASSUME NEW qs \in Seq(Asked)
  PROVE  /\ Orphaned(qs) \in Seq(Asked)
         /\ \A i \in 1 .. Len(Orphaned(qs)) : Orphaned(qs)[i].owner = "freed"
         /\ \A q \in Asked : qs = <<q>> /\ q.owner = "bs" => Orphaned(qs) = <<>>
         /\ qs = <<>> => Orphaned(qs) = <<>>
<1> DEFINE mine == {i \in 1 .. Len(qs) : qs[i].owner = "bs"}
           first == CHOOSE i \in mine : \A j \in mine : i <= j
           rest == IF mine = {} THEN qs ELSE RemoveAt(qs, first)
           freed == [i \in 1 .. Len(rest) |-> [rest[i] EXCEPT !.owner = "freed"]]
<1>1. Len(qs) \in Nat
  BY LenProperties
<1>2. mine # {} => first \in mine
  <2>1. ASSUME mine # {} PROVE \E i \in mine : \A j \in mine : i <= j
    <3>1. mine \subseteq Nat
      BY <1>1
    <3> HIDE DEF mine
    <3> QED BY <2>1, <3>1, LeastIn
  <2> HIDE DEF mine
  <2> QED BY <2>1, Zenon
<1>3. /\ rest \in Seq(Asked)
      /\ mine = {} => rest = qs
      /\ mine # {} => Len(rest) = Len(qs) - 1
  <2>1. mine # {} => first \in 1 .. Len(qs)
    BY <1>2
  <2> HIDE DEF mine, first
  <2> QED BY <2>1, RemoveAtIs
<1>4. Orphaned(qs) = freed
  BY Zenon DEF Orphaned
<1> HIDE DEF rest, first
<1>5. /\ Len(rest) \in Nat /\ \A i \in 1 .. Len(rest) : rest[i] \in Asked
  BY <1>3, LenProperties, ElementOfSeq
<1>6. \A i \in 1 .. Len(rest) : /\ [rest[i] EXCEPT !.owner = "freed"] \in Asked
                                /\ [rest[i] EXCEPT !.owner = "freed"].owner = "freed"
  BY <1>5 DEF Asked
<1>7. /\ freed \in Seq(Asked) /\ Len(freed) = Len(rest)
      /\ \A i \in 1 .. Len(rest) : freed[i].owner = "freed"
  <2>1. freed \in [1 .. Len(rest) -> Asked]
    BY <1>6, Zenon
  <2>2. \A i \in 1 .. Len(rest) : freed[i].owner = "freed"
    BY <1>6
  <2> HIDE DEF freed
  <2> QED BY <1>5, <2>1, <2>2, ListIs
<1> HIDE DEF freed
<1>8. ASSUME NEW q \in Asked, qs = <<q>>, q.owner = "bs" PROVE freed = <<>>
  <2>1. Len(qs) = 1 /\ qs[1] = q
    BY <1>8
  <2>2. 1 \in mine
    BY <1>8, <2>1
  <2>3. Len(freed) = 0
    BY <1>3, <1>7, <2>1, <2>2
  <2> QED BY <1>7, <2>3, EmptySeq
<1>9. qs = <<>> => freed = <<>>
  <2> SUFFICES ASSUME qs = <<>> PROVE freed = <<>>
    OBVIOUS
  <2>1. mine = {} /\ Len(qs) = 0
    OBVIOUS
  <2>2. Len(freed) = 0
    BY <1>3, <1>7, <2>1
  <2> QED BY <1>7, <2>2, EmptySeq
<1> QED BY <1>4, <1>7, <1>8, <1>9

\* The end of a run level keeps the invariant.
LEMMA RestartKeeps ==
  ASSUME IInv, Restart
  PROVE  IInv'
<1> DEFINE k == IoClose(Here)
           gone == Orphaned(queries)
           e == [k EXCEPT !.state = BS_DISCON, !.host = NoFd, !.out = FALSE,
                          !.lines = FALSE, !.queries = gone]
<1>1. Become(e) /\ mode' = "starting"
  BY Zenon DEF Restart
<1>2. /\ Here \in Records /\ Held(Here) /\ Kept(Here) /\ queries \in Seq(Asked)
  BY HereKept
<1>3. k \in Records /\ DOMAIN k.fds = {} /\ k.s = NoFd /\ k.parted = parted
  BY <1>2, IoCloseDoes, HereIs
<1>4. /\ gone \in Seq(Asked) /\ \A i \in 1 .. Len(gone) : gone[i].owner = "freed"
      /\ ~parted => gone = <<>>
  <2>1. ~parted => \/ queries = <<>>
                   \/ \E q \in Asked : queries = <<q>> /\ q.owner = "bs"
    BY <1>2, HereIs DEF Kept, Waits
  <2> QED BY <1>2, <2>1, OrphanedIs
<1> HIDE DEF k, gone
<1>5. /\ e \in Records /\ e.fds = k.fds /\ e.s = k.s /\ e.state = BS_DISCON
      /\ e.queries = gone /\ e.parted = k.parted
  BY <1>3, <1>4, StatesAre DEF Records
<1> HIDE DEF e
<1>6. Held(e)
  BY <1>3, <1>5 DEF Held
<1>7. Bound(e)
  BY <1>3, <1>4, <1>5 DEF Bound, BS_DISCON, BS_CONN, BS_READY
<1>8. Idle(e)
  BY <1>3, <1>4, <1>5 DEF Idle
<1>9. Kept(e)
  BY <1>5, <1>6, <1>7, <1>8, IdleKept DEF Fit
<1>10. /\ bs' \in SocketObjects
       /\ Kept(Here') /\ Idle(Here')
  BY <1>1, <1>8, <1>9, BecomeKeeps, Zenon
<1> QED BY <1>1, <1>10 DEF IInv

\* An action that keeps the record keeps the rest, whether or not the loop runs.
LEMMA StillKeeps ==
  ASSUME IInv, UNCHANGED mode, NEW c, Kept(c), Idle(Here) => Idle(c), Become(c)
  PROVE  IInv'
<1>1. /\ bs' \in SocketObjects
      /\ Kept(Here') /\ (Idle(c) => Idle(Here'))
  BY BecomeKeeps, Zenon
<1> QED BY <1>1 DEF IInv

\* What happens to a socket outside keeps the invariant.
LEMMA SetNetKeeps ==
  ASSUME IInv, NEW d \in Open, NEW net \in NetStates, SetNet(d, net)
  PROVE  IInv'
<1> DEFINE h == Here
<1>1. PICK f : f = [fds EXCEPT ![d] = [fds[d] EXCEPT !.net = net]]
  OBVIOUS
<1>2. /\ h \in Records /\ Held(h) /\ Kept(h) /\ h.fds = fds /\ h.s = bs.s /\ fds \in Sockets
      /\ Open = {bs.s} \ {NoFd}
  BY HereKept, HereIs
<1>3. d = bs.s /\ d # NoFd /\ Open = {d}
  BY <1>2
<1>4. fds \in [{d} -> Sock] /\ {d} \subseteq Descriptor /\ fds[d] \in Sock
  BY <1>2, <1>3, SocketsIs DEF Open
<1>5. [fds[d] EXCEPT !.net = net] \in Sock /\ [fds[d] EXCEPT !.net = net].peer = fds[d].peer
  BY <1>4 DEF Sock
<1>6. f \in [{d} -> Sock] /\ f[d].peer = fds[d].peer
  BY <1>1, <1>4, <1>5
<1>7. f \in Sockets /\ DOMAIN f = {d}
  BY <1>4, <1>6, SocketsBe
<1> DEFINE c == [h EXCEPT !.fds = f]
<1>8. Become(c)
  <2>1. fds' = f
    BY <1>1 DEF SetNet
  <2>2. bs' = [state |-> bs.state, s |-> bs.s, host |-> bs.host]
    <3>1. bs \in SocketObjects
      BY DEF IInv
    <3>2. bs' = bs
      BY DEF SetNet
    <3> QED BY <3>1, <3>2 DEF SocketObjects
  <2>3. /\ c.state = bs.state /\ c.s = bs.s /\ c.host = bs.host /\ c.fds = f
        /\ c.queries = queries /\ c.nextserv = nextserv /\ c.out = out /\ c.lines = lines
        /\ c.quiet = quiet /\ c.purged = purged /\ c.parted = parted /\ c.tried = tried
    BY DEF Here
  <2> HIDE DEF c
  <2>4. bs' = [state |-> c.state, s |-> c.s, host |-> c.host]
    BY <2>2, <2>3
  <2> QED BY <2>1, <2>3, <2>4 DEF SetNet, Become
<1> HIDE DEF h
<1>9. /\ c \in Records /\ c.fds = f /\ c.s = h.s /\ c.state = h.state /\ c.host = h.host
      /\ c.queries = h.queries /\ c.parted = h.parted /\ c.quiet = h.quiet
  BY <1>2, <1>7 DEF Records
<1> HIDE DEF c
<1>10. Held(c)
  BY <1>2, <1>3, <1>7, <1>9 DEF Held
<1>11. Kept(c) /\ (Idle(h) => Idle(c))
  <2>1. h.s # NoFd => c.fds[h.s].peer = h.fds[h.s].peer
    BY <1>2, <1>3, <1>6, <1>9
  <2> QED BY <1>2, <1>9, <1>10, <2>1, SameKept
<1> QED BY <1>8, <1>11, StillKeeps DEF SetNet, h

\* Time keeps the invariant.
LEMMA TickKeeps ==
  ASSUME IInv, Tick
  PROVE  IInv'
<1> DEFINE h == Here
           N == Len(queries)
           later == [i \in 1 .. N |-> [queries[i] EXCEPT !.age = @ + 1]]
           then == IF quiet > Timeout THEN quiet ELSE quiet + 1
<1>1. /\ \A i \in 1 .. N : queries[i].age < QueryLife
      /\ quiet' = then /\ queries' = later
      /\ UNCHANGED <<bs, fds, nextserv, out, lines, purged, parted, tried, mode>>
  BY DEF Tick
<1>2. /\ h \in Records /\ Held(h) /\ Fit(h) /\ Kept(h)
      /\ h.fds = fds /\ h.s = bs.s /\ h.quiet = quiet
      /\ h.host = bs.host /\ h.queries = queries /\ h.parted = parted
      /\ queries \in Seq(Asked) /\ quiet \in 0 .. Timeout + 1
  BY HereKept, HereIs
<1>3. N \in Nat /\ \A i \in 1 .. N : queries[i] \in Asked
  BY <1>2, LenProperties, ElementOfSeq
<1>4. then \in 0 .. Timeout + 1 /\ then <= quiet + 1
  BY <1>2, ConnectionAssumption
<1>5. ASSUME NEW q \in Asked, q.age < QueryLife, NEW e, e = [q EXCEPT !.age = @ + 1]
      PROVE  /\ e \in Asked /\ e.owner = q.owner /\ e.host = q.host
             /\ Allowed(e) = Allowed(q) + 1 /\ Allowed(q) \in Nat
  <2>1. q.age \in 0 .. QueryLife /\ q.age + 1 \in 0 .. QueryLife
    BY <1>5, ConnectionAssumption DEF Asked
  <2>2. /\ e \in Asked /\ e.owner = q.owner /\ e.host = q.host
        /\ e.age = q.age + 1 /\ e.family = q.family
    BY <1>5, <2>1 DEF Asked
  <2> QED BY <2>1, <2>2, ConnectionAssumption DEF Allowed
<1>6. /\ later \in Seq(Asked) /\ Len(later) = N
      /\ \A i \in 1 .. N : /\ later[i].owner = queries[i].owner /\ later[i].host = queries[i].host
                            /\ Allowed(later[i]) = Allowed(queries[i]) + 1
                            /\ Allowed(queries[i]) \in Nat
  <2>1. \A i \in 1 .. N : later[i] = [queries[i] EXCEPT !.age = @ + 1]
    OBVIOUS
  <2>2. later = [i \in 1 .. N |-> later[i]]
    OBVIOUS
  <2> HIDE DEF later, N
  <2>3. ASSUME NEW i \in 1 .. N
        PROVE  /\ later[i] \in Asked
               /\ later[i].owner = queries[i].owner /\ later[i].host = queries[i].host
               /\ Allowed(later[i]) = Allowed(queries[i]) + 1 /\ Allowed(queries[i]) \in Nat
    <3>1. queries[i] \in Asked /\ queries[i].age < QueryLife
      BY <1>1, <1>3
    <3> QED BY <1>5, <2>1, <3>1, Zenon
  <2>4. later \in [1 .. N -> Asked]
    BY <2>2, <2>3, Zenon
  <2> QED BY <1>3, <2>3, <2>4, ListIs
<1>7. bs = [state |-> bs.state, s |-> bs.s, host |-> bs.host]
  BY DEF IInv, SocketObjects
<1>8. PICK qs, t : qs = later /\ t = then
  OBVIOUS
<1> DEFINE c == [h EXCEPT !.queries = qs, !.quiet = t]
<1> HIDE DEF later, then
<1>9. Become(c)
  <2>1. /\ c.state = bs.state /\ c.s = bs.s /\ c.host = bs.host /\ c.fds = fds
        /\ c.queries = qs /\ c.nextserv = nextserv /\ c.out = out /\ c.lines = lines
        /\ c.quiet = t /\ c.purged = purged /\ c.parted = parted /\ c.tried = tried
    BY DEF Here
  <2> HIDE DEF c
  <2>2. bs' = [state |-> c.state, s |-> c.s, host |-> c.host]
    BY <1>1, <1>7, <2>1
  <2> QED BY <1>1, <1>8, <2>1, <2>2 DEF Become
<1> HIDE DEF h
<1>10. /\ c \in Records /\ c.fds = h.fds /\ c.s = h.s /\ c.state = h.state /\ c.host = h.host
       /\ c.queries = qs /\ c.parted = h.parted /\ c.quiet = t
  BY <1>2, <1>4, <1>6, <1>8 DEF Records
<1> HIDE DEF c
<1>11. Held(c)
  BY <1>2, <1>10 DEF Held
<1>12. queries = <<>> => qs = <<>>
  BY <1>3, <1>6, <1>8, EmptySeq
<1>13. Bound(c)
  <2>1. Bound(h)
    BY <1>2 DEF Fit
  <2>2. c.state \in {BS_CONN, BS_READY} => c.s # NoFd
    BY <1>10, <2>1 DEF Bound
  <2>3. ~c.parted /\ c.s # NoFd => c.fds[c.s].peer = c.host /\ c.queries = <<>>
    BY <1>2, <1>10, <1>12, <2>1 DEF Bound
  <2>4. c.host \in Server \/ \A i \in 1 .. N : qs[i].owner = "freed"
    BY <1>2, <1>6, <1>8, <1>10, <2>1 DEF Bound
  <2>5. Len(c.queries) = N /\ c.queries = qs
    BY <1>6, <1>8, <1>10
  <2> HIDE DEF N
  <2> QED BY <2>2, <2>3, <2>4, <2>5 DEF Bound
<1>14. Waits(c)
  <2> SUFFICES ASSUME ~parted PROVE Waits(c)
    BY <1>2, <1>10 DEF Waits
  <2>1. CASE queries = <<>>
    BY <1>10, <1>12, <2>1 DEF Waits
  <2>2. CASE queries # <<>>
    <3>1. PICK q \in Asked : queries = <<q>> /\ q.owner = "bs" /\ q.host = bs.host
      BY <1>2, <2>2 DEF Kept, Waits
    <3>2. N = 1 /\ queries[1] = q
      BY <3>1
    <3>3. /\ qs[1] \in Asked /\ qs[1].owner = "bs" /\ qs[1].host = bs.host
          /\ Len(qs) = 1 /\ qs \in Seq(Asked)
      BY <1>6, <1>8, <3>1, <3>2, ElementOfSeq
    <3>4. qs = <<qs[1]>>
      BY <3>3
    <3> QED BY <1>2, <1>10, <3>3, <3>4 DEF Waits
  <2> QED BY <2>1, <2>2
<1>15. OnTime(c)
  <2> SUFFICES ASSUME ~parted, NEW i \in 1 .. N PROVE t <= Allowed(qs[i])
    BY <1>2, <1>6, <1>8, <1>10 DEF OnTime
  <2>1. quiet <= Allowed(queries[i])
    BY <1>2 DEF Kept, OnTime
  <2> QED BY <1>2, <1>4, <1>6, <1>8, <2>1
<1>16. Kept(c) /\ (Idle(h) => Idle(c))
  BY <1>2, <1>10, <1>11, <1>12, <1>13, <1>14, <1>15 DEF Kept, Fit, Idle
<1> QED BY <1>1, <1>9, <1>16, StillKeeps DEF h

\* Every step keeps the invariant.
LEMMA NextKeeps ==
  ASSUME IInv, [Next]_vars
  PROVE  IInv'
<1>1. CASE UNCHANGED vars
  <2>1. bs' = bs /\ Here' = Here /\ mode' = mode
    BY <1>1 DEF vars, Here
  <2> QED BY <2>1 DEF IInv
<1>2. CASE FirstConn
  BY <1>2, FirstConnKeeps
<1>3. ASSUME NEW d \in Descriptor, CanWrite(d) PROVE IInv'
  BY <1>3, CanWriteKeeps
<1>4. ASSUME NEW d \in Descriptor, CanRead(d) PROVE IInv'
  BY <1>4, CanReadKeeps
<1>5. ASSUME NEW i \in 1 .. Len(queries), DnsAnswer(i) PROVE IInv'
  BY <1>5, DnsAnswerKeeps
<1>6. ASSUME NEW i \in 1 .. Len(queries), DnsGiveUp(i) PROVE IInv'
  BY <1>6, DnsGiveUpKeeps
<1>7. CASE IrcTimer
  BY <1>7, IrcTimerKeeps
<1>8. CASE Restart
  BY <1>8, RestartKeeps
<1>9. ASSUME NEW d \in Descriptor, Established(d) \/ Broken(d) \/ PeerCloses(d) PROVE IInv'
  <2>1. PICK net \in NetStates : d \in Open /\ SetNet(d, net)
    BY <1>9 DEF Established, Broken, PeerCloses, NetStates
  <2> QED BY <2>1, SetNetKeeps
<1>10. CASE Tick
  BY <1>10, TickKeeps
<1> QED BY <1>1, <1>2, <1>3, <1>4, <1>5, <1>6, <1>7, <1>8, <1>9, <1>10, Zenon DEF Next

\* The invariant holds in every state.
LEMMA IInvHolds == Spec => []IInv
<1>1. Init => IInv
  BY InitIInv
<1>2. IInv /\ [Next]_vars => IInv'
  BY NextKeeps
<1> QED BY <1>1, <1>2, PTL DEF Spec

\* The inductive invariant types the variables.
LEMMA IInvTypes ==
  ASSUME IInv
  PROVE  TypeOK
<1>1. /\ Here \in Records /\ fds \in Sockets /\ queries \in Seq(Asked)
  BY HereKept
<1>2. \A d \in Open : fds[d] \in [peer : Server, net : NetStates, want : BOOLEAN]
  BY <1>1, SocketsIs DEF Open, Sock
<1>3. \A i \in 1 .. Len(queries) :
        queries[i] \in [owner : {"bs", "freed"}, family : {"a", "aaaa"},
                        host : Server, age : 0 .. QueryLife]
  BY <1>1, ElementOfSeq DEF Asked
<1>4. Open \subseteq Descriptor
  BY <1>1, SocketsIs DEF Open
<1>5. /\ nextserv \in Server /\ {out, lines, purged, parted} \subseteq BOOLEAN
      /\ tried \subseteq Server /\ quiet \in 0 .. Timeout + 1
  BY <1>1, HereIs DEF Records
<1> QED BY <1>2, <1>3, <1>4, <1>5 DEF IInv, TypeOK, SocketObjects

\* There is never a second open socket, nor one that the socket object has forgotten, nor
\* a number it keeps of a closed one (sock.c:43-120, 257-292).
THEOREM ConnectionOneSocket == Spec => []OneSocket
<1>1. IInv => OneSocket
  <2> SUFFICES ASSUME IInv PROVE OneSocket
    OBVIOUS
  <2> QED BY IInvTypes, HereKept DEF OneSocket
<1> QED BY <1>1, IInvHolds, PTL

\* A connected socket leads to the server irc_conn chose last, if no reconnect has yet left an
\* older socket open (irc.c:330-350, sock.c:43, 85).
THEOREM ConnectionTalksToChosenServer == Spec => []TalksToChosenServer
<1>1. IInv => TalksToChosenServer
  <2> SUFFICES ASSUME IInv PROVE TalksToChosenServer
    OBVIOUS
  <2>1. Bound(Here)
    BY DEF IInv, Kept, Fit
  <2> QED BY <2>1, HereIs DEF Bound, TalksToChosenServer
<1> QED BY <1>1, IInvHolds, PTL

\* No query outlives the socket object that asked it, under the same condition: the one
\* dns_cancel of bufsock_free is enough.
THEOREM ConnectionNoOrphanedQuery == Spec => []NoOrphanedQuery
<1>1. IInv => NoOrphanedQuery
  <2> SUFFICES ASSUME IInv, ~parted, NEW i \in 1 .. Len(queries) PROVE queries[i].owner = "bs"
    BY DEF NoOrphanedQuery
  <2>1. Waits(Here)
    BY DEF IInv, Kept
  <2>2. CASE queries = <<>>
    BY <2>2
  <2>3. CASE \E q \in Asked : queries = <<q>> /\ q.owner = "bs"
    <3>1. PICK q \in Asked : queries = <<q>> /\ q.owner = "bs"
      BY <2>3
    <3>2. Len(queries) = 1 /\ queries[1] = q
      BY <3>1
    <3> QED BY <3>1, <3>2
  <2> QED BY <2>1, <2>2, <2>3, HereIs DEF Waits
<1> QED BY <1>1, IInvHolds, PTL

-----------------------------------------------------------------------------
(* Channels *)

\* The members of a channel: who has +o.
Rooms == UNION {[S -> BOOLEAN] : S \in SUBSET Nick}

\* A line is behind the others.
LEMMA ToSetIs ==
  ASSUME NEW S, NEW s \in Seq(S)
  PROVE  /\ Len(s) \in Nat /\ DOMAIN s = 1 .. Len(s) /\ ToSet(s) \subseteq S
         /\ \A x : x \in ToSet(s) <=> \E i \in 1 .. Len(s) : s[i] = x
<1>1. Len(s) \in Nat /\ DOMAIN s = 1 .. Len(s) /\ \A i \in 1 .. Len(s) : s[i] \in S
  BY LenProperties, ElementOfSeq
<1> QED BY <1>1 DEF ToSet

\* The first line goes.
LEMMA ToSetTail ==
  ASSUME NEW S, NEW s \in Seq(S), s # <<>>
  PROVE  /\ Head(s) \in S /\ Head(s) = s[1] /\ Tail(s) \in Seq(S) /\ Len(s) \in Nat \ {0} /\ Len(Tail(s)) = Len(s) - 1
         /\ \A i \in 1 .. Len(Tail(s)) : Tail(s)[i] = s[i + 1]
         /\ ToSet(s) = {Head(s)} \cup ToSet(Tail(s))
<1> DEFINE t == Tail(s)
<1>1. /\ Head(s) \in S /\ Head(s) = s[1] /\ t \in Seq(S) /\ Len(s) \in Nat \ {0} /\ Len(t) = Len(s) - 1
      /\ \A i \in 1 .. Len(t) : t[i] = s[i + 1]
  BY HeadTailProperties, LenProperties
<1> HIDE DEF t
<1>2. ToSet(s) = {Head(s)} \cup ToSet(t)
  <2>1. ASSUME NEW x \in ToSet(s) PROVE x = Head(s) \/ x \in ToSet(t)
    <3>1. PICK i \in 1 .. Len(s) : s[i] = x
      BY ToSetIs
    <3>2. CASE i = 1
      BY <1>1, <3>1, <3>2
    <3>3. CASE i # 1
      <4>1. i - 1 \in 1 .. Len(t) /\ t[i - 1] = x
        BY <1>1, <3>1, <3>3
      <4> QED BY <1>1, <4>1, ToSetIs
    <3> QED BY <3>2, <3>3
  <2>2. Head(s) \in ToSet(s)
    <3>1. 1 \in 1 .. Len(s)
      BY <1>1
    <3> QED BY <1>1, <3>1, ToSetIs
  <2>3. ASSUME NEW x \in ToSet(t) PROVE x \in ToSet(s)
    <3>1. PICK i \in 1 .. Len(t) : t[i] = x
      BY <1>1, ToSetIs
    <3>2. i + 1 \in 1 .. Len(s) /\ s[i + 1] = x
      BY <1>1, <3>1
    <3> QED BY <3>2, ToSetIs
  <2> QED BY <2>1, <2>2, <2>3
<1> QED BY <1>1, <1>2 DEF t

\* Lines are put behind.
LEMMA ToSetBehind ==
  ASSUME NEW S, NEW s \in Seq(S), NEW t \in Seq(S)
  PROVE  /\ s \o t \in Seq(S) /\ Len(s \o t) = Len(s) + Len(t) /\ ToSet(s \o t) = ToSet(s) \cup ToSet(t)
         /\ \A i \in 1 .. Len(s) : i \in 1 .. Len(s \o t) /\ (s \o t)[i] = s[i]
         /\ \A i \in 1 .. Len(t) : Len(s) + i \in 1 .. Len(s \o t) /\ (s \o t)[Len(s) + i] = t[i]
         /\ \A i \in 1 .. Len(s \o t) : i \in 1 .. Len(s) \/ (i - Len(s) \in 1 .. Len(t) /\ (s \o t)[i] = t[i - Len(s)])
<1> DEFINE c == s \o t
<1>1. Len(s) \in Nat /\ Len(t) \in Nat
  BY LenProperties
<1>2. /\ c \in Seq(S) /\ Len(c) = Len(s) + Len(t)
      /\ \A i \in 1 .. Len(s) + Len(t) : c[i] = IF i <= Len(s) THEN s[i] ELSE t[i - Len(s)]
  BY ConcatProperties
<1> HIDE DEF c
<1>3. \A i \in 1 .. Len(s) : i \in 1 .. Len(c) /\ c[i] = s[i]
  BY <1>1, <1>2
<1>4. ASSUME NEW i \in 1 .. Len(t) PROVE Len(s) + i \in 1 .. Len(c) /\ c[Len(s) + i] = t[i]
  <2>1. PICK m \in Nat : m = Len(s)
    BY <1>1
  <2>2. PICK n \in Nat : n = Len(t)
    BY <1>1
  <2>3. m + i \in 1 .. m + n /\ ~(m + i <= m) /\ (m + i) - m = i
    BY <2>2
  <2>4. m + i \in 1 .. Len(c) /\ c[m + i] = t[(m + i) - m]
    BY <1>2, <2>1, <2>2, <2>3, Zenon
  <2> QED BY <2>1, <2>3, <2>4
<1>5. \A i \in 1 .. Len(c) : i \in 1 .. Len(s) \/ (i - Len(s) \in 1 .. Len(t) /\ c[i] = t[i - Len(s)])
  BY <1>1, <1>2
<1>6. ToSet(c) = ToSet(s) \cup ToSet(t)
  <2>1. ASSUME NEW x \in ToSet(c) PROVE x \in ToSet(s) \cup ToSet(t)
    <3>1. PICK i \in 1 .. Len(c) : c[i] = x
      BY <1>2, ToSetIs
    <3> QED BY <1>3, <1>5, <3>1, ToSetIs
  <2>2. ASSUME NEW x \in ToSet(s) PROVE x \in ToSet(c)
    <3>1. PICK i \in 1 .. Len(s) : s[i] = x
      BY ToSetIs
    <3> QED BY <1>2, <1>3, <3>1, ToSetIs
  <2>3. ASSUME NEW x \in ToSet(t) PROVE x \in ToSet(c)
    <3>1. PICK i \in 1 .. Len(t) : t[i] = x
      BY ToSetIs
    <3>2. Len(s) + i \in 1 .. Len(c) /\ c[Len(s) + i] = x
      BY <1>4, <3>1
    <3> QED BY <1>2, <3>2, ToSetIs
  <2> QED BY <2>1, <2>2, <2>3
<1> QED BY <1>2, <1>3, <1>4, <1>5, <1>6 DEF c

\* A member more, and one less
LEMMA RoomsAre ==
  /\ Nobody \in Rooms /\ DOMAIN Nobody = {} /\ Me \in Nick /\ Other \subseteq Nick
  /\ \A r \in Rooms : DOMAIN r \subseteq Nick /\ (DOMAIN r = {} => r = Nobody) /\ \A n \in DOMAIN r : r[n] \in BOOLEAN
  /\ \A r \in Rooms, n \in Nick, b \in BOOLEAN : With(r, n, b) \in Rooms
  /\ \A r \in Rooms : \A n : Without(r, n) \in Rooms
<1>1. Nobody = [n \in {} |-> TRUE]
  <2>1. Nobody \in Seq({}) /\ Len(Nobody) = 0
    BY DEF Nobody
  <2>2. DOMAIN Nobody = {}
    BY <2>1, LenProperties
  <2>3. Nobody = [n \in DOMAIN Nobody |-> Nobody[n]]
    BY DEF Nobody
  <2> QED BY <2>2, <2>3
<1>2. Nobody \in Rooms /\ DOMAIN Nobody = {}
  <2>1. Nobody \in [{} -> BOOLEAN] /\ {} \in SUBSET Nick
    BY <1>1
  <2> QED BY <1>1, <2>1 DEF Rooms
<1>3. ASSUME NEW r \in Rooms
      PROVE  /\ DOMAIN r \subseteq Nick /\ (DOMAIN r = {} => r = Nobody) /\ \A n \in DOMAIN r : r[n] \in BOOLEAN
             /\ r \in [DOMAIN r -> BOOLEAN]
  <2>1. PICK S \in SUBSET Nick : r \in [S -> BOOLEAN]
    BY DEF Rooms
  <2>2. DOMAIN r = S
    BY <2>1
  <2>3. ASSUME S = {} PROVE r = [n \in {} |-> TRUE]
    BY <2>1, <2>3
  <2> QED BY <1>1, <2>1, <2>2, <2>3
<1>4. ASSUME NEW r \in Rooms, NEW n \in Nick, NEW b \in BOOLEAN PROVE With(r, n, b) \in Rooms
  <2>1. DOMAIN r \cup {n} \in SUBSET Nick
    BY <1>3
  <2>2. With(r, n, b) \in [DOMAIN r \cup {n} -> BOOLEAN]
    BY <1>3 DEF With
  <2> QED BY <2>1, <2>2 DEF Rooms
<1>5. ASSUME NEW r \in Rooms, NEW n PROVE Without(r, n) \in Rooms
  <2>1. DOMAIN r \ {n} \in SUBSET Nick
    BY <1>3
  <2>2. Without(r, n) \in [DOMAIN r \ {n} -> BOOLEAN]
    BY <1>3 DEF Without
  <2> QED BY <2>1, <2>2 DEF Rooms
<1>6. Me \in Nick /\ Other \subseteq Nick
  BY DEF Nick
<1> QED BY <1>2, <1>3, <1>4, <1>5, <1>6

\* What the functions look like
LEMMA WithIs ==
  /\ \A f, x, y : DOMAIN With(f, x, y) = DOMAIN f \cup {x} /\ With(f, x, y)[x] = y
  /\ \A f, x, y, z : z \in DOMAIN f /\ z # x => With(f, x, y)[z] = f[z]
  /\ \A f, x : DOMAIN Without(f, x) = DOMAIN f \ {x}
  /\ \A f, x, z : z \in DOMAIN f /\ z # x => Without(f, x)[z] = f[z]
BY DEF With, Without

-----------------------------------------------------------------------------
(* The lines under way. *)

Marks == [plus : BOOLEAN, nick : Other]

NickLine(u, new) == [what |-> "NICK", nick |-> u, new |-> new]
QuitLine(u) == [what |-> "QUIT", nick |-> u]
ModeLine(ch, changes) == [what |-> "MODE", ch |-> ch, changes |-> changes]
NoticeLine == [what |-> "NOTICE"]
AuthLine == [what |-> "AUTH"]

JoinLs == {Joined(ch, n) : ch \in Channel, n \in Nick}
PartLs == {Parted(ch, n) : ch \in Channel, n \in Nick}
KickLs == {Kicked(ch, n) : ch \in Channel, n \in Nick}
NameLs == {Names(ch, r) : ch \in Channel, r \in Rooms}
NickLs == {NickLine(u, new) : u \in Other, new \in Other}
QuitLs == {QuitLine(u) : u \in Other}
ModeLs == {ModeLine(ch, changes) : ch \in Channel, changes \in Seq(Marks)}

DownLines ==
  {Welcoming, NoticeLine} \cup JoinLs \cup PartLs \cup KickLs \cup NameLs \cup NickLs \cup QuitLs \cup ModeLs

UpLines == {AuthLine} \cup {Ordered(ch) : ch \in Channel} \cup {Parting(ch) : ch \in Channel}

\* A line tells by its first word what else is in it.
Spoken(l) ==
  /\ l.what \in {"001", "NOTICE", "JOIN", "PART", "KICK", "353", "NICK", "QUIT", "MODE"}
  /\ l.what = "001" <=> l = Welcoming
  /\ l.what = "JOIN" => l.ch \in Channel /\ l.nick \in Nick
  /\ l.what = "PART" => l.ch \in Channel /\ l.nick \in Nick /\ l = Parted(l.ch, l.nick)
  /\ l.what = "KICK" => l.ch \in Channel /\ l.nick \in Nick /\ l = Kicked(l.ch, l.nick)
  /\ l.what = "353" => l.ch \in Channel /\ l.members \in Rooms
  /\ l.what = "NICK" => l.nick \in Other /\ l.new \in Other
  /\ l.what = "QUIT" => l.nick \in Other
  /\ l.what = "MODE" => l.ch \in Channel /\ l.changes \in Seq(Marks)

\* Every line to the bot is one of those.
LEMMA DownLinesSpeak == ASSUME NEW l \in DownLines PROVE Spoken(l)
<1>1. CASE l \in {Welcoming, NoticeLine}
  BY <1>1 DEF Spoken, Welcoming, NoticeLine
<1>2. CASE l \in JoinLs
  <2>1. \E ch \in Channel, n \in Nick : l = Joined(ch, n)
    BY <1>2 DEF JoinLs
  <2> QED BY <2>1 DEF Spoken, Joined, Welcoming
<1>3. CASE l \in PartLs
  <2>1. \E ch \in Channel, n \in Nick : l = Parted(ch, n)
    BY <1>3 DEF PartLs
  <2> QED BY <2>1 DEF Spoken, Parted, Welcoming
<1>4. CASE l \in KickLs
  <2>1. \E ch \in Channel, n \in Nick : l = Kicked(ch, n)
    BY <1>4 DEF KickLs
  <2> QED BY <2>1 DEF Spoken, Kicked, Welcoming
<1>5. CASE l \in NameLs
  <2>1. \E ch \in Channel, r \in Rooms : l = Names(ch, r)
    BY <1>5 DEF NameLs
  <2> QED BY <2>1 DEF Spoken, Names, Welcoming
<1>6. CASE l \in NickLs
  <2>1. \E u \in Other, new \in Other : l = NickLine(u, new)
    BY <1>6 DEF NickLs
  <2> QED BY <2>1 DEF Spoken, NickLine, Welcoming
<1>7. CASE l \in QuitLs
  <2>1. \E u \in Other : l = QuitLine(u)
    BY <1>7 DEF QuitLs
  <2> QED BY <2>1 DEF Spoken, QuitLine, Welcoming
<1>8. CASE l \in ModeLs
  <2>1. \E ch \in Channel, changes \in Seq(Marks) : l = ModeLine(ch, changes)
    BY <1>8 DEF ModeLs
  <2> QED BY <2>1 DEF Spoken, ModeLine, Welcoming
<1> QED BY <1>1, <1>2, <1>3, <1>4, <1>5, <1>6, <1>7, <1>8 DEF DownLines

\* The lines to the server are JOIN, PART and AUTH.
LEMMA UpLinesSpeak ==
  ASSUME NEW l \in UpLines
  PROVE  /\ l.what \in {"AUTH", "JOIN", "PART"}
         /\ l.what = "JOIN" => l.ch \in Channel /\ l = Ordered(l.ch)
         /\ l.what = "PART" => l.ch \in Channel /\ l = Parting(l.ch)
<1>1. CASE l = AuthLine
  BY <1>1 DEF AuthLine
<1>2. CASE \E ch \in Channel : l = Ordered(ch)
  BY <1>2 DEF Ordered
<1>3. CASE \E ch \in Channel : l = Parting(ch)
  BY <1>3 DEF Parting
<1> QED BY <1>1, <1>2, <1>3, Zenon DEF UpLines

\* What is in a line
LEMMA LineFields ==
  /\ Welcoming.what = "001" /\ NoticeLine.what = "NOTICE" /\ AuthLine.what = "AUTH"
  /\ \A ch, n : Joined(ch, n).what = "JOIN" /\ Joined(ch, n).ch = ch /\ Joined(ch, n).nick = n
  /\ \A ch, n : Parted(ch, n).what = "PART" /\ Parted(ch, n).ch = ch /\ Parted(ch, n).nick = n
  /\ \A ch, n : Kicked(ch, n).what = "KICK" /\ Kicked(ch, n).ch = ch /\ Kicked(ch, n).nick = n
  /\ \A ch, r : Names(ch, r).what = "353" /\ Names(ch, r).ch = ch /\ Names(ch, r).members = r
  /\ \A u, new : NickLine(u, new).what = "NICK" /\ NickLine(u, new).nick = u /\ NickLine(u, new).new = new
  /\ \A u : QuitLine(u).what = "QUIT" /\ QuitLine(u).nick = u
  /\ \A ch, cs : ModeLine(ch, cs).what = "MODE" /\ ModeLine(ch, cs).ch = ch /\ ModeLine(ch, cs).changes = cs
  /\ \A ch : Ordered(ch).what = "JOIN" /\ Ordered(ch).ch = ch /\ Parting(ch).what = "PART" /\ Parting(ch).ch = ch
BY DEF Welcoming, NoticeLine, AuthLine, Joined, Parted, Kicked, Names, NickLine, QuitLine, ModeLine, Ordered, Parting

\* Each of them is a line.
LEMMA LineTypes ==
  /\ Welcoming \in DownLines /\ NoticeLine \in DownLines /\ AuthLine \in UpLines
  /\ \A ch \in Channel, n \in Nick : Joined(ch, n) \in DownLines /\ Parted(ch, n) \in DownLines /\ Kicked(ch, n) \in DownLines
  /\ \A ch \in Channel, r \in Rooms : Names(ch, r) \in DownLines
  /\ \A u, new \in Other : NickLine(u, new) \in DownLines
  /\ \A u \in Other : QuitLine(u) \in DownLines
  /\ \A ch \in Channel, cs \in Seq(Marks) : ModeLine(ch, cs) \in DownLines
  /\ \A ch \in Channel : Ordered(ch) \in UpLines /\ Parting(ch) \in UpLines
<1>1. Welcoming \in DownLines /\ NoticeLine \in DownLines /\ AuthLine \in UpLines
  BY DEF DownLines, UpLines
<1>2. \A ch \in Channel, n \in Nick : Joined(ch, n) \in JoinLs /\ Parted(ch, n) \in PartLs /\ Kicked(ch, n) \in KickLs
  BY DEF JoinLs, PartLs, KickLs
<1>3. \A ch \in Channel, r \in Rooms : Names(ch, r) \in NameLs
  BY DEF NameLs
<1>4. \A u, new \in Other : NickLine(u, new) \in NickLs /\ QuitLine(u) \in QuitLs
  BY DEF NickLs, QuitLs
<1>5. \A ch \in Channel, cs \in Seq(Marks) : ModeLine(ch, cs) \in ModeLs
  BY DEF ModeLs
<1>6. \A ch \in Channel : Ordered(ch) \in UpLines /\ Parting(ch) \in UpLines
  BY DEF UpLines
<1> QED BY <1>1, <1>2, <1>3, <1>4, <1>5, <1>6 DEF DownLines

-----------------------------------------------------------------------------
(* What the lines under way will still do to a channel. *)

\* The members that the bot may know of: if there are any, it is one of them.
Closed == {r \in Rooms : DOMAIN r # {} => Me \in DOMAIN r}

ModesOf(r, cs) ==
  [n \in DOMAIN r |-> IF \E i \in DOMAIN cs : cs[i].nick = n
                      THEN (CHOOSE c \in ToSet(cs) : c.nick = n).plus ELSE r[n]]

\* What a line says that the members of a channel are, when they were r before.
RoomAfter(ch, l, r) ==
  IF l.what = "001" THEN Nobody
  ELSE IF l.what = "JOIN" /\ l.ch = ch THEN With(r, l.nick, FALSE)
  ELSE IF l.what = "353" /\ l.ch = ch THEN l.members
  ELSE IF l.what \in {"PART", "KICK"} /\ l.ch = ch THEN (IF l.nick = Me THEN Nobody ELSE Without(r, l.nick))
  ELSE IF l.what = "NICK" THEN NickChange(r, l.nick, l.new)
  ELSE IF l.what = "QUIT" THEN Without(r, l.nick)
  ELSE IF l.what = "MODE" /\ l.ch = ch THEN ModesOf(r, l.changes)
  ELSE r

\* When the server says it.
Legal(ch, l, r) ==
  /\ l.what = "JOIN" /\ l.ch = ch => l.nick \notin DOMAIN r /\ (l.nick = Me \/ Me \in DOMAIN r)
  /\ l.what = "353" /\ l.ch = ch => DOMAIN r = {Me} /\ Me \in DOMAIN l.members
  /\ l.what = "NICK" => l.new \notin DOMAIN r

\* The members with new modes
LEMMA ModesType ==
  ASSUME NEW r \in Rooms, NEW cs \in Seq(Marks)
  PROVE  ModesOf(r, cs) \in Rooms /\ DOMAIN ModesOf(r, cs) = DOMAIN r
<1> DEFINE said(n) == CHOOSE c \in ToSet(cs) : c.nick = n
<1>1. DOMAIN r \in SUBSET Nick /\ \A n \in DOMAIN r : r[n] \in BOOLEAN
  BY RoomsAre
<1>2. ASSUME NEW n, \E i \in DOMAIN cs : cs[i].nick = n PROVE said(n).plus \in BOOLEAN
  <2>1. PICK i \in 1 .. Len(cs) : cs[i].nick = n
    BY <1>2, ToSetIs
  <2>2. cs[i] \in ToSet(cs) /\ ToSet(cs) \subseteq Marks
    BY ToSetIs
  <2>3. said(n) \in ToSet(cs)
    BY <2>1, <2>2, Zenon
  <2>4. said(n) \in Marks
    BY <2>2, <2>3
  <2> HIDE DEF said
  <2> QED BY <2>4 DEF Marks
<1> DEFINE m(n) == IF \E i \in DOMAIN cs : cs[i].nick = n THEN said(n).plus ELSE r[n]
<1>3. ASSUME NEW n \in DOMAIN r PROVE m(n) \in BOOLEAN
  <2> HIDE DEF said
  <2> QED BY <1>1, <1>2
<1>4. ModesOf(r, cs) = [n \in DOMAIN r |-> m(n)]
  BY DEF ModesOf
<1> HIDE DEF m
<1>5. ModesOf(r, cs) \in [DOMAIN r -> BOOLEAN]
  BY <1>3, <1>4
<1> QED BY <1>1, <1>5 DEF Rooms

\* A user who leaves, and one with a new nick
LEMMA ChangeIs ==
  /\ \A r \in Closed, u \in Other : Without(r, u) \in Closed /\ (Me \in DOMAIN Without(r, u) <=> Me \in DOMAIN r)
  /\ \A r \in Rooms, u \in Other, new \in Other :
       /\ NickChange(r, u, new) = IF u \in DOMAIN r THEN With(Without(r, u), new, r[u]) ELSE r
       /\ NickChange(r, u, "") = IF u \in DOMAIN r THEN Without(r, u) ELSE r
       /\ (Me \in DOMAIN NickChange(r, u, new) <=> Me \in DOMAIN r)
       /\ NickChange(r, u, new) \in Rooms /\ NickChange(r, u, "") \in Rooms
  /\ \A r \in Closed, u \in Other, new \in Other : NickChange(r, u, new) \in Closed
<1>1. ASSUME NEW r \in Closed, NEW u \in Other
      PROVE  Without(r, u) \in Closed /\ (Me \in DOMAIN Without(r, u) <=> Me \in DOMAIN r)
  <2>1. r \in Rooms /\ u # Me /\ (DOMAIN r # {} => Me \in DOMAIN r)
    BY ChannelsAssumption DEF Closed
  <2>2. Without(r, u) \in Rooms
    BY <2>1, RoomsAre
  <2>3. DOMAIN Without(r, u) = DOMAIN r \ {u}
    BY DEF Without
  <2>4. Me \in DOMAIN Without(r, u) <=> Me \in DOMAIN r
    BY <2>1, <2>3
  <2>5. DOMAIN Without(r, u) # {} => Me \in DOMAIN Without(r, u)
    BY <2>1, <2>3
  <2> QED BY <2>2, <2>4, <2>5 DEF Closed
<1>2. ASSUME NEW r \in Rooms, NEW u \in Other, NEW new \in Other
      PROVE  /\ NickChange(r, u, new) = IF u \in DOMAIN r THEN With(Without(r, u), new, r[u]) ELSE r
             /\ NickChange(r, u, "") = IF u \in DOMAIN r THEN Without(r, u) ELSE r
             /\ (Me \in DOMAIN NickChange(r, u, new) <=> Me \in DOMAIN r)
             /\ NickChange(r, u, new) \in Rooms /\ NickChange(r, u, "") \in Rooms
  <2>1. u # Me /\ new # Me /\ new # "" /\ new \in Nick
    BY ChannelsAssumption, RoomsAre
  <2>2. NickChange(r, u, new) = IF u \in DOMAIN r THEN With(Without(r, u), new, r[u]) ELSE r
    BY <2>1 DEF NickChange
  <2>3. NickChange(r, u, "") = IF u \in DOMAIN r THEN Without(r, u) ELSE r
    BY DEF NickChange
  <2>4. u \in DOMAIN r => r[u] \in BOOLEAN
    BY RoomsAre
  <2>5. Without(r, u) \in Rooms
    BY RoomsAre
  <2>6. u \in DOMAIN r => With(Without(r, u), new, r[u]) \in Rooms
    BY <2>1, <2>4, <2>5, RoomsAre
  <2>8. DOMAIN NickChange(r, u, new) = IF u \in DOMAIN r THEN (DOMAIN r \ {u}) \cup {new} ELSE DOMAIN r
    BY <2>2 DEF With, Without
  <2>7. Me \in DOMAIN NickChange(r, u, new) <=> Me \in DOMAIN r
    BY <2>1, <2>8
  <2> QED BY <2>2, <2>3, <2>5, <2>6, <2>7
<1>3. ASSUME NEW r \in Closed, NEW u \in Other, NEW new \in Other PROVE NickChange(r, u, new) \in Closed
  <2>1. r \in Rooms
    BY DEF Closed
  <2>2. CASE u \in DOMAIN r
    <3>1. Me \in DOMAIN r
      BY <2>2 DEF Closed
    <3> QED BY <1>2, <2>1, <3>1 DEF Closed
  <2>3. CASE u \notin DOMAIN r
    <3>1. NickChange(r, u, new) = r
      BY <1>2, <2>1, <2>3
    <3> QED BY <3>1
  <2> QED BY <2>2, <2>3
<1> QED BY <1>1, <1>2, <1>3

\* After a line that the server says, the bot is a member where there are any.
LEMMA RoomAfterIs ==
  ASSUME NEW ch \in Channel, NEW l \in DownLines, NEW r \in Closed, Legal(ch, l, r)
  PROVE  RoomAfter(ch, l, r) \in Closed
<1>1. Spoken(l) /\ r \in Rooms /\ Nobody \in Closed
  BY DownLinesSpeak, RoomsAre DEF Closed
<1>2. CASE l.what = "JOIN" /\ l.ch = ch
  <2>0. l.nick \in Nick /\ (l.nick = Me \/ Me \in DOMAIN r)
    BY <1>1, <1>2 DEF Spoken, Legal
  <2>1. With(r, l.nick, FALSE) \in Rooms /\ Me \in DOMAIN With(r, l.nick, FALSE)
    BY <1>1, <2>0, RoomsAre DEF With
  <2>2. RoomAfter(ch, l, r) = With(r, l.nick, FALSE)
    BY <1>2 DEF RoomAfter
  <2> QED BY <2>1, <2>2 DEF Closed
<1>3. CASE l.what = "353" /\ l.ch = ch
  <2>1. RoomAfter(ch, l, r) = l.members
    BY <1>3 DEF RoomAfter
  <2> QED BY <1>1, <1>3, <2>1 DEF Closed, Legal, Spoken
<1>4. CASE l.what \in {"PART", "KICK"} /\ l.ch = ch
  <2>1. RoomAfter(ch, l, r) = IF l.nick = Me THEN Nobody ELSE Without(r, l.nick)
    BY <1>4 DEF RoomAfter
  <2>2. l.nick = Me \/ l.nick \in Other
    BY <1>1, <1>4 DEF Spoken, Nick
  <2>3. l.nick \in Other => Without(r, l.nick) \in Closed
    BY ChangeIs
  <2> QED BY <1>1, <2>1, <2>2, <2>3
<1>5. CASE l.what = "NICK"
  <2>1. RoomAfter(ch, l, r) = NickChange(r, l.nick, l.new)
    BY <1>5 DEF RoomAfter
  <2>2. l.nick \in Other /\ l.new \in Other
    BY <1>1, <1>5 DEF Spoken
  <2>3. NickChange(r, l.nick, l.new) \in Closed
    BY <2>2, ChangeIs, Zenon
  <2> QED BY <2>1, <2>3
<1>6. CASE l.what = "QUIT"
  <2>1. RoomAfter(ch, l, r) = Without(r, l.nick)
    BY <1>6 DEF RoomAfter
  <2>2. l.nick \in Other
    BY <1>1, <1>6 DEF Spoken
  <2>3. Without(r, l.nick) \in Closed
    BY <2>2, ChangeIs, Zenon
  <2> QED BY <2>1, <2>3
<1>7. CASE l.what = "MODE" /\ l.ch = ch
  <2>1. RoomAfter(ch, l, r) = ModesOf(r, l.changes)
    BY <1>7 DEF RoomAfter
  <2>2. ModesOf(r, l.changes) \in Rooms /\ DOMAIN ModesOf(r, l.changes) = DOMAIN r
    BY <1>1, <1>7, ModesType DEF Spoken
  <2> QED BY <2>1, <2>2 DEF Closed
<1> QED BY <1>1, <1>2, <1>3, <1>4, <1>5, <1>6, <1>7 DEF RoomAfter

\* A line that takes the bot out of a channel
Leaving(ch, l) == l = Parted(ch, Me) \/ l = Kicked(ch, Me) \/ l = Welcoming

\* Every other line leaves it in.
LEMMA StaysIn ==
  ASSUME NEW ch \in Channel, NEW l \in DownLines, NEW r \in Closed, Legal(ch, l, r), Me \in DOMAIN r, ~Leaving(ch, l)
  PROVE  Me \in DOMAIN RoomAfter(ch, l, r)
<1>1. Spoken(l) /\ r \in Rooms /\ l.what # "001"
  BY DownLinesSpeak DEF Closed, Leaving, Spoken
<1>2. CASE l.what = "JOIN" /\ l.ch = ch
  <2>1. RoomAfter(ch, l, r) = With(r, l.nick, FALSE)
    BY <1>2 DEF RoomAfter
  <2> QED BY <2>1 DEF With
<1>3. CASE l.what = "353" /\ l.ch = ch
  <2>1. RoomAfter(ch, l, r) = l.members
    BY <1>3 DEF RoomAfter
  <2> QED BY <1>3, <2>1 DEF Legal
<1>4. CASE l.what \in {"PART", "KICK"} /\ l.ch = ch
  <2>1. l.nick # Me /\ l.nick \in Other
    BY <1>1, <1>4 DEF Spoken, Leaving, Nick
  <2>2. RoomAfter(ch, l, r) = Without(r, l.nick)
    BY <1>4, <2>1 DEF RoomAfter
  <2> QED BY <2>1, <2>2, ChangeIs
<1>5. CASE l.what = "NICK"
  <2>1. RoomAfter(ch, l, r) = NickChange(r, l.nick, l.new)
    BY <1>5 DEF RoomAfter
  <2> QED BY <1>1, <1>5, <2>1, ChangeIs DEF Spoken
<1>6. CASE l.what = "QUIT"
  <2>1. RoomAfter(ch, l, r) = Without(r, l.nick)
    BY <1>6 DEF RoomAfter
  <2> QED BY <1>1, <1>6, <2>1, ChangeIs DEF Spoken
<1>7. CASE l.what = "MODE" /\ l.ch = ch
  <2>1. RoomAfter(ch, l, r) = ModesOf(r, l.changes)
    BY <1>7 DEF RoomAfter
  <2> QED BY <1>1, <1>7, <2>1, ModesType DEF Spoken
<1> QED BY <1>1, <1>2, <1>3, <1>4, <1>5, <1>6, <1>7 DEF RoomAfter

-----------------------------------------------------------------------------
(* The rooms that the bot will see while it reads what is under way. *)

Tale(ch, d, h) ==
  /\ h \in [0 .. Len(d) -> Closed]
  /\ \A i \in 1 .. Len(d) : Legal(ch, d[i], h[i - 1]) /\ h[i] = RoomAfter(ch, d[i], h[i - 1])

\* Nothing is under way.
LEMMA TaleOfNothing ==
  ASSUME NEW ch \in Channel, NEW r \in Closed
  PROVE  Len(<<>>) = 0 /\ \E h : Tale(ch, <<>>, h) /\ h[0] = r
<1>1. Len(<<>>) = 0
  OBVIOUS
<1> DEFINE h == [i \in 0 .. 0 |-> r]
<1>2. Tale(ch, <<>>, h) /\ h[0] = r
  BY <1>1 DEF Tale
<1> HIDE DEF h
<1> QED BY <1>1, <1>2

\* A line more
LEMMA TaleGrows ==
  ASSUME NEW ch \in Channel, NEW d \in Seq(DownLines), NEW l \in DownLines, NEW h, Tale(ch, d, h),
         NEW r, h[Len(d)] = r, Legal(ch, l, r)
  PROVE  \E g : Tale(ch, d \o <<l>>, g) /\ g[0] = h[0] /\ g[Len(d \o <<l>>)] = RoomAfter(ch, l, r)
<1>1. PICK n \in Nat : n = Len(d)
  BY LenProperties
<1>2. PICK e \in Seq(DownLines) : e = d \o <<l>>
  <2>1. <<l>> \in Seq(DownLines)
    OBVIOUS
  <2> QED BY <2>1, ConcatProperties
<1>3. Len(e) = n + 1 /\ e[n + 1] = l /\ \A i \in 1 .. n : e[i] = d[i]
  BY <1>1, <1>2
<1> DEFINE g == [i \in 0 .. n + 1 |-> IF i = n + 1 THEN RoomAfter(ch, l, r) ELSE h[i]]
<1>4. h \in [0 .. n -> Closed] /\ h[n] = r
  BY <1>1 DEF Tale
<1>5. RoomAfter(ch, l, r) \in Closed
  BY <1>4, RoomAfterIs
<1>6. g \in [0 .. n + 1 -> Closed]
  BY <1>4, <1>5
<1>7. g[n + 1] = RoomAfter(ch, l, r) /\ \A i \in 0 .. n : g[i] = h[i]
  OBVIOUS
<1> HIDE DEF g
<1>8. ASSUME NEW i \in 1 .. n + 1
      PROVE  Legal(ch, e[i], g[i - 1]) /\ g[i] = RoomAfter(ch, e[i], g[i - 1])
  <2>1. CASE i = n + 1
    <3>1. i - 1 = n /\ i - 1 \in 0 .. n
      BY <2>1
    <3> QED BY <1>3, <1>4, <1>7, <2>1, <3>1
  <2>2. CASE i # n + 1
    <3>1. i \in 1 .. n /\ i \in 0 .. n /\ i - 1 \in 0 .. n
      BY <2>2
    <3>2. Legal(ch, d[i], h[i - 1]) /\ h[i] = RoomAfter(ch, d[i], h[i - 1])
      BY <1>1, <3>1 DEF Tale
    <3>3. g[i] = h[i] /\ g[i - 1] = h[i - 1] /\ e[i] = d[i]
      BY <1>3, <1>7, <3>1
    <3> QED BY <3>2, <3>3
  <2> QED BY <2>1, <2>2
<1>9. Tale(ch, e, g) /\ g[0] = h[0] /\ g[Len(e)] = RoomAfter(ch, l, r)
  BY <1>3, <1>6, <1>7, <1>8 DEF Tale
<1> QED BY <1>2, <1>9

\* The first line is read.
LEMMA TaleShrinks ==
  ASSUME NEW ch \in Channel, NEW d \in Seq(DownLines), d # <<>>, NEW h, Tale(ch, d, h)
  PROVE  /\ Legal(ch, Head(d), h[0]) /\ h[0] \in Closed
         /\ \E g : Tale(ch, Tail(d), g) /\ g[0] = RoomAfter(ch, Head(d), h[0]) /\ g[Len(Tail(d))] = h[Len(d)]
<1>1. /\ Head(d) = d[1] /\ Tail(d) \in Seq(DownLines) /\ Len(Tail(d)) = Len(d) - 1 /\ Len(d) \in Nat \ {0}
      /\ \A i \in 1 .. Len(Tail(d)) : Tail(d)[i] = d[i + 1]
  BY ToSetTail
<1>2. PICK n \in Nat : n + 1 = Len(d)
  <2>1. Len(d) - 1 \in Nat /\ (Len(d) - 1) + 1 = Len(d)
    BY <1>1
  <2> QED BY <2>1
<1>3. PICK e : e = Tail(d)
  OBVIOUS
<1>4. Len(e) = n /\ \A i \in 1 .. n : e[i] = d[i + 1]
  <2>1. Len(e) = Len(d) - 1
    BY <1>1, <1>3, Zenon
  <2>2. Len(d) - 1 = n
    BY <1>2
  <2> QED BY <1>1, <1>3, <2>1, <2>2
<1>5. /\ h \in [0 .. n + 1 -> Closed]
      /\ \A i \in 1 .. n + 1 : Legal(ch, d[i], h[i - 1]) /\ h[i] = RoomAfter(ch, d[i], h[i - 1])
  BY <1>2 DEF Tale
<1>6. Legal(ch, d[1], h[0]) /\ h[1] = RoomAfter(ch, d[1], h[0]) /\ h[0] \in Closed
  <2>1. 1 \in 1 .. n + 1 /\ 1 - 1 = 0 /\ 0 \in 0 .. n + 1
    OBVIOUS
  <2> QED BY <1>5, <2>1
<1> DEFINE g == [i \in 0 .. n |-> h[i + 1]]
<1>7. g \in [0 .. n -> Closed]
  BY <1>5
<1>8. \A i \in 0 .. n : g[i] = h[i + 1]
  OBVIOUS
<1> HIDE DEF g
<1>9. ASSUME NEW i \in 1 .. n
      PROVE  Legal(ch, e[i], g[i - 1]) /\ g[i] = RoomAfter(ch, e[i], g[i - 1])
  <2>1. i + 1 \in 1 .. n + 1 /\ i - 1 \in 0 .. n /\ i \in 0 .. n /\ (i - 1) + 1 = i /\ (i + 1) - 1 = i
    OBVIOUS
  <2>2. Legal(ch, d[i + 1], h[i]) /\ h[i + 1] = RoomAfter(ch, d[i + 1], h[i])
    BY <1>5, <2>1
  <2>3. g[i] = h[i + 1] /\ g[i - 1] = h[i] /\ e[i] = d[i + 1]
    BY <1>4, <1>8, <2>1
  <2> QED BY <2>2, <2>3
<1>10. g[0] = h[1] /\ g[n] = h[n + 1]
  <2>1. 0 \in 0 .. n /\ n \in 0 .. n /\ 0 + 1 = 1
    OBVIOUS
  <2> QED BY <1>8, <2>1
<1>11. Tale(ch, e, g)
  BY <1>4, <1>7, <1>9 DEF Tale
<1> QED BY <1>1, <1>2, <1>3, <1>4, <1>6, <1>10, <1>11

\* Where the bot is in, it stays in, unless a line takes it out.
LEMMA TaleStays ==
  ASSUME NEW ch \in Channel, NEW d \in Seq(DownLines), NEW h, Tale(ch, d, h), Me \in DOMAIN h[0],
         \A i \in 1 .. Len(d) : ~Leaving(ch, d[i])
  PROVE  Me \in DOMAIN h[Len(d)]
<1>1. PICK n \in Nat : n = Len(d)
  BY LenProperties
<1> DEFINE T == {i \in 0 .. n : Me \in DOMAIN h[i]}
<1>2. 0 \in T
  OBVIOUS
<1>3. ASSUME NEW i \in 0 .. n - 1, i \in T PROVE i + 1 \in T
  <2>1. i + 1 \in 1 .. n /\ (i + 1) - 1 = i /\ i \in 0 .. n /\ i + 1 \in 0 .. n
    OBVIOUS
  <2>2. PICK l \in DownLines : l = d[i + 1]
    BY <1>1, <2>1, ElementOfSeq
  <2>3. h[i] \in Closed /\ Legal(ch, l, h[i]) /\ h[i + 1] = RoomAfter(ch, l, h[i])
    BY <1>1, <2>1, <2>2 DEF Tale
  <2>4. ~Leaving(ch, l) /\ Me \in DOMAIN h[i]
    BY <1>1, <1>3, <2>1, <2>2
  <2>5. Me \in DOMAIN h[i + 1]
    BY <2>3, <2>4, StaysIn
  <2> QED BY <2>1, <2>5
<1> HIDE DEF T
<1>4. 0 .. n \subseteq T
  BY <1>2, <1>3, InductiveUpTo
<1>5. n \in T
  BY <1>4
<1> QED BY <1>1, <1>5 DEF T

-----------------------------------------------------------------------------
(* What the bot knows of a channel. *)

\* The members of a channel in a list; there are none of one that is not in it.
Listed(cs, ch) == IF ch \in DOMAIN cs THEN cs[ch].members ELSE Nobody

\* The members v that the bot lists are among the real ones r, with the same +o, unless lines of two signs
\* were mixed, and they are all of them, unless that is unsure.
Agrees(v, r, unsure, mix) ==
  /\ DOMAIN v \subseteq DOMAIN r
  /\ mix \/ \A n \in Other \cap DOMAIN v : v[n] = r[n]
  /\ unsure \/ DOMAIN v = DOMAIN r

\* Nobody is sure.
LEMMA NobodyAgrees == \A r, unsure, mix : Agrees(Nobody, Nobody, unsure, mix) /\ (unsure => Agrees(Nobody, r, unsure, mix))
BY RoomsAre DEF Agrees

\* Where the bot is not, it knows nobody, and that for sure.
LEMMA SureOfNobody ==
  ASSUME NEW v \in Rooms, NEW unsure, NEW mix, Agrees(v, Nobody, unsure, mix)
  PROVE  v = Nobody /\ \A unsure2, mix2 : Agrees(v, Nobody, unsure2, mix2)
<1>1. DOMAIN v = {}
  BY RoomsAre DEF Agrees
<1>2. v = Nobody
  BY <1>1, RoomsAre
<1> QED BY <1>2, NobodyAgrees

\* JOIN: member_add (join.c:502).  The bot's own opens an empty room.
LEMMA JoinAgrees ==
  ASSUME NEW v \in Rooms, NEW r \in Closed, NEW n \in Nick, NEW unsure, NEW mix, Agrees(v, r, unsure, mix),
         n \notin DOMAIN r, n = Me \/ Me \in DOMAIN r, NEW unsure2, n # Me => (unsure => unsure2)
  PROVE  /\ n \notin DOMAIN v
         /\ Agrees(With(v, n, FALSE), With(r, n, FALSE), unsure2, mix)
<1>1. DOMAIN v \subseteq DOMAIN r /\ n \notin DOMAIN v
  BY DEF Agrees
<1>2. DOMAIN With(v, n, FALSE) = DOMAIN v \cup {n} /\ DOMAIN With(r, n, FALSE) = DOMAIN r \cup {n}
  BY DEF With
<1>3. \A m \in Other \cap (DOMAIN v \cup {n}) :
        With(v, n, FALSE)[m] = (IF m = n THEN FALSE ELSE v[m]) /\ With(r, n, FALSE)[m] = (IF m = n THEN FALSE ELSE r[m])
  BY <1>1 DEF With
<1>4. mix \/ \A m \in Other \cap DOMAIN With(v, n, FALSE) : With(v, n, FALSE)[m] = With(r, n, FALSE)[m]
  BY <1>2, <1>3 DEF Agrees
<1>5. unsure2 \/ DOMAIN With(v, n, FALSE) = DOMAIN With(r, n, FALSE)
  <2>1. CASE n = Me
    <3>1. DOMAIN r = {}
      BY <2>1 DEF Closed
    <3> QED BY <1>1, <1>2, <3>1
  <2>2. CASE n # Me
    BY <1>2, <2>2 DEF Agrees
  <2> QED BY <2>1, <2>2
<1> QED BY <1>1, <1>2, <1>4, <1>5 DEF Agrees

\* 353: the names that are not there yet are added, and before them there is at most the bot (join.c:505).
LEMMA NamesAgree ==
  ASSUME NEW c, NEW m \in Rooms, DOMAIN c.members \subseteq {Me}, Me \in DOMAIN m, NEW unsure, NEW mix
  PROVE  Agrees(AddAll(c, m).members, m, unsure, mix)
<1> DEFINE v == c.members
           w == AddAll(c, m).members
<1>2. DOMAIN w = DOMAIN m
  BY DEF AddAll
<1>3. ASSUME NEW n \in Other \cap DOMAIN w PROVE w[n] = m[n]
  <2>1. n \notin DOMAIN v /\ n \in DOMAIN m
    BY <1>2, ChannelsAssumption
  <2>2. w[n] = MemberAdd(c, n, m[n]).members[n]
    BY <2>1 DEF AddAll
  <2>3. MemberAdd(c, n, m[n]).members = With(v, n, m[n])
    BY <2>1 DEF MemberAdd
  <2> QED BY <2>2, <2>3 DEF With
<1> HIDE DEF w
<1>4. Agrees(w, m, unsure, mix)
  BY <1>2, <1>3 DEF Agrees
<1> QED BY <1>4 DEF w

\* PART and KICK of another user, and QUIT: member_del (join.c:516, 521, 413).
LEMMA LeaveAgrees ==
  ASSUME NEW v \in Rooms, NEW r \in Rooms, NEW n, NEW unsure, NEW mix, Agrees(v, r, unsure, mix)
  PROVE  Agrees(Without(v, n), Without(r, n), unsure, mix)
<1>1. DOMAIN Without(v, n) = DOMAIN v \ {n} /\ DOMAIN Without(r, n) = DOMAIN r \ {n}
  BY DEF Without
<1>2. DOMAIN v \subseteq DOMAIN r
  BY DEF Agrees
<1>3. \A m \in Other \cap (DOMAIN v \ {n}) : Without(v, n)[m] = v[m] /\ Without(r, n)[m] = r[m]
  BY <1>2 DEF Without
<1> QED BY <1>1, <1>2, <1>3 DEF Agrees

\* NICK: nickchange (join.c:399).
LEMMA NickAgrees ==
  ASSUME NEW v \in Rooms, NEW r \in Rooms, NEW u \in Other, NEW new \in Other, NEW unsure, NEW mix, Agrees(v, r, unsure, mix),
         new \notin DOMAIN r
  PROVE  Agrees(NickChange(v, u, new), NickChange(r, u, new), unsure, mix)
<1>1. DOMAIN v \subseteq DOMAIN r /\ new \notin DOMAIN v /\ (unsure \/ DOMAIN v = DOMAIN r)
  BY DEF Agrees
<1>2. CASE u \in DOMAIN v
  <2>1. u \in DOMAIN r
    BY <1>1, <1>2
  <2>2. NickChange(v, u, new) = With(Without(v, u), new, v[u]) /\ NickChange(r, u, new) = With(Without(r, u), new, r[u])
    BY <1>2, <2>1, ChannelsAssumption DEF NickChange
  <2>3. /\ DOMAIN NickChange(v, u, new) = (DOMAIN v \ {u}) \cup {new}
        /\ DOMAIN NickChange(r, u, new) = (DOMAIN r \ {u}) \cup {new}
    BY <2>2 DEF With, Without
  <2>4. /\ NickChange(v, u, new)[new] = v[u] /\ NickChange(r, u, new)[new] = r[u]
        /\ \A m \in DOMAIN v \ {u} : NickChange(v, u, new)[m] = v[m] /\ NickChange(r, u, new)[m] = r[m]
    BY <1>1, <2>2 DEF With, Without
  <2>5. mix \/ v[u] = r[u]
    BY <1>2 DEF Agrees
  <2>6. mix \/ \A m \in Other \cap DOMAIN v : v[m] = r[m]
    BY DEF Agrees
  <2>7. mix \/ \A m \in Other \cap DOMAIN NickChange(v, u, new) : NickChange(v, u, new)[m] = NickChange(r, u, new)[m]
    BY <2>3, <2>4, <2>5, <2>6
  <2>8. DOMAIN NickChange(v, u, new) \subseteq DOMAIN NickChange(r, u, new)
    BY <1>1, <2>3
  <2>9. unsure \/ DOMAIN NickChange(v, u, new) = DOMAIN NickChange(r, u, new)
    BY <1>1, <2>3
  <2> QED BY <2>7, <2>8, <2>9 DEF Agrees
<1>3. CASE u \notin DOMAIN v /\ u \in DOMAIN r
  <2>1. NickChange(v, u, new) = v
    BY <1>3, ChangeIs
  <2>2. NickChange(r, u, new) = With(Without(r, u), new, r[u])
    BY <1>3, ChangeIs
  <2>3. DOMAIN NickChange(r, u, new) = (DOMAIN r \ {u}) \cup {new} /\ \A m \in DOMAIN v : NickChange(r, u, new)[m] = r[m]
    BY <1>1, <1>3, <2>2 DEF With, Without
  <2>4. unsure
    BY <1>1, <1>3
  <2>5. mix \/ \A m \in Other \cap DOMAIN v : v[m] = r[m]
    BY DEF Agrees
  <2>6. DOMAIN v \subseteq DOMAIN NickChange(r, u, new)
    BY <1>1, <1>3, <2>3
  <2>7. mix \/ \A m \in Other \cap DOMAIN v : v[m] = NickChange(r, u, new)[m]
    BY <2>3, <2>5
  <2> QED BY <2>1, <2>4, <2>6, <2>7 DEF Agrees
<1>4. CASE u \notin DOMAIN r
  <2>1. NickChange(v, u, new) = v /\ NickChange(r, u, new) = r
    BY <1>1, <1>4, ChangeIs
  <2> QED BY <2>1
<1> QED BY <1>2, <1>3, <1>4

\* MODE: channel_modes; the first sign counts (join.c:251).
LEMMA ModesAgree ==
  ASSUME NEW v \in Rooms, NEW r \in Rooms, NEW cs \in Seq(Marks), NEW unsure, NEW ch, NEW mx, Agrees(v, r, unsure, ch \in mx), NEW mx2,
         ch \in mx => ch \in mx2, (\E i \in DOMAIN cs : cs[i].plus # cs[1].plus) => ch \in mx2
  PROVE  Agrees(ChannelModes(v, cs), ModesOf(r, cs), unsure, ch \in mx2)
<1>1. DOMAIN ChannelModes(v, cs) = DOMAIN v /\ DOMAIN ModesOf(r, cs) = DOMAIN r /\ DOMAIN v \subseteq DOMAIN r
  BY DEF ChannelModes, ModesOf, Agrees
<1>2. ASSUME ch \notin mx2, NEW n \in Other \cap DOMAIN v PROVE ChannelModes(v, cs)[n] = ModesOf(r, cs)[n]
  <2>1. v[n] = r[n]
    BY <1>2 DEF Agrees
  <2>2. ChannelModes(v, cs)[n] = IF \E i \in DOMAIN cs : cs[i].nick = n THEN cs[1].plus ELSE v[n]
    BY DEF ChannelModes
  <2>3. ModesOf(r, cs)[n] = IF \E i \in DOMAIN cs : cs[i].nick = n THEN (CHOOSE c \in ToSet(cs) : c.nick = n).plus ELSE r[n]
    BY <1>1 DEF ModesOf
  <2>4. CASE \E i \in DOMAIN cs : cs[i].nick = n
    <3>1. PICK c : c = CHOOSE x \in ToSet(cs) : x.nick = n
      OBVIOUS
    <3>2. \E x \in ToSet(cs) : x.nick = n
      BY <2>4 DEF ToSet
    <3>3. c \in ToSet(cs)
      BY <3>1, <3>2, Zenon
    <3>4. PICK i \in DOMAIN cs : cs[i] = c
      BY <3>3 DEF ToSet
    <3>5. c.plus = cs[1].plus
      BY <1>2, <3>4
    <3> QED BY <2>2, <2>3, <2>4, <3>1, <3>5
  <2>5. CASE ~ \E i \in DOMAIN cs : cs[i].nick = n
    BY <2>1, <2>2, <2>3, <2>5
  <2> QED BY <2>4, <2>5
<1> QED BY <1>1, <1>2 DEF Agrees

-----------------------------------------------------------------------------
(* The bot's lists, as they fit what it is going to read. *)

\* The bot has left a channel, or is about to, and has not read it yet.
Leaves(ch, u, d) == Parting(ch) \in ToSet(u) \/ Parted(ch, Me) \in ToSet(d) \/ Kicked(ch, Me) \in ToSet(d)

Right(ch, cs, bl, mx, u, d, r) == Agrees(Listed(cs, ch), r, ch \in bl \/ Leaves(ch, u, d), ch \in mx)

\* The lines that are under way tell how the members that the bot lists become those of the server, r.  Before
\* numeric 1 has been read the lists are those of an earlier connection.
StoryOf(ch, cs, bl, mx, u, d, r) ==
  \E h : /\ Tale(ch, d, h) /\ h[Len(d)] = r
         /\ d = <<>> \/ Head(d) # Welcoming => Right(ch, cs, bl, mx, u, d, h[0])

\* What is under way is not less with lines behind it.
LEMMA LeavesMore ==
  ASSUME NEW ch, NEW u, NEW u2, NEW d, NEW d2, ToSet(u) \subseteq ToSet(u2), ToSet(d) \subseteq ToSet(d2), Leaves(ch, u, d)
  PROVE  Leaves(ch, u2, d2)
BY DEF Leaves

\* The server says a line.
LEMMA StoryGrows ==
  ASSUME NEW ch \in Channel, NEW cs, NEW bl, NEW mx, NEW u, NEW d \in Seq(DownLines), NEW r, StoryOf(ch, cs, bl, mx, u, d, r),
         NEW l \in DownLines, l # Welcoming, Legal(ch, l, r)
  PROVE  StoryOf(ch, cs, bl, mx, u, d \o <<l>>, RoomAfter(ch, l, r))
<1>1. PICK h : /\ Tale(ch, d, h) /\ h[Len(d)] = r
               /\ d = <<>> \/ Head(d) # Welcoming => Right(ch, cs, bl, mx, u, d, h[0])
  BY DEF StoryOf
<1>2. PICK e : e = d \o <<l>>
  OBVIOUS
<1>3. PICK g : Tale(ch, e, g) /\ g[0] = h[0] /\ g[Len(e)] = RoomAfter(ch, l, r)
  BY <1>1, <1>2, TaleGrows
<1>4. <<l>> \in Seq(DownLines) /\ Len(<<l>>) = 1
  OBVIOUS
<1>5. ToSet(d) \subseteq ToSet(e)
  <2>1. ToSet(d \o <<l>>) = ToSet(d) \cup ToSet(<<l>>)
    BY <1>4, ToSetBehind
  <2> QED BY <1>2, <2>1
<1>6. ASSUME e = <<>> \/ Head(e) # Welcoming PROVE d = <<>> \/ Head(d) # Welcoming
  <2>1. CASE d # <<>>
    <3>1. Head(e) = Head(d) /\ e # <<>>
      <4>1. Len(d) \in Nat \ {0} /\ Head(d) = d[1] /\ e \in Seq(DownLines) /\ Len(e) = Len(d) + 1
        BY <1>2, <1>4, <2>1, ToSetTail, ToSetBehind
      <4>2. 1 \in 1 .. Len(d) /\ e # <<>>
        BY <4>1, EmptySeq
      <4>3. e[1] = d[1]
        BY <1>2, <1>4, <4>2, ToSetBehind
      <4> QED BY <4>1, <4>2, <4>3, ToSetTail
    <3> QED BY <1>6, <3>1
  <2> QED BY <2>1
<1>7. ASSUME e = <<>> \/ Head(e) # Welcoming PROVE Right(ch, cs, bl, mx, u, e, h[0])
  <2>1. Right(ch, cs, bl, mx, u, d, h[0])
    BY <1>1, <1>6, <1>7
  <2>2. Leaves(ch, u, d) => Leaves(ch, u, e)
    BY <1>5, LeavesMore
  <2> QED BY <2>1, <2>2 DEF Right, Agrees
<1>8. StoryOf(ch, cs, bl, mx, u, e, RoomAfter(ch, l, r))
  BY <1>3, <1>7 DEF StoryOf
<1> QED BY <1>2, <1>8

\* The bot reads the first line: it is enough that its lists follow it.
LEMMA StoryRead ==
  ASSUME NEW ch \in Channel, NEW cs, NEW bl, NEW mx, NEW u, NEW d \in Seq(DownLines), NEW r, StoryOf(ch, cs, bl, mx, u, d, r),
         d # <<>>, NEW cs2, NEW bl2, NEW mx2, NEW u2,
         \A q \in Closed :
           Legal(ch, Head(d), q) /\ (Head(d) = Welcoming \/ Right(ch, cs, bl, mx, u, d, q))
             => Right(ch, cs2, bl2, mx2, u2, Tail(d), RoomAfter(ch, Head(d), q))
  PROVE  StoryOf(ch, cs2, bl2, mx2, u2, Tail(d), r)
<1>1. PICK h : /\ Tale(ch, d, h) /\ h[Len(d)] = r
               /\ d = <<>> \/ Head(d) # Welcoming => Right(ch, cs, bl, mx, u, d, h[0])
  BY DEF StoryOf
<1>2. Legal(ch, Head(d), h[0]) /\ h[0] \in Closed
  BY <1>1, TaleShrinks
<1>3. PICK g : Tale(ch, Tail(d), g) /\ g[0] = RoomAfter(ch, Head(d), h[0]) /\ g[Len(Tail(d))] = h[Len(d)]
  BY <1>1, TaleShrinks
<1>4. Right(ch, cs2, bl2, mx2, u2, Tail(d), g[0])
  BY <1>1, <1>2, <1>3
<1> QED BY <1>1, <1>3, <1>4 DEF StoryOf

\* Something else happens to the lists: it is enough that they still agree with the room they were about, from
\* which the bot is still to be taken if it is no longer in.
LEMMA StoryKept ==
  ASSUME NEW ch \in Channel, NEW cs, NEW bl, NEW mx, NEW u, NEW d \in Seq(DownLines), NEW r, StoryOf(ch, cs, bl, mx, u, d, r),
         NEW cs2, NEW bl2, NEW mx2, NEW u2,
         \A q \in Closed :
           /\ d = <<>> \/ Head(d) # Welcoming
           /\ Right(ch, cs, bl, mx, u, d, q)
           /\ q = Nobody \/ Me \in DOMAIN r \/ \E l \in ToSet(d) : Leaving(ch, l)
           => Right(ch, cs2, bl2, mx2, u2, d, q)
  PROVE  StoryOf(ch, cs2, bl2, mx2, u2, d, r)
<1>1. PICK h : /\ Tale(ch, d, h) /\ h[Len(d)] = r
               /\ d = <<>> \/ Head(d) # Welcoming => Right(ch, cs, bl, mx, u, d, h[0])
  BY DEF StoryOf
<1>2. h[0] \in Closed
  <2>1. 0 \in 0 .. Len(d)
    BY LenProperties
  <2> QED BY <1>1, <2>1 DEF Tale
<1>3. h[0] = Nobody \/ Me \in DOMAIN r \/ \E l \in ToSet(d) : Leaving(ch, l)
  <2>1. ASSUME h[0] # Nobody, \A l \in ToSet(d) : ~Leaving(ch, l) PROVE Me \in DOMAIN r
    <3>1. Me \in DOMAIN h[0]
      BY <1>2, <2>1, RoomsAre DEF Closed
    <3>2. \A i \in 1 .. Len(d) : ~Leaving(ch, d[i])
      BY <2>1, ToSetIs
    <3> QED BY <1>1, <3>1, <3>2, TaleStays
  <2> QED BY <2>1
<1>4. d = <<>> \/ Head(d) # Welcoming => Right(ch, cs2, bl2, mx2, u2, d, h[0])
  BY <1>1, <1>2, <1>3
<1> QED BY <1>1, <1>4 DEF StoryOf

\* A bot that reads a line and is then in is in at the end, or a line takes it out.
LEMMA StoryLeaves ==
  ASSUME NEW ch \in Channel, NEW cs, NEW bl, NEW mx, NEW u, NEW d \in Seq(DownLines), NEW r, StoryOf(ch, cs, bl, mx, u, d, r),
         d # <<>>, \A q \in Closed : Legal(ch, Head(d), q) => Me \in DOMAIN RoomAfter(ch, Head(d), q)
  PROVE  Me \in DOMAIN r \/ \E l \in ToSet(Tail(d)) : Leaving(ch, l)
<1>1. PICK h : Tale(ch, d, h) /\ h[Len(d)] = r
  BY DEF StoryOf
<1>2. Legal(ch, Head(d), h[0]) /\ h[0] \in Closed
  BY <1>1, TaleShrinks
<1>3. PICK g : Tale(ch, Tail(d), g) /\ g[0] = RoomAfter(ch, Head(d), h[0]) /\ g[Len(Tail(d))] = h[Len(d)]
  BY <1>1, TaleShrinks
<1>4. Me \in DOMAIN g[0]
  BY <1>2, <1>3
<1>5. ASSUME \A l \in ToSet(Tail(d)) : ~Leaving(ch, l) PROVE Me \in DOMAIN r
  <2>1. Tail(d) \in Seq(DownLines)
    BY ToSetTail
  <2>2. \A i \in 1 .. Len(Tail(d)) : ~Leaving(ch, Tail(d)[i])
    BY <1>5, <2>1, ToSetIs
  <2> QED BY <1>1, <1>3, <1>4, <2>1, <2>2, TaleStays
<1> QED BY <1>5

-----------------------------------------------------------------------------
(* The functions of join.c on the lists *)

Entry == [retries : Nat, members : Rooms]
AllLists == UNION {[S -> Entry] : S \in SUBSET Channel}

\* A list of channels
LEMMA ChannelListIs ==
  ASSUME NEW cs \in AllLists
  PROVE  /\ DOMAIN cs \subseteq Channel /\ cs \in [DOMAIN cs -> Entry]
         /\ \A ch \in DOMAIN cs : cs[ch] \in Entry /\ cs[ch].members \in Rooms /\ cs[ch].retries \in Nat
         /\ \A ch : Listed(cs, ch) \in Rooms /\ (ch \notin DOMAIN cs => Listed(cs, ch) = Nobody)
<1>1. PICK S \in SUBSET Channel : cs \in [S -> Entry]
  BY DEF AllLists
<1>2. DOMAIN cs = S
  BY <1>1
<1>3. \A ch \in DOMAIN cs : cs[ch] \in Entry /\ cs[ch].members \in Rooms /\ cs[ch].retries \in Nat
  BY <1>1, <1>2 DEF Entry
<1>4. \A ch : Listed(cs, ch) \in Rooms /\ (ch \notin DOMAIN cs => Listed(cs, ch) = Nobody)
  BY <1>3, RoomsAre DEF Listed
<1> QED BY <1>1, <1>2, <1>3, <1>4

\* One that is put together
LEMMA ListMade ==
  ASSUME NEW S \in SUBSET Channel, NEW f \in [S -> Entry]
  PROVE  f \in AllLists /\ DOMAIN f = S
BY DEF AllLists

\* An entry
LEMMA EntryMade ==
  ASSUME NEW k \in Nat, NEW m \in Rooms
  PROVE  /\ [retries |-> k, members |-> m] \in Entry
         /\ [retries |-> k, members |-> m].members = m /\ [retries |-> k, members |-> m].retries = k
BY DEF Entry

\* channel_add (join.c:200)
LEMMA AddIs ==
  ASSUME NEW cs \in AllLists, NEW c \in Channel
  PROVE  /\ ChannelAdd(cs, c) \in AllLists /\ DOMAIN ChannelAdd(cs, c) = DOMAIN cs \cup {c}
         /\ \A ch : Listed(ChannelAdd(cs, c), ch) = Listed(cs, ch)
<1>1. CASE c \in DOMAIN cs
  BY <1>1 DEF ChannelAdd
<1>2. CASE c \notin DOMAIN cs
  <2> DEFINE e == [retries |-> 0, members |-> Nobody]
             f == [z \in DOMAIN cs \cup {c} |-> IF z = c THEN e ELSE cs[z]]
  <2>1. e \in Entry /\ e.members = Nobody
    BY RoomsAre, EntryMade
  <2>2. ChannelAdd(cs, c) = f
    BY <1>2 DEF ChannelAdd, With
  <2> HIDE DEF e
  <2>3. f \in [DOMAIN cs \cup {c} -> Entry]
    BY <2>1, ChannelListIs
  <2>4. DOMAIN cs \cup {c} \in SUBSET Channel
    BY ChannelListIs
  <2>5. f[c] = e /\ \A ch \in DOMAIN cs : f[ch] = cs[ch]
    BY <1>2
  <2> HIDE DEF f
  <2>6. f \in AllLists /\ DOMAIN f = DOMAIN cs \cup {c}
    BY <2>3, <2>4, ListMade
  <2>7. ASSUME NEW ch PROVE Listed(f, ch) = Listed(cs, ch)
    BY <1>2, <2>1, <2>5, <2>6 DEF Listed
  <2> QED BY <2>2, <2>6, <2>7
<1> QED BY <1>1, <1>2

\* An entry e is put in the place of c's.
Put(f, cs, c, e) ==
  /\ DOMAIN f = DOMAIN cs /\ f = [ch \in DOMAIN cs |-> f[ch]]
  /\ f[c] = e /\ \A ch \in DOMAIN cs \ {c} : f[ch] = cs[ch]

\* What the lists are then
LEMMA PutIs ==
  ASSUME NEW cs \in AllLists, NEW c \in DOMAIN cs, NEW e \in Entry, NEW f, Put(f, cs, c, e)
  PROVE  /\ f \in AllLists /\ DOMAIN f = DOMAIN cs
         /\ \A ch : Listed(f, ch) = IF ch = c THEN e.members ELSE Listed(cs, ch)
<1>1. f \in [DOMAIN cs -> Entry] /\ DOMAIN cs \in SUBSET Channel
  <2>1. \A ch \in DOMAIN cs : f[ch] \in Entry
    BY ChannelListIs DEF Put
  <2> QED BY <2>1, ChannelListIs DEF Put
<1>2. f[c] = e /\ \A ch \in DOMAIN cs \ {c} : f[ch] = cs[ch]
  BY DEF Put
<1>3. f \in AllLists /\ DOMAIN f = DOMAIN cs
  BY <1>1, ListMade
<1>4. ASSUME NEW ch PROVE Listed(f, ch) = IF ch = c THEN e.members ELSE Listed(cs, ch)
  BY <1>2, <1>3 DEF Listed
<1> QED BY <1>3, <1>4

\* The members of an entry are changed.
LEMMA PutMembersIs ==
  ASSUME NEW cs \in AllLists, NEW c \in DOMAIN cs, NEW m \in Rooms, NEW f, Put(f, cs, c, [cs[c] EXCEPT !.members = m])
  PROVE  /\ f \in AllLists /\ DOMAIN f = DOMAIN cs
         /\ \A ch : Listed(f, ch) = IF ch = c THEN m ELSE Listed(cs, ch)
<1> DEFINE e == [cs[c] EXCEPT !.members = m]
<1>1. e \in Entry /\ e.members = m
  BY ChannelListIs DEF Entry
<1>2. Put(f, cs, c, e)
  OBVIOUS
<1> HIDE DEF e
<1>3. f \in AllLists /\ DOMAIN f = DOMAIN cs /\ \A ch : Listed(f, ch) = IF ch = c THEN e.members ELSE Listed(cs, ch)
  BY <1>1, <1>2, PutIs
<1> QED BY <1>1, <1>3

\* channel_del (join.c:242)
LEMMA DelIs ==
  ASSUME NEW cs \in AllLists, NEW c
  PROVE  /\ ChannelDel(cs, c) \in AllLists /\ DOMAIN ChannelDel(cs, c) = DOMAIN cs \ {c}
         /\ \A ch : Listed(ChannelDel(cs, c), ch) = IF ch = c THEN Nobody ELSE Listed(cs, ch)
<1> DEFINE f == [z \in DOMAIN cs \ {c} |-> cs[z]]
<1>1. ChannelDel(cs, c) = f
  BY DEF ChannelDel, Without
<1>2. f \in [DOMAIN cs \ {c} -> Entry] /\ DOMAIN cs \ {c} \in SUBSET Channel /\ \A ch \in DOMAIN cs \ {c} : f[ch] = cs[ch]
  BY ChannelListIs
<1> HIDE DEF f
<1>3. f \in AllLists /\ DOMAIN f = DOMAIN cs \ {c}
  BY <1>2, ListMade
<1>4. ASSUME NEW ch PROVE Listed(f, ch) = IF ch = c THEN Nobody ELSE Listed(cs, ch)
  BY <1>2, <1>3 DEF Listed
<1> QED BY <1>1, <1>3, <1>4

\* A function applied to the members of every channel
LEMMA EachIs ==
  ASSUME NEW cs \in AllLists, NEW f, DOMAIN f = DOMAIN cs,
         \A ch \in DOMAIN cs : f[ch] \in Entry, f = [ch \in DOMAIN cs |-> f[ch]]
  PROVE  f \in AllLists /\ \A ch : Listed(f, ch) = IF ch \in DOMAIN cs THEN f[ch].members ELSE Nobody
<1>1. f \in [DOMAIN cs -> Entry] /\ DOMAIN cs \in SUBSET Channel
  BY ChannelListIs
<1> QED BY <1>1, ListMade DEF Listed

\* member_add (join.c:102)
LEMMA MemberAddIs ==
  ASSUME NEW c, c.members \in Rooms, NEW n \in Nick, NEW op \in BOOLEAN
  PROVE  /\ MemberAdd(c, n, op) \in Entry
         /\ MemberAdd(c, n, op).members = IF n \in DOMAIN c.members THEN c.members ELSE With(c.members, n, op)
         /\ MemberAdd(c, n, op).members[n] \in BOOLEAN
<1> DEFINE m == IF n \in DOMAIN c.members THEN c.members ELSE With(c.members, n, op)
<1>1. m \in Rooms /\ m[n] \in BOOLEAN
  <2>1. CASE n \in DOMAIN c.members
    BY <2>1, RoomsAre
  <2>2. CASE n \notin DOMAIN c.members
    <3>1. m = With(c.members, n, op)
      BY <2>2
    <3>2. With(c.members, n, op) \in Rooms /\ With(c.members, n, op)[n] = op
      BY RoomsAre DEF With
    <3> QED BY <3>1, <3>2
  <2> QED BY <2>1, <2>2
<1>2. MemberAdd(c, n, op) = [retries |-> 0, members |-> m]
  BY DEF MemberAdd
<1> HIDE DEF m
<1>3. MemberAdd(c, n, op) \in Entry /\ MemberAdd(c, n, op).members = m
  BY <1>1, <1>2, EntryMade
<1> QED BY <1>1, <1>3 DEF m

\* member_add for each name of a 353 (join.c:505)
LEMMA AddAllIs ==
  ASSUME NEW c, c.members \in Rooms, NEW m \in Rooms
  PROVE  AddAll(c, m) \in Entry
<1> DEFINE D == DOMAIN c.members \cup DOMAIN m
           op(n) == IF n \in DOMAIN m THEN m[n] ELSE FALSE
           f == [n \in D |-> MemberAdd(c, n, op(n)).members[n]]
<1>1. D \in SUBSET Nick
  BY RoomsAre
<1>2. \A n \in D : op(n) \in BOOLEAN
  BY RoomsAre
<1> HIDE DEF op
<1>3. ASSUME NEW n \in D PROVE MemberAdd(c, n, op(n)).members[n] \in BOOLEAN
  BY <1>1, <1>2, MemberAddIs
<1>4. f \in [D -> BOOLEAN]
  BY <1>3
<1>5. AddAll(c, m) = [retries |-> 0, members |-> f]
  BY DEF AddAll, op
<1> HIDE DEF f, D
<1>6. f \in Rooms
  BY <1>1, <1>4 DEF Rooms
<1> QED BY <1>5, <1>6, EntryMade

\* What JOIN, 353 and MODE make of the lists
JoinedList(cs, c, n) == [ChannelAdd(cs, c) EXCEPT ![c] = MemberAdd(@, n, FALSE)]
NamedList(cs, c, m) == [ChannelAdd(cs, c) EXCEPT ![c] = AddAll(@, m)]
ModedList(cs, c, ms) == IF c \in DOMAIN cs THEN [cs EXCEPT ![c].members = ChannelModes(@, ms)] ELSE cs

\* After a JOIN
LEMMA JoinedIs ==
  ASSUME NEW cs \in AllLists, NEW c \in Channel, NEW n \in Nick
  PROVE  /\ JoinedList(cs, c, n) \in AllLists /\ DOMAIN JoinedList(cs, c, n) = DOMAIN cs \cup {c}
         /\ \A ch \in Channel \ {c} : Listed(JoinedList(cs, c, n), ch) = Listed(cs, ch)
         /\ n \notin DOMAIN Listed(cs, c) => Listed(JoinedList(cs, c, n), c) = With(Listed(cs, c), n, FALSE)
<1>9. PICK f : f = JoinedList(cs, c, n)
  OBVIOUS
<1>1. PICK a \in AllLists : a = ChannelAdd(cs, c)
  BY AddIs
<1>2. DOMAIN a = DOMAIN cs \cup {c} /\ \A ch : Listed(a, ch) = Listed(cs, ch)
  BY <1>1, AddIs
<1>3. c \in DOMAIN a /\ a[c].members \in Rooms /\ a[c].members = Listed(cs, c)
  BY <1>2, ChannelListIs DEF Listed
<1>4. PICK e \in Entry : e = MemberAdd(a[c], n, FALSE)
  BY <1>3, MemberAddIs
<1>5. e.members = IF n \in DOMAIN Listed(cs, c) THEN Listed(cs, c) ELSE With(Listed(cs, c), n, FALSE)
  BY <1>3, <1>4, MemberAddIs
<1>6. Put(f, a, c, e)
  BY <1>9, <1>1, <1>3, <1>4, ChannelListIs DEF Put, JoinedList
<1>7. f \in AllLists /\ DOMAIN f = DOMAIN a /\ \A ch : Listed(f, ch) = IF ch = c THEN e.members ELSE Listed(a, ch)
  BY ONLY a \in AllLists, e \in Entry, <1>3, <1>6, PutIs
<1> QED BY <1>9, <1>2, <1>5, <1>7

\* After a 353
LEMMA NamedIs ==
  ASSUME NEW cs \in AllLists, NEW c \in Channel, NEW m \in Rooms
  PROVE  /\ NamedList(cs, c, m) \in AllLists /\ DOMAIN NamedList(cs, c, m) = DOMAIN cs \cup {c}
         /\ \A ch \in Channel \ {c} : Listed(NamedList(cs, c, m), ch) = Listed(cs, ch)
         /\ \E e : e.members = Listed(cs, c) /\ Listed(NamedList(cs, c, m), c) = AddAll(e, m).members
<1>9. PICK f : f = NamedList(cs, c, m)
  OBVIOUS
<1>1. PICK a \in AllLists : a = ChannelAdd(cs, c)
  BY AddIs
<1>2. DOMAIN a = DOMAIN cs \cup {c} /\ \A ch : Listed(a, ch) = Listed(cs, ch)
  BY <1>1, AddIs
<1>3. c \in DOMAIN a /\ a[c].members \in Rooms /\ a[c].members = Listed(cs, c)
  BY <1>2, ChannelListIs DEF Listed
<1>4. PICK e \in Entry : e = AddAll(a[c], m)
  BY <1>3, AddAllIs
<1>6. Put(f, a, c, e)
  BY <1>9, <1>1, <1>3, <1>4, ChannelListIs DEF Put, NamedList
<1>7. f \in AllLists /\ DOMAIN f = DOMAIN a /\ \A ch : Listed(f, ch) = IF ch = c THEN e.members ELSE Listed(a, ch)
  BY ONLY a \in AllLists, e \in Entry, <1>3, <1>6, PutIs
<1> QED BY <1>9, <1>2, <1>3, <1>4, <1>7

\* member_del (join.c:154)
LEMMA MemberDelIs ==
  ASSUME NEW cs \in AllLists, NEW c, NEW n
  PROVE  /\ MemberDel(cs, c, n) \in AllLists /\ DOMAIN MemberDel(cs, c, n) = DOMAIN cs
         /\ \A ch : Listed(MemberDel(cs, c, n), ch) = IF ch = c THEN Without(Listed(cs, ch), n) ELSE Listed(cs, ch)
<1>9. PICK f : f = MemberDel(cs, c, n)
  OBVIOUS
<1>0. Without(Nobody, n) = Nobody
  BY RoomsAre DEF Without
<1>1. CASE c \in DOMAIN cs
  <2>1. cs[c].members \in Rooms /\ cs[c].members = Listed(cs, c)
    BY <1>1, ChannelListIs DEF Listed
  <2>2. PICK m \in Rooms : m = Without(cs[c].members, n)
    BY <2>1, RoomsAre
  <2>3. Put(f, cs, c, [cs[c] EXCEPT !.members = m])
    BY <1>9, <1>1, <2>2, ChannelListIs DEF MemberDel, Put
  <2>4. f \in AllLists /\ DOMAIN f = DOMAIN cs /\ \A ch : Listed(f, ch) = IF ch = c THEN m ELSE Listed(cs, ch)
    BY ONLY cs \in AllLists, m \in Rooms, <1>1, <2>3, PutMembersIs
  <2> QED BY <1>9, <2>1, <2>2, <2>4
<1>2. CASE c \notin DOMAIN cs
  <2>1. f = cs /\ Listed(cs, c) = Nobody
    BY <1>9, <1>2 DEF MemberDel, Listed
  <2> QED BY <1>9, <1>0, <2>1
<1> QED BY <1>9, <1>1, <1>2

\* member_delall (join.c:163)
LEMMA MemberDelAllIs ==
  ASSUME NEW cs \in AllLists, NEW c
  PROVE  /\ MemberDelAll(cs, c) \in AllLists /\ DOMAIN MemberDelAll(cs, c) = DOMAIN cs
         /\ \A ch : Listed(MemberDelAll(cs, c), ch) = IF ch = c THEN Nobody ELSE Listed(cs, ch)
<1>9. PICK f : f = MemberDelAll(cs, c)
  OBVIOUS
<1>1. CASE c \in DOMAIN cs
  <2>1. Put(f, cs, c, [cs[c] EXCEPT !.members = Nobody])
    BY <1>9, <1>1, ChannelListIs DEF MemberDelAll, Put
  <2>2. Nobody \in Rooms
    BY RoomsAre
  <2> QED BY <1>9, <1>1, <2>1, <2>2, PutMembersIs
<1>2. CASE c \notin DOMAIN cs
  <2>1. f = cs /\ Listed(cs, c) = Nobody
    BY <1>9, <1>2 DEF MemberDelAll, Listed
  <2> QED BY <1>9, <2>1
<1> QED BY <1>9, <1>1, <1>2

\* What a mode line makes of the members
LEMMA ChannelModesType ==
  ASSUME NEW m \in Rooms, NEW cs \in Seq(Marks)
  PROVE  ChannelModes(m, cs) \in Rooms
<1>1. DOMAIN m \in SUBSET Nick /\ \A n \in DOMAIN m : m[n] \in BOOLEAN
  BY RoomsAre
<1>2. ASSUME NEW n, \E i \in DOMAIN cs : cs[i].nick = n PROVE cs[1].plus \in BOOLEAN
  <2>1. DOMAIN cs = 1 .. Len(cs) /\ Len(cs) \in Nat
    BY LenProperties
  <2>2. 1 \in 1 .. Len(cs)
    BY <1>2, <2>1
  <2>3. cs[1] \in Marks
    BY <2>2, ElementOfSeq
  <2> QED BY <2>3 DEF Marks
<1>3. ChannelModes(m, cs) \in [DOMAIN m -> BOOLEAN]
  BY <1>1, <1>2 DEF ChannelModes
<1> QED BY <1>1, <1>3 DEF Rooms

\* The case of MODE (join.c:572)
LEMMA ModedIs ==
  ASSUME NEW cs \in AllLists, NEW c \in Channel, NEW ms \in Seq(Marks)
  PROVE  /\ ModedList(cs, c, ms) \in AllLists /\ DOMAIN ModedList(cs, c, ms) = DOMAIN cs
         /\ Listed(ModedList(cs, c, ms), c) = ChannelModes(Listed(cs, c), ms)
         /\ \A ch \in Channel \ {c} : Listed(ModedList(cs, c, ms), ch) = Listed(cs, ch)
<1>9. PICK f : f = ModedList(cs, c, ms)
  OBVIOUS
<1>0. ChannelModes(Nobody, ms) = Nobody
  <2>1. ChannelModes(Nobody, ms) \in Rooms /\ DOMAIN ChannelModes(Nobody, ms) = {}
    BY RoomsAre, ChannelModesType DEF ChannelModes
  <2> QED BY <2>1, RoomsAre
<1>1. CASE c \in DOMAIN cs
  <2>1. cs[c].members \in Rooms /\ cs[c].members = Listed(cs, c)
    BY <1>1, ChannelListIs DEF Listed
  <2>2. PICK m \in Rooms : m = ChannelModes(cs[c].members, ms)
    BY <2>1, ChannelModesType
  <2>3. Put(f, cs, c, [cs[c] EXCEPT !.members = m])
    BY <1>9, <1>1, <2>2, ChannelListIs DEF Put, ModedList
  <2>4. f \in AllLists /\ DOMAIN f = DOMAIN cs /\ \A ch : Listed(f, ch) = IF ch = c THEN m ELSE Listed(cs, ch)
    BY ONLY cs \in AllLists, m \in Rooms, <1>1, <2>3, PutMembersIs
  <2> QED BY <1>9, <2>1, <2>2, <2>4
<1>2. CASE c \notin DOMAIN cs
  <2>1. f = cs /\ Listed(cs, c) = Nobody
    BY <1>9, <1>2 DEF Listed, ModedList
  <2> QED BY <1>9, <1>0, <2>1
<1> QED BY <1>9, <1>1, <1>2

\* nickchange in all channels (join.c:399)
LEMMA NickChangedIs ==
  ASSUME NEW cs \in AllLists, NEW u \in Other, NEW new \in Other \cup {""}
  PROVE  /\ NickChangeAll(cs, u, new) \in AllLists /\ DOMAIN NickChangeAll(cs, u, new) = DOMAIN cs
         /\ \A ch : Listed(NickChangeAll(cs, u, new), ch) = NickChange(Listed(cs, ch), u, new)
<1>9. PICK f : f = NickChangeAll(cs, u, new)
  OBVIOUS
<1>0. NickChange(Nobody, u, new) = Nobody
  BY RoomsAre DEF NickChange
<1>1. ASSUME NEW ch \in DOMAIN cs
      PROVE  f[ch] \in Entry /\ f[ch].members = NickChange(cs[ch].members, u, new)
  <2>1. cs[ch] \in Entry /\ cs[ch].members \in Rooms
    BY ChannelListIs
  <2>2. PICK m \in Rooms : m = NickChange(cs[ch].members, u, new)
    BY <2>1, ChangeIs
  <2>3. f[ch] = [cs[ch] EXCEPT !.members = m]
    BY <1>9, <2>2 DEF NickChangeAll
  <2> QED BY <2>1, <2>2, <2>3 DEF Entry
<1>2. DOMAIN f = DOMAIN cs /\ f = [ch \in DOMAIN cs |-> f[ch]]
  BY <1>9 DEF NickChangeAll
<1>3. f \in AllLists /\ \A ch : Listed(f, ch) = IF ch \in DOMAIN cs THEN f[ch].members ELSE Nobody
  BY <1>1, <1>2, EachIs
<1> QED BY <1>9, <1>0, <1>1, <1>2, <1>3 DEF Listed

-----------------------------------------------------------------------------
(* The bot reads a line (join.c:490-578): its lists follow it. *)
\* What is still to be read is not less but for the line.
LEMMA LeavesRead ==
  ASSUME NEW ch, NEW u, NEW d \in Seq(DownLines), d # <<>>, Leaves(ch, u, d), ~Leaving(ch, Head(d))
  PROVE  Leaves(ch, u, Tail(d))
<1>1. ToSet(d) = {Head(d)} \cup ToSet(Tail(d))
  BY ToSetTail
<1> QED BY <1>1 DEF Leaves, Leaving

\* The line takes nobody out whom the bot does not list.
Quietly(ch, l, bl, bl2, mx, mx2) == ~Leaving(ch, l) /\ (ch \in bl => ch \in bl2) /\ (ch \in mx => ch \in mx2)

\* Then it is enough that the lists agree with the new room.
LEMMA QuietRead ==
  ASSUME NEW ch \in Channel, NEW bl, NEW bl2, NEW mx, NEW mx2, NEW u, NEW d \in Seq(DownLines), d # <<>>,
         Quietly(ch, Head(d), bl, bl2, mx, mx2),
         NEW cs2, NEW r2, NEW v, v = Listed(cs2, ch), Agrees(v, r2, ch \in bl \/ Leaves(ch, u, d), ch \in mx)
  PROVE  Right(ch, cs2, bl2, mx2, u, Tail(d), r2)
<1>1. Leaves(ch, u, d) => Leaves(ch, u, Tail(d))
  BY LeavesRead DEF Quietly
<1>2. ch \in bl \/ Leaves(ch, u, d) => ch \in bl2 \/ Leaves(ch, u, Tail(d))
  BY <1>1 DEF Quietly
<1>3. ch \in mx => ch \in mx2
  BY DEF Quietly
<1>4. Agrees(v, r2, ch \in bl2 \/ Leaves(ch, u, Tail(d)), ch \in mx2)
  BY <1>2, <1>3 DEF Agrees
<1> QED BY <1>4 DEF Right

\* A line about another channel, or about none
LEMMA OtherRead ==
  ASSUME NEW ch \in Channel, NEW cs, NEW bl, NEW bl2, NEW mx, NEW mx2, NEW u, NEW d \in Seq(DownLines), d # <<>>,
         NEW q, Right(ch, cs, bl, mx, u, d, q), Quietly(ch, Head(d), bl, bl2, mx, mx2), RoomAfter(ch, Head(d), q) = q,
         NEW cs2, Listed(cs2, ch) = Listed(cs, ch)
  PROVE  Right(ch, cs2, bl2, mx2, u, Tail(d), RoomAfter(ch, Head(d), q))
<1>1. PICK v : v = Listed(cs2, ch)
  OBVIOUS
<1>2. Agrees(v, q, ch \in bl \/ Leaves(ch, u, d), ch \in mx)
  BY <1>1 DEF Right
<1> QED BY <1>1, <1>2, QuietRead

\* Which lines change no room
LEMMA OtherRoom ==
  ASSUME NEW ch \in Channel, NEW l \in DownLines, NEW q,
         l.what = "NOTICE" \/ (l.what \in {"JOIN", "353", "PART", "KICK", "MODE"} /\ l.ch # ch)
  PROVE  RoomAfter(ch, l, q) = q /\ ~Leaving(ch, l)
<1>1. RoomAfter(ch, l, q) = q
  BY DEF RoomAfter
<1>2. ~Leaving(ch, l)
  BY LineFields DEF Leaving
<1> QED BY <1>1, <1>2

\* JOIN (join.c:501)
LEMMA JoinRead ==
  ASSUME NEW ch \in Channel, NEW cs \in AllLists, NEW bl, NEW mx, NEW u, NEW d \in Seq(DownLines), d # <<>>,
         NEW q \in Closed, Legal(ch, Head(d), q), Right(ch, cs, bl, mx, u, d, q), Head(d).what = "JOIN",
         NEW cs2, cs2 = JoinedList(cs, Head(d).ch, Head(d).nick),
         NEW bl2, bl2 = IF Head(d).nick = Me THEN bl \ {Head(d).ch} ELSE bl
  PROVE  Right(ch, cs2, bl2, mx, u, Tail(d), RoomAfter(ch, Head(d), q))
<1>1. PICK l \in DownLines : l = Head(d)
  BY ToSetTail
<1>2. l.what = "JOIN" /\ l.ch \in Channel /\ l.nick \in Nick
  BY <1>1, DownLinesSpeak DEF Spoken
<1>3. PICK c \in Channel : c = l.ch
  BY <1>2
<1>4. PICK n \in Nick : n = l.nick
  BY <1>2
<1>5. /\ \A x \in Channel \ {c} : Listed(cs2, x) = Listed(cs, x)
      /\ n \notin DOMAIN Listed(cs, c) => Listed(cs2, c) = With(Listed(cs, c), n, FALSE)
  <2>1. cs2 = JoinedList(cs, c, n)
    BY <1>1, <1>3, <1>4
  <2>2. \A x \in Channel \ {c} : Listed(JoinedList(cs, c, n), x) = Listed(cs, x)
    BY JoinedIs, Zenon
  <2>3. n \notin DOMAIN Listed(cs, c) => Listed(JoinedList(cs, c, n), c) = With(Listed(cs, c), n, FALSE)
    BY JoinedIs, Zenon
  <2> QED BY ONLY <2>1, <2>2, <2>3
<1>6. ~Leaving(ch, l)
  BY <1>2, LineFields DEF Leaving
<1>7. CASE ch # c
  <2>1. RoomAfter(ch, l, q) = q
    BY <1>2, <1>3, <1>7, OtherRoom
  <2>2. Quietly(ch, l, bl, bl2, mx, mx)
    BY <1>1, <1>3, <1>6, <1>7 DEF Quietly
  <2>3. Listed(cs2, ch) = Listed(cs, ch)
    BY <1>5, <1>7
  <2> QED BY ONLY ch \in Channel, d \in Seq(DownLines), d # <<>>, Right(ch, cs, bl, mx, u, d, q), <1>1, <2>1, <2>2, <2>3, OtherRead
<1>8. CASE ch = c
  <2> DEFINE v == Listed(cs, ch)
             w == With(v, n, FALSE)
             s == With(q, n, FALSE)
  <2>1. v \in Rooms
    BY ChannelListIs
  <2>2. RoomAfter(ch, l, q) = s
    BY <1>2, <1>3, <1>4, <1>8 DEF RoomAfter
  <2>3. n \notin DOMAIN q /\ (n = Me \/ Me \in DOMAIN q)
    BY <1>1, <1>2, <1>3, <1>4, <1>8 DEF Legal
  <2>4. Agrees(v, q, ch \in bl \/ Leaves(ch, u, d), ch \in mx)
    BY DEF Right
  <2>5. n # Me => (ch \in bl \/ Leaves(ch, u, d) => ch \in bl2 \/ Leaves(ch, u, Tail(d)))
    BY <1>1, <1>4, <1>6, LeavesRead
  <2> HIDE DEF v
  <2>6. n \notin DOMAIN v /\ Agrees(w, s, ch \in bl2 \/ Leaves(ch, u, Tail(d)), ch \in mx)
    BY <2>1, <2>3, <2>4, <2>5, JoinAgrees
  <2>7. Listed(cs2, ch) = w
    BY <1>5, <1>8, <2>6 DEF v
  <2> HIDE DEF w, s
  <2> QED BY <1>1, <2>2, <2>6, <2>7 DEF Right
<1> QED BY <1>7, <1>8

\* 353 (join.c:503)
LEMMA NamesRead ==
  ASSUME NEW ch \in Channel, NEW cs \in AllLists, NEW bl, NEW mx, NEW u, NEW d \in Seq(DownLines), d # <<>>,
         NEW q \in Closed, Legal(ch, Head(d), q), Right(ch, cs, bl, mx, u, d, q), Head(d).what = "353",
         NEW cs2, cs2 = NamedList(cs, Head(d).ch, Head(d).members)
  PROVE  Right(ch, cs2, bl, mx, u, Tail(d), RoomAfter(ch, Head(d), q))
<1>1. PICK l \in DownLines : l = Head(d)
  BY ToSetTail
<1>2. l.what = "353" /\ l.ch \in Channel /\ l.members \in Rooms
  BY <1>1, DownLinesSpeak DEF Spoken
<1>3. PICK c \in Channel : c = l.ch
  BY <1>2
<1>4. PICK m \in Rooms : m = l.members
  BY <1>2
<1>5. /\ \A x \in Channel \ {c} : Listed(cs2, x) = Listed(cs, x)
      /\ \E e : e.members = Listed(cs, c) /\ Listed(cs2, c) = AddAll(e, m).members
  <2>1. cs2 = NamedList(cs, c, m)
    BY <1>1, <1>3, <1>4
  <2>2. \A x \in Channel \ {c} : Listed(NamedList(cs, c, m), x) = Listed(cs, x)
    BY NamedIs, Zenon
  <2>3. \E e : e.members = Listed(cs, c) /\ Listed(NamedList(cs, c, m), c) = AddAll(e, m).members
    BY NamedIs, Zenon
  <2> QED BY ONLY <2>1, <2>2, <2>3
<1>7. CASE ch # c
  <2>1. RoomAfter(ch, l, q) = q /\ ~Leaving(ch, l)
    BY <1>2, <1>3, <1>7, OtherRoom
  <2>2. Quietly(ch, l, bl, bl, mx, mx)
    BY <2>1 DEF Quietly
  <2>3. Listed(cs2, ch) = Listed(cs, ch)
    BY <1>5, <1>7
  <2> QED BY ONLY ch \in Channel, d \in Seq(DownLines), d # <<>>, Right(ch, cs, bl, mx, u, d, q), <1>1, <2>1, <2>2, <2>3, OtherRead
<1>8. CASE ch = c
  <2>1. RoomAfter(ch, l, q) = m
    BY <1>2, <1>3, <1>4, <1>8 DEF RoomAfter
  <2>2. DOMAIN q = {Me} /\ Me \in DOMAIN m
    BY <1>1, <1>2, <1>3, <1>4, <1>8 DEF Legal
  <2>3. DOMAIN Listed(cs, c) \subseteq {Me}
    BY <1>8, <2>2 DEF Right, Agrees
  <2>4. PICK e : e.members = Listed(cs, c) /\ Listed(cs2, c) = AddAll(e, m).members
    BY <1>5
  <2>5. Agrees(AddAll(e, m).members, m, FALSE, FALSE)
    BY <2>2, <2>3, <2>4, NamesAgree
  <2>6. Agrees(Listed(cs2, c), m, FALSE, FALSE)
    BY <2>4, <2>5
  <2>7. Agrees(Listed(cs2, c), m, ch \in bl \/ Leaves(ch, u, Tail(d)), ch \in mx)
    BY <2>6 DEF Agrees
  <2> QED BY <1>1, <1>8, <2>1, <2>7 DEF Right
<1> QED BY <1>7, <1>8

\* The ghosts of the channel in the line are wiped when the bot leaves it.
Wiped(set, l) == IF l.nick = Me THEN set \ {l.ch} ELSE set

\* PART and KICK (join.c:512, 517)
LEMMA PartRead ==
  ASSUME NEW ch \in Channel, NEW cs \in AllLists, NEW bl, NEW mx, NEW u, NEW d \in Seq(DownLines), d # <<>>,
         NEW q \in Closed, Right(ch, cs, bl, mx, u, d, q), Head(d).what \in {"PART", "KICK"},
         NEW cs2, \A x : Listed(cs2, x) = IF x # Head(d).ch THEN Listed(cs, x)
                                          ELSE IF Head(d).nick = Me THEN Nobody ELSE Without(Listed(cs, x), Head(d).nick)
  PROVE  Right(ch, cs2, Wiped(bl, Head(d)), Wiped(mx, Head(d)), u, Tail(d), RoomAfter(ch, Head(d), q))
<1>1. PICK l \in DownLines : l = Head(d)
  BY ToSetTail
<1>2. l.what \in {"PART", "KICK"} /\ l.ch \in Channel /\ l.nick \in Nick
  BY <1>1, DownLinesSpeak DEF Spoken
<1>3. PICK bl2, mx2 : bl2 = Wiped(bl, l) /\ mx2 = Wiped(mx, l)
  OBVIOUS
<1>4. CASE ch # l.ch
  <2>1. RoomAfter(ch, l, q) = q /\ ~Leaving(ch, l)
    BY <1>2, <1>4, OtherRoom
  <2>2. Quietly(ch, l, bl, bl2, mx, mx2)
    BY <1>3, <1>4, <2>1 DEF Quietly, Wiped
  <2>3. Listed(cs2, ch) = Listed(cs, ch)
    BY <1>1, <1>4
  <2> QED BY ONLY ch \in Channel, d \in Seq(DownLines), d # <<>>, Right(ch, cs, bl, mx, u, d, q), <1>1, <1>3, <2>1, <2>2, <2>3, OtherRead
<1>5. CASE ch = l.ch /\ l.nick = Me
  <2>1. RoomAfter(ch, l, q) = Nobody
    BY <1>2, <1>5 DEF RoomAfter
  <2>2. Listed(cs2, ch) = Nobody
    BY <1>1, <1>5
  <2>3. Agrees(Nobody, Nobody, ch \in bl2 \/ Leaves(ch, u, Tail(d)), ch \in mx2)
    BY RoomsAre DEF Agrees
  <2> QED BY <1>1, <1>3, <2>1, <2>2, <2>3 DEF Right
<1>6. CASE ch = l.ch /\ l.nick # Me
  <2>1. l # Parted(ch, Me) /\ l # Kicked(ch, Me) /\ l # Welcoming
    BY <1>2, <1>6, LineFields
  <2>2. Quietly(ch, l, bl, bl2, mx, mx2)
    BY <1>3, <1>6, <2>1 DEF Quietly, Wiped, Leaving
  <2>3. RoomAfter(ch, l, q) = Without(q, l.nick)
    BY <1>2, <1>6 DEF RoomAfter
  <2>4. PICK v \in Rooms : v = Listed(cs, ch)
    BY ChannelListIs
  <2>5. Listed(cs2, ch) = Without(v, l.nick)
    BY <1>1, <1>6, <2>4
  <2>6. q \in Rooms /\ Agrees(v, q, ch \in bl \/ Leaves(ch, u, d), ch \in mx)
    BY <2>4 DEF Closed, Right
  <2>7. Agrees(Without(v, l.nick), Without(q, l.nick), ch \in bl \/ Leaves(ch, u, d), ch \in mx)
    BY <2>6, LeaveAgrees
  <2>8. Agrees(Listed(cs2, ch), RoomAfter(ch, l, q), ch \in bl \/ Leaves(ch, u, d), ch \in mx)
    BY <2>3, <2>5, <2>7
  <2> QED BY ONLY ch \in Channel, d \in Seq(DownLines), d # <<>>, <1>1, <1>3, <2>2, <2>8, QuietRead
<1> QED BY <1>4, <1>5, <1>6

\* The words of the lines that take the bot out
LEMMA LeavingWords == \A ch, l : Leaving(ch, l) => l.what \in {"001", "PART", "KICK"}
<1>1. \A ch : Parted(ch, Me).what = "PART" /\ Kicked(ch, Me).what = "KICK" /\ Welcoming.what = "001"
  BY DEF Parted, Kicked, Welcoming
<1> QED BY <1>1 DEF Leaving

\* NICK (join.c:568)
LEMMA NickRead ==
  ASSUME NEW ch \in Channel, NEW cs \in AllLists, NEW bl, NEW mx, NEW u, NEW d \in Seq(DownLines), d # <<>>,
         NEW q \in Closed, Legal(ch, Head(d), q), Right(ch, cs, bl, mx, u, d, q), Head(d).what = "NICK",
         NEW cs2, cs2 = NickChangeAll(cs, Head(d).nick, Head(d).new)
  PROVE  Right(ch, cs2, bl, mx, u, Tail(d), RoomAfter(ch, Head(d), q))
<1>1. PICK l \in DownLines : l = Head(d)
  BY ToSetTail
<1>2. l.what = "NICK" /\ l.nick \in Other /\ l.new \in Other
  BY <1>1, DownLinesSpeak DEF Spoken
<1>3. PICK n \in Other, new \in Other : n = l.nick /\ new = l.new
  BY <1>2
<1>4. PICK v \in Rooms : v = Listed(cs, ch)
  BY ChannelListIs
<1>5. Listed(cs2, ch) = NickChange(v, n, new)
  <2>1. cs2 = NickChangeAll(cs, n, new)
    BY <1>1, <1>3
  <2>2. Listed(NickChangeAll(cs, n, new), ch) = NickChange(Listed(cs, ch), n, new)
    BY NickChangedIs, Zenon
  <2> QED BY ONLY <1>4, <2>1, <2>2
<1>6. RoomAfter(ch, l, q) = NickChange(q, n, new)
  BY <1>2, <1>3 DEF RoomAfter
<1>7. new \notin DOMAIN q /\ q \in Rooms /\ Agrees(v, q, ch \in bl \/ Leaves(ch, u, d), ch \in mx)
  BY <1>1, <1>2, <1>3, <1>4 DEF Legal, Right, Closed
<1>8. Agrees(NickChange(v, n, new), NickChange(q, n, new), ch \in bl \/ Leaves(ch, u, d), ch \in mx)
  BY <1>7, NickAgrees
<1>9. Agrees(Listed(cs2, ch), RoomAfter(ch, l, q), ch \in bl \/ Leaves(ch, u, d), ch \in mx)
  BY <1>5, <1>6, <1>8
<1>10. ~Leaving(ch, l)
  BY <1>2, LeavingWords
<1>11. Quietly(ch, l, bl, bl, mx, mx)
  BY <1>10 DEF Quietly
<1> QED BY ONLY ch \in Channel, d \in Seq(DownLines), d # <<>>, <1>1, <1>9, <1>11, QuietRead

\* QUIT (join.c:570)
LEMMA QuitRead ==
  ASSUME NEW ch \in Channel, NEW cs \in AllLists, NEW bl, NEW mx, NEW u, NEW d \in Seq(DownLines), d # <<>>,
         NEW q \in Closed, Right(ch, cs, bl, mx, u, d, q), Head(d).what = "QUIT",
         NEW cs2, cs2 = NickChangeAll(cs, Head(d).nick, "")
  PROVE  Right(ch, cs2, bl, mx, u, Tail(d), RoomAfter(ch, Head(d), q))
<1>1. PICK l \in DownLines : l = Head(d)
  BY ToSetTail
<1>2. l.what = "QUIT" /\ l.nick \in Other
  BY <1>1, DownLinesSpeak DEF Spoken
<1>3. PICK n \in Other : n = l.nick
  BY <1>2
<1>4. PICK v \in Rooms : v = Listed(cs, ch)
  BY ChannelListIs
<1>5. Listed(cs2, ch) = Without(v, n)
  <2>1. cs2 = NickChangeAll(cs, n, "") /\ "" \in Other \cup {""}
    BY <1>1, <1>3
  <2>2. Listed(NickChangeAll(cs, n, ""), ch) = NickChange(Listed(cs, ch), n, "")
    BY <2>1, NickChangedIs, Zenon
  <2>3. NickChange(v, n, "") = IF n \in DOMAIN v THEN Without(v, n) ELSE v
    BY DEF NickChange
  <2>4. n \notin DOMAIN v => Without(v, n) = v
    <3>1. PICK S \in SUBSET Nick : v \in [S -> BOOLEAN]
      BY DEF Rooms
    <3>2. ASSUME n \notin DOMAIN v PROVE [z \in S \ {n} |-> v[z]] = [z \in S |-> v[z]]
      <4>1. S \ {n} = S
        BY <3>1, <3>2
      <4> QED BY <4>1
    <3>3. v = [z \in S |-> v[z]] /\ DOMAIN v = S
      BY <3>1
    <3> QED BY <3>2, <3>3 DEF Without
  <2> QED BY ONLY <1>4, <2>1, <2>2, <2>3, <2>4
<1>6. RoomAfter(ch, l, q) = Without(q, n)
  BY <1>2, <1>3 DEF RoomAfter
<1>7. q \in Rooms /\ Agrees(v, q, ch \in bl \/ Leaves(ch, u, d), ch \in mx)
  BY <1>4 DEF Right, Closed
<1>8. Agrees(Without(v, n), Without(q, n), ch \in bl \/ Leaves(ch, u, d), ch \in mx)
  BY <1>7, LeaveAgrees
<1>9. Agrees(Listed(cs2, ch), RoomAfter(ch, l, q), ch \in bl \/ Leaves(ch, u, d), ch \in mx)
  BY <1>5, <1>6, <1>8
<1>10. ~Leaving(ch, l)
  BY <1>2, LeavingWords
<1>11. Quietly(ch, l, bl, bl, mx, mx)
  BY <1>10 DEF Quietly
<1> QED BY ONLY ch \in Channel, d \in Seq(DownLines), d # <<>>, <1>1, <1>9, <1>11, QuietRead

\* What a line of two signs makes sure of no more
Mixed(mx, l) == IF \E i \in DOMAIN l.changes : l.changes[i].plus # l.changes[1].plus THEN mx \cup {l.ch} ELSE mx

\* MODE (join.c:572)
LEMMA ModeRead ==
  ASSUME NEW ch \in Channel, NEW cs \in AllLists, NEW bl, NEW mx, NEW u, NEW d \in Seq(DownLines), d # <<>>,
         NEW q \in Closed, Right(ch, cs, bl, mx, u, d, q), Head(d).what = "MODE",
         NEW cs2, cs2 = ModedList(cs, Head(d).ch, Head(d).changes)
  PROVE  Right(ch, cs2, bl, Mixed(mx, Head(d)), u, Tail(d), RoomAfter(ch, Head(d), q))
<1>1. PICK l \in DownLines : l = Head(d)
  BY ToSetTail
<1>2. l.what = "MODE" /\ l.ch \in Channel /\ l.changes \in Seq(Marks)
  BY <1>1, DownLinesSpeak DEF Spoken
<1>3. PICK c \in Channel, ms \in Seq(Marks) : c = l.ch /\ ms = l.changes
  BY <1>2
<1>4. PICK v \in Rooms : v = Listed(cs, ch)
  BY ChannelListIs
<1>5. Listed(cs2, ch) = IF ch = c THEN ChannelModes(v, ms) ELSE v
  <2>1. cs2 = ModedList(cs, c, ms)
    BY <1>1, <1>3
  <2>2. Listed(ModedList(cs, c, ms), c) = ChannelModes(Listed(cs, c), ms)
    BY ModedIs, Zenon
  <2>3. \A x \in Channel \ {c} : Listed(ModedList(cs, c, ms), x) = Listed(cs, x)
    BY ModedIs, Zenon
  <2> QED BY ONLY <1>4, <2>1, <2>2, <2>3
<1>6. PICK mx2 : mx2 = Mixed(mx, l)
  OBVIOUS
<1>7. (ch \in mx => ch \in mx2) /\ (ch = c /\ (\E i \in DOMAIN ms : ms[i].plus # ms[1].plus) => ch \in mx2)
  BY <1>3, <1>6 DEF Mixed
<1>8. ~Leaving(ch, l)
  BY <1>2, LeavingWords
<1>9. Quietly(ch, l, bl, bl, mx, mx2)
  BY <1>7, <1>8 DEF Quietly
<1>10. CASE ch # c
  <2>1. RoomAfter(ch, l, q) = q
    BY <1>2, <1>3, <1>10, OtherRoom
  <2>2. Listed(cs2, ch) = Listed(cs, ch)
    BY <1>4, <1>5, <1>10
  <2> QED BY ONLY ch \in Channel, d \in Seq(DownLines), d # <<>>, Right(ch, cs, bl, mx, u, d, q), <1>1, <1>6, <1>9, <2>1, <2>2, OtherRead
<1>11. CASE ch = c
  <2>1. RoomAfter(ch, l, q) = ModesOf(q, ms)
    BY <1>2, <1>3, <1>11 DEF RoomAfter
  <2>2. q \in Rooms /\ Agrees(v, q, ch \in bl \/ Leaves(ch, u, d), ch \in mx)
    BY <1>4 DEF Right, Closed
  <2>3. ch \in mx => ch \in mx2
    BY <1>7
  <2>7. (\E i \in DOMAIN ms : ms[i].plus # ms[1].plus) => ch \in mx2
    BY <1>7, <1>11
  <2>4. Agrees(ChannelModes(v, ms), ModesOf(q, ms), ch \in bl \/ Leaves(ch, u, d), ch \in mx2)
    BY <2>2, <2>3, <2>7, ModesAgree
  <2>5. Agrees(Listed(cs2, ch), RoomAfter(ch, l, q), ch \in bl \/ Leaves(ch, u, d), ch \in mx2)
    BY <1>5, <1>11, <2>1, <2>4
  <2>6. Quietly(ch, l, bl, bl, mx2, mx2)
    BY <1>8 DEF Quietly
  <2> QED BY ONLY ch \in Channel, d \in Seq(DownLines), d # <<>>, <1>1, <1>6, <2>5, <2>6, QuietRead
<1> QED BY <1>10, <1>11

\* A line of no channel that only the gate reads
LEMMA NoticeRead ==
  ASSUME NEW ch \in Channel, NEW cs \in AllLists, NEW bl, NEW mx, NEW u, NEW d \in Seq(DownLines), d # <<>>,
         NEW q \in Closed, Right(ch, cs, bl, mx, u, d, q), Head(d).what = "NOTICE"
  PROVE  Right(ch, cs, bl, mx, u, Tail(d), RoomAfter(ch, Head(d), q))
<1>1. PICK l \in DownLines : l = Head(d)
  BY ToSetTail
<1>2. RoomAfter(ch, l, q) = q /\ ~Leaving(ch, l)
  BY <1>1, OtherRoom
<1>3. Quietly(ch, l, bl, bl, mx, mx)
  BY <1>2 DEF Quietly
<1> QED BY ONLY ch \in Channel, d \in Seq(DownLines), d # <<>>, Right(ch, cs, bl, mx, u, d, q), <1>1, <1>2, <1>3, OtherRead

\* Numeric 1: member_delall for every channel (join.c:497).
LEMMA WelcomeRead ==
  ASSUME NEW ch \in Channel, NEW u, NEW d \in Seq(DownLines), d # <<>>, Head(d).what = "001",
         NEW q, NEW cs2, NEW bl2, NEW mx2, Listed(cs2, ch) = Nobody, NEW u2
  PROVE  Right(ch, cs2, bl2, mx2, u2, Tail(d), RoomAfter(ch, Head(d), q))
<1>1. RoomAfter(ch, Head(d), q) = Nobody
  BY DEF RoomAfter
<1>2. Agrees(Nobody, Nobody, ch \in bl2 \/ Leaves(ch, u2, Tail(d)), ch \in mx2)
  BY RoomsAre DEF Agrees
<1> QED BY <1>1, <1>2 DEF Right

\* try_rejoin sends one JOIN for each of the channels, and nothing else (join.c:383).
LEMMA JoinLinesAre ==
  ASSUME NEW S \in SUBSET Channel
  PROVE  /\ JoinLines(S) \in Seq(UpLines)
         /\ \A l \in ToSet(JoinLines(S)) : \E ch \in S : l = Ordered(ch)
<1> DEFINE T == {Ordered(ch) : ch \in S}
           f == [ch \in S |-> Ordered(ch)]
<1>1. IsFiniteSet(S)
  BY ChannelsAssumption, FS_Subset
<1>2. ExistsBijection(S, T)
  <2>1. f \in [S -> T] /\ \A t \in T : \E ch \in S : f[ch] = t
    OBVIOUS
  <2>2. \A a, b \in S : f[a] = f[b] => a = b
    BY DEF Ordered
  <2>3. f \in Bijection(S, T)
    BY <2>1, <2>2 DEF Bijection, Injection, Surjection, IsInjective
  <2> QED BY <2>3 DEF ExistsBijection
<1> HIDE DEF f
<1>3. PICK n : n = Cardinality(T)
  OBVIOUS
<1>4. n \in Nat /\ ExistsBijection(1 .. n, T)
  BY <1>1, <1>2, <1>3, FS_Bijection, FS_CardinalityType
<1>5. \E g \in [1 .. n -> T] : IsInjective(g)
  <2>1. PICK g \in Bijection(1 .. n, T) : TRUE
    BY <1>4 DEF ExistsBijection
  <2> QED BY <2>1 DEF Bijection, Injection
<1>6. JoinLines(S) = CHOOSE g \in [1 .. n -> T] : IsInjective(g)
  BY <1>3 DEF JoinLines, SetToSeq
<1>7. JoinLines(S) \in [1 .. n -> T]
  BY <1>5, <1>6, Zenon
<1>8. JoinLines(S) \in Seq(T)
  BY <1>4, <1>7, SeqDef
<1>9. T \subseteq UpLines
  BY LineTypes
<1>10. JoinLines(S) \in Seq(UpLines)
  BY <1>4, <1>7, <1>9, SeqDef
<1>11. ToSet(JoinLines(S)) \subseteq T
  BY <1>8, ToSetIs
<1> QED BY <1>10, <1>11

\* Without one who is not there
LEMMA WithoutNone == \A r \in Rooms : \A n : n \notin DOMAIN r => Without(r, n) = r
<1> SUFFICES ASSUME NEW r \in Rooms, NEW n, n \notin DOMAIN r PROVE Without(r, n) = r
  OBVIOUS
<1>1. PICK S \in SUBSET Nick : r \in [S -> BOOLEAN]
  BY DEF Rooms
<1>2. r = [z \in S |-> r[z]] /\ DOMAIN r = S /\ S \ {n} = S
  BY <1>1
<1>3. Without(r, n) = [z \in S |-> r[z]]
  BY <1>2 DEF Without
<1> QED BY <1>2, <1>3

-----------------------------------------------------------------------------
(* What the server has told the bot of a channel *)

Seen(sv, ch) == IF Me \in DOMAIN sv[ch] THEN sv[ch] ELSE Nobody

\* It is a room the bot is in, or there is nobody.
LEMMA SeenIs ==
  ASSUME NEW sv \in [Channel -> Rooms], NEW ch \in Channel
  PROVE  /\ Seen(sv, ch) \in Closed /\ Seen(sv, ch) \in Rooms
         /\ Me \in DOMAIN Seen(sv, ch) <=> Me \in DOMAIN sv[ch]
         /\ Seen(sv, ch) = Nobody <=> Me \notin DOMAIN sv[ch]
         /\ DOMAIN Seen(sv, ch) \subseteq DOMAIN sv[ch]
<1>1. sv[ch] \in Rooms
  OBVIOUS
<1>2. Seen(sv, ch) \in Rooms /\ DOMAIN Nobody = {}
  BY <1>1, RoomsAre DEF Seen
<1>3. CASE Me \in DOMAIN sv[ch]
  BY <1>2, <1>3 DEF Seen, Closed
<1>4. CASE Me \notin DOMAIN sv[ch]
  BY <1>2, <1>4 DEF Seen, Closed
<1> QED BY <1>3, <1>4

\* The server says a line, or nothing that changes a room that the bot sees.
SaidLine(on, d, sv, d2, sv2, l) ==
  /\ on /\ l # Welcoming /\ d2 = d \o <<l>>
  /\ \A ch \in Channel : Legal(ch, l, Seen(sv, ch)) /\ Seen(sv2, ch) = RoomAfter(ch, l, Seen(sv, ch))

Says(on, d, sv, d2, sv2) ==
  \/ d2 = d /\ \A ch \in Channel : Seen(sv2, ch) = Seen(sv, ch)
  \/ \E l \in DownLines : SaidLine(on, d, sv, d2, sv2, l)

\* A line about one channel, heard or not
LEMMA OneChannel ==
  ASSUME NEW sv \in [Channel -> Rooms], NEW c \in Channel, NEW r \in Rooms, NEW sv2, sv2 = [sv EXCEPT ![c] = r],
         NEW on, NEW d, NEW d2, NEW l \in DownLines, l.what \in {"JOIN", "PART", "KICK", "MODE"}, l.ch = c,
         \A ch \in Channel : Me \in DOMAIN sv[ch] => on,
         Me \in DOMAIN sv[c] => /\ d2 = d \o <<l>> /\ Legal(c, l, sv[c])
                                /\ Me \in DOMAIN r => RoomAfter(c, l, sv[c]) = r
                                /\ Me \notin DOMAIN r => RoomAfter(c, l, sv[c]) = Nobody,
         Me \notin DOMAIN sv[c] => d2 = d /\ Me \notin DOMAIN r
  PROVE  sv2 \in [Channel -> Rooms] /\ Says(on, d, sv, d2, sv2)
<1>1. /\ sv2 \in [Channel -> Rooms] /\ Seen(sv2, c) = IF Me \in DOMAIN r THEN r ELSE Nobody
      /\ \A ch \in Channel \ {c} : Seen(sv2, ch) = Seen(sv, ch)
  BY DEF Seen
<1>2. CASE Me \in DOMAIN sv[c]
  <2>1. on /\ d2 = d \o <<l>> /\ l # Welcoming /\ Seen(sv, c) = sv[c]
    BY <1>2, LineFields DEF Seen
  <2>2. ASSUME NEW ch \in Channel, ch # c
        PROVE  Legal(ch, l, Seen(sv, ch)) /\ Seen(sv2, ch) = RoomAfter(ch, l, Seen(sv, ch))
    <3>1. Seen(sv2, ch) = Seen(sv, ch)
      BY <1>1, <2>2
    <3>2. \A q : RoomAfter(ch, l, q) = q
      BY <2>2, OtherRoom
    <3>3. \A q : Legal(ch, l, q)
      BY <2>2 DEF Legal
    <3> QED BY <3>1, <3>2, <3>3
  <2>3. Legal(c, l, Seen(sv, c)) /\ Seen(sv2, c) = RoomAfter(c, l, Seen(sv, c))
    BY <1>1, <1>2, <2>1
  <2>4. SaidLine(on, d, sv, d2, sv2, l)
    BY <2>1, <2>2, <2>3 DEF SaidLine
  <2> QED BY <1>1, <2>4 DEF Says
<1>3. CASE Me \notin DOMAIN sv[c]
  <2>1. d2 = d /\ Seen(sv2, c) = Seen(sv, c)
    BY <1>1, <1>3 DEF Seen
  <2> QED BY <1>1, <2>1 DEF Says
<1> QED BY <1>2, <1>3

\* The members everywhere with a new nick
AllRenamed(sv, u, new) ==
  [ch \in Channel |-> IF u \in DOMAIN sv[ch] THEN With(Without(sv[ch], u), new, sv[ch][u]) ELSE sv[ch]]

\* NICK is heard where the user shares a channel with the bot.
LEMMA RenameSays ==
  ASSUME NEW sv \in [Channel -> Rooms], NEW u \in Other, NEW new \in Other, \A ch \in Channel : new \notin DOMAIN sv[ch],
         NEW sv2, sv2 = AllRenamed(sv, u, new),
         NEW on, NEW d, NEW d2, \A ch \in Channel : Me \in DOMAIN sv[ch] => on,
         NEW heard, heard <=> \E ch \in Channel : {Me, u} \subseteq DOMAIN sv[ch],
         heard => d2 = d \o <<NickLine(u, new)>>, ~heard => d2 = d
  PROVE  sv2 \in [Channel -> Rooms] /\ Says(on, d, sv, d2, sv2)
<1>1. PICK l \in DownLines : l = NickLine(u, new)
  BY LineTypes
<1>2. l.what = "NICK" /\ l.nick = u /\ l.new = new /\ l # Welcoming
  BY <1>1, LineFields
<1>3. ASSUME NEW ch \in Channel
      PROVE  /\ sv2[ch] = NickChange(sv[ch], u, new) /\ sv2[ch] \in Rooms
             /\ Me \in DOMAIN sv2[ch] <=> Me \in DOMAIN sv[ch]
  <2>1. PICK r \in Rooms : r = sv[ch]
    OBVIOUS
  <2>2. /\ NickChange(r, u, new) = IF u \in DOMAIN r THEN With(Without(r, u), new, r[u]) ELSE r
        /\ NickChange(r, u, new) \in Rooms /\ (Me \in DOMAIN NickChange(r, u, new) <=> Me \in DOMAIN r)
    BY ChangeIs
  <2>3. sv2[ch] = NickChange(r, u, new)
    BY <2>1, <2>2 DEF AllRenamed
  <2> QED BY <2>1, <2>2, <2>3
<1>4. sv2 \in [Channel -> Rooms]
  BY <1>3 DEF AllRenamed
<1>5. CASE heard
  <2>1. on /\ d2 = d \o <<l>>
    BY <1>1, <1>5
  <2>2. ASSUME NEW ch \in Channel
        PROVE  Legal(ch, l, Seen(sv, ch)) /\ Seen(sv2, ch) = RoomAfter(ch, l, Seen(sv, ch))
    <3>1. Legal(ch, l, Seen(sv, ch))
      BY <1>2, SeenIs DEF Legal
    <3>2. RoomAfter(ch, l, Seen(sv, ch)) = NickChange(Seen(sv, ch), u, new)
      BY <1>2 DEF RoomAfter
    <3>3. CASE Me \in DOMAIN sv[ch]
      BY <1>3, <3>1, <3>2, <3>3 DEF Seen
    <3>4. CASE Me \notin DOMAIN sv[ch]
      <4>1. Seen(sv, ch) = Nobody /\ Seen(sv2, ch) = Nobody
        BY <1>3, <3>4 DEF Seen
      <4>2. NickChange(Nobody, u, new) = Nobody
        BY RoomsAre DEF NickChange
      <4> QED BY <3>1, <3>2, <4>1, <4>2
    <3> QED BY <3>3, <3>4
  <2>3. SaidLine(on, d, sv, d2, sv2, l)
    BY <1>2, <2>1, <2>2 DEF SaidLine
  <2> QED BY <1>4, <2>3 DEF Says
<1>6. CASE ~heard
  <2>1. ASSUME NEW ch \in Channel PROVE Seen(sv2, ch) = Seen(sv, ch)
    <3>1. CASE Me \in DOMAIN sv[ch]
      <4>1. u \notin DOMAIN sv[ch]
        BY <1>6, <3>1
      <4> QED BY <4>1 DEF Seen, AllRenamed
    <3>2. CASE Me \notin DOMAIN sv[ch]
      BY <1>3, <3>2 DEF Seen
    <3> QED BY <3>1, <3>2
  <2> QED BY <1>4, <1>6, <2>1 DEF Says
<1> QED BY <1>5, <1>6

\* And so is QUIT.
LEMMA QuitSays ==
  ASSUME NEW sv \in [Channel -> Rooms], NEW u \in Other, NEW sv2, sv2 = [ch \in Channel |-> Without(sv[ch], u)],
         NEW on, NEW d, NEW d2, \A ch \in Channel : Me \in DOMAIN sv[ch] => on,
         NEW heard, heard <=> \E ch \in Channel : {Me, u} \subseteq DOMAIN sv[ch],
         heard => d2 = d \o <<QuitLine(u)>>, ~heard => d2 = d
  PROVE  sv2 \in [Channel -> Rooms] /\ Says(on, d, sv, d2, sv2)
<1>1. PICK l \in DownLines : l = QuitLine(u)
  BY LineTypes
<1>2. l.what = "QUIT" /\ l.nick = u /\ l # Welcoming
  BY <1>1, LineFields
<1>3. ASSUME NEW ch \in Channel
      PROVE  sv2[ch] = Without(sv[ch], u) /\ sv2[ch] \in Rooms /\ (Me \in DOMAIN sv2[ch] <=> Me \in DOMAIN sv[ch])
  <2>1. sv2[ch] = Without(sv[ch], u) /\ u # Me
    BY ChannelsAssumption
  <2> QED BY <2>1, RoomsAre DEF Without
<1>4. sv2 \in [Channel -> Rooms]
  BY <1>3
<1>5. CASE heard
  <2>1. on /\ d2 = d \o <<l>>
    BY <1>1, <1>5
  <2>2. ASSUME NEW ch \in Channel
        PROVE  Legal(ch, l, Seen(sv, ch)) /\ Seen(sv2, ch) = RoomAfter(ch, l, Seen(sv, ch))
    <3>1. Legal(ch, l, Seen(sv, ch))
      BY <1>2 DEF Legal
    <3>2. RoomAfter(ch, l, Seen(sv, ch)) = Without(Seen(sv, ch), u)
      BY <1>2 DEF RoomAfter
    <3>3. CASE Me \in DOMAIN sv[ch]
      BY <1>3, <3>1, <3>2, <3>3 DEF Seen
    <3>4. CASE Me \notin DOMAIN sv[ch]
      <4>1. Seen(sv, ch) = Nobody /\ Seen(sv2, ch) = Nobody
        BY <1>3, <3>4 DEF Seen
      <4>2. Without(Nobody, u) = Nobody
        BY RoomsAre, WithoutNone
      <4> QED BY <3>1, <3>2, <4>1, <4>2
    <3> QED BY <3>3, <3>4
  <2>3. SaidLine(on, d, sv, d2, sv2, l)
    BY <1>2, <2>1, <2>2 DEF SaidLine
  <2> QED BY <1>4, <2>3 DEF Says
<1>6. CASE ~heard
  <2>1. ASSUME NEW ch \in Channel PROVE Seen(sv2, ch) = Seen(sv, ch)
    <3>1. CASE Me \in DOMAIN sv[ch]
      <4>1. u \notin DOMAIN sv[ch]
        BY <1>6, <3>1
      <4>2. sv2[ch] = sv[ch]
        BY <1>3, <4>1, WithoutNone
      <4> QED BY <4>2 DEF Seen
    <3>2. CASE Me \notin DOMAIN sv[ch]
      BY <1>3, <3>2 DEF Seen
    <3> QED BY <3>1, <3>2
  <2> QED BY <1>4, <1>6, <2>1 DEF Says
<1> QED BY <1>5, <1>6

-----------------------------------------------------------------------------
(* The invariants *)

ChannelsTyped ==
  /\ srv \in [Channel -> Rooms] /\ online \in BOOLEAN /\ down \in Seq(DownLines) /\ up \in Seq(UpLines)
  /\ chans \in AllLists /\ ordered \in SUBSET Channel

Views(cs, bl, mx, u, d, sv) == \A ch \in Channel : StoryOf(ch, cs, bl, mx, u, d, Seen(sv, ch))

\* Numeric 1 comes first.
WelcomedFirst(d) == d # <<>> => Welcoming \notin ToSet(Tail(d))

ViewInv ==
  /\ ~online => down = <<>> /\ \A ch \in Channel : Me \notin DOMAIN srv[ch]
  /\ WelcomedFirst(down)
  /\ online => Views(chans, blind, mixed, up, down, srv)

\* A line behind the others is not the first, and one less leaves none but those behind it.
LEMMA FirstStays ==
  ASSUME NEW d \in Seq(DownLines), WelcomedFirst(d)
  PROVE  /\ \A l \in DownLines : l # Welcoming => d \o <<l>> \in Seq(DownLines) /\ WelcomedFirst(d \o <<l>>)
         /\ d # <<>> => Tail(d) \in Seq(DownLines) /\ WelcomedFirst(Tail(d)) /\ Welcoming \notin ToSet(Tail(d))
<1>1. ASSUME NEW l \in DownLines, l # Welcoming PROVE d \o <<l>> \in Seq(DownLines) /\ WelcomedFirst(d \o <<l>>)
  <2>1. <<l>> \in Seq(DownLines) /\ Len(<<l>>) = 1 /\ <<l>>[1] = l
    OBVIOUS
  <2>2. PICK e : e = d \o <<l>>
    OBVIOUS
  <2>3. /\ e \in Seq(DownLines) /\ Len(e) = Len(d) + 1 /\ Len(d) \in Nat
        /\ \A i \in 1 .. Len(d) : e[i] = d[i]
        /\ e[Len(d) + 1] = l
    BY <2>1, <2>2, ToSetBehind, LenProperties
  <2>4. ASSUME NEW x \in ToSet(Tail(e)), e # <<>> PROVE x # Welcoming
    <3>5. PICK t \in Seq(DownLines) : t = Tail(e)
      BY <2>3, <2>4, ToSetTail
    <3>1. PICK i \in 1 .. Len(Tail(e)) : Tail(e)[i] = x
      BY <2>4, <3>5, ToSetIs
    <3>2. Len(Tail(e)) = Len(d) /\ e[i + 1] = x
      BY <2>3, <2>4, <3>1, ToSetTail
    <3>3. CASE i = Len(d)
      BY <1>1, <2>3, <3>2, <3>3
    <3>4. CASE i # Len(d)
      <4>1. i + 1 \in 1 .. Len(d) /\ d # <<>> /\ i \in 1 .. Len(d) - 1
        BY <2>3, <3>1, <3>2, <3>4
      <4>2. Len(Tail(d)) = Len(d) - 1 /\ Tail(d) \in Seq(DownLines) /\ Tail(d)[i] = d[i + 1]
        BY <4>1, ToSetTail
      <4>3. x = Tail(d)[i] /\ i \in 1 .. Len(Tail(d))
        BY <2>3, <3>2, <4>1, <4>2
      <4>4. x \in ToSet(Tail(d))
        BY <4>2, <4>3, ToSetIs
      <4> QED BY <4>1, <4>4 DEF WelcomedFirst
    <3> QED BY <3>3, <3>4
  <2> QED BY <2>2, <2>3, <2>4 DEF WelcomedFirst
<1>2. ASSUME d # <<>> PROVE Tail(d) \in Seq(DownLines) /\ WelcomedFirst(Tail(d)) /\ Welcoming \notin ToSet(Tail(d))
  <2>1. Tail(d) \in Seq(DownLines) /\ Welcoming \notin ToSet(Tail(d))
    BY <1>2, ToSetTail DEF WelcomedFirst
  <2>2. ASSUME Tail(d) # <<>> PROVE Welcoming \notin ToSet(Tail(Tail(d)))
    BY <2>1, <2>2, ToSetTail
  <2> QED BY <2>1, <2>2 DEF WelcomedFirst
<1> QED BY <1>1, <1>2

\* What the server says is told.
LEMMA ViewsSaid ==
  ASSUME NEW cs, NEW bl, NEW mx, NEW u, NEW d \in Seq(DownLines), NEW sv \in [Channel -> Rooms], Views(cs, bl, mx, u, d, sv),
         NEW d2, NEW sv2, NEW on, Says(on, d, sv, d2, sv2)
  PROVE  Views(cs, bl, mx, u, d2, sv2)
<1>1. CASE d2 = d /\ \A ch \in Channel : Seen(sv2, ch) = Seen(sv, ch)
  BY <1>1 DEF Views
<1>2. CASE \E l \in DownLines : SaidLine(on, d, sv, d2, sv2, l)
  <2>1. PICK l \in DownLines : SaidLine(on, d, sv, d2, sv2, l)
    BY <1>2
  <2>2. ASSUME NEW ch \in Channel PROVE StoryOf(ch, cs, bl, mx, u, d2, Seen(sv2, ch))
    <3>1. PICK r : r = Seen(sv, ch)
      OBVIOUS
    <3>2. l # Welcoming /\ d2 = d \o <<l>> /\ Legal(ch, l, r) /\ Seen(sv2, ch) = RoomAfter(ch, l, r)
      BY <2>1, <3>1 DEF SaidLine
    <3>3. StoryOf(ch, cs, bl, mx, u, d, r)
      BY <3>1 DEF Views
    <3>4. StoryOf(ch, cs, bl, mx, u, d \o <<l>>, RoomAfter(ch, l, r))
      BY <3>2, <3>3, StoryGrows
    <3> QED BY <3>2, <3>4
  <2> QED BY <2>2 DEF Views
<1> QED BY <1>1, <1>2 DEF Says

\* And numeric 1 stays first.
LEMMA SaidType ==
  ASSUME NEW d \in Seq(DownLines), WelcomedFirst(d), NEW on, NEW sv, NEW d2, NEW sv2, Says(on, d, sv, d2, sv2)
  PROVE  d2 \in Seq(DownLines) /\ WelcomedFirst(d2)
BY FirstStays DEF Says, SaidLine

\* Where the bot was not online it is not in afterwards.
LEMMA SaysOffline ==
  ASSUME NEW d, NEW on, ~on, NEW sv \in [Channel -> Rooms], NEW d2, NEW sv2 \in [Channel -> Rooms], Says(on, d, sv, d2, sv2)
  PROVE  d2 = d /\ \A ch \in Channel : Me \in DOMAIN sv2[ch] <=> Me \in DOMAIN sv[ch]
BY SeenIs DEF Says, SaidLine

-----------------------------------------------------------------------------
(* What the users do *)

\* One of them comes.
LEMMA JoinSays ==
  ASSUME ChannelsTyped, \A ch \in Channel : Me \in DOMAIN srv[ch] => online, NEW u \in Other, NEW c \in Channel, Join(u, c)
  PROVE  srv' \in [Channel -> Rooms] /\ Says(online, down, srv, down', srv')
<1>1. PICK l \in DownLines : l = Joined(c, u)
  BY LineTypes, RoomsAre
<1>2. l.what = "JOIN" /\ l.ch = c /\ l.nick = u
  BY <1>1, LineFields
<1>3. srv[c] \in Rooms /\ u \in Nick /\ u # Me /\ u \notin DOMAIN srv[c]
  BY RoomsAre, ChannelsAssumption DEF ChannelsTyped, Join
<1>4. PICK r \in Rooms : r = With(srv[c], u, FALSE)
  BY <1>3, RoomsAre
<1>5. srv' = [srv EXCEPT ![c] = r] /\ (Me \in DOMAIN r <=> Me \in DOMAIN srv[c])
  BY <1>3, <1>4 DEF Join, With
<1>6. Me \in DOMAIN srv[c] => down' = down \o <<l>> /\ Legal(c, l, srv[c]) /\ RoomAfter(c, l, srv[c]) = r
  BY <1>1, <1>2, <1>3, <1>4 DEF Join, TellIf, Tell, In, Legal, RoomAfter
<1>7. Me \notin DOMAIN srv[c] => down' = down /\ Me \notin DOMAIN r
  BY <1>5 DEF Join, TellIf, In
<1> QED BY <1>2, <1>5, <1>6, <1>7, OneChannel DEF ChannelsTyped

\* One of them goes.
LEMMA LeaveSays ==
  ASSUME ChannelsTyped, \A ch \in Channel : Me \in DOMAIN srv[ch] => online, NEW u \in Other, NEW c \in Channel, Leave(u, c)
  PROVE  srv' \in [Channel -> Rooms] /\ Says(online, down, srv, down', srv')
<1>1. PICK l \in DownLines : l = Parted(c, u)
  BY LineTypes, RoomsAre
<1>2. l.what = "PART" /\ l.ch = c /\ l.nick = u
  BY <1>1, LineFields
<1>3. srv[c] \in Rooms /\ u # Me
  BY ChannelsAssumption DEF ChannelsTyped
<1>4. PICK r \in Rooms : r = Without(srv[c], u)
  BY <1>3, RoomsAre
<1>5. srv' = [srv EXCEPT ![c] = r] /\ (Me \in DOMAIN r <=> Me \in DOMAIN srv[c])
  BY <1>3, <1>4 DEF Leave, Without
<1>6. Me \in DOMAIN srv[c] => down' = down \o <<l>> /\ Legal(c, l, srv[c]) /\ RoomAfter(c, l, srv[c]) = r
  BY <1>1, <1>2, <1>3, <1>4 DEF Leave, TellIf, Tell, In, Legal, RoomAfter
<1>7. Me \notin DOMAIN srv[c] => down' = down /\ Me \notin DOMAIN r
  BY <1>5 DEF Leave, TellIf, In
<1> QED BY <1>2, <1>5, <1>6, <1>7, OneChannel DEF ChannelsTyped

\* One of them, or the bot, is kicked.
LEMMA KickSays ==
  ASSUME ChannelsTyped, \A ch \in Channel : Me \in DOMAIN srv[ch] => online, NEW n \in Nick, NEW c \in Channel, Kick(n, c)
  PROVE  srv' \in [Channel -> Rooms] /\ Says(online, down, srv, down', srv')
<1>1. PICK l \in DownLines : l = Kicked(c, n)
  BY LineTypes
<1>2. l.what = "KICK" /\ l.ch = c /\ l.nick = n
  BY <1>1, LineFields
<1>3. srv[c] \in Rooms
  BY DEF ChannelsTyped
<1>4. PICK r \in Rooms : r = Without(srv[c], n)
  BY <1>3, RoomsAre
<1>5. srv' = [srv EXCEPT ![c] = r] /\ (Me \in DOMAIN r <=> Me \in DOMAIN srv[c] /\ n # Me)
  BY <1>3, <1>4 DEF Kick, Without
<1>6. Me \in DOMAIN srv[c] => /\ down' = down \o <<l>> /\ Legal(c, l, srv[c])
                              /\ Me \in DOMAIN r => RoomAfter(c, l, srv[c]) = r
                              /\ Me \notin DOMAIN r => RoomAfter(c, l, srv[c]) = Nobody
  BY <1>1, <1>2, <1>3, <1>4, <1>5 DEF Kick, TellIf, Tell, In, Legal, RoomAfter
<1>7. Me \notin DOMAIN srv[c] => down' = down /\ Me \notin DOMAIN r
  BY <1>5 DEF Kick, TellIf, In
<1>8. srv \in [Channel -> Rooms] /\ l.what \in {"JOIN", "PART", "KICK", "MODE"} /\ l.ch = c
  BY <1>2 DEF ChannelsTyped
<1>9. srv' = [srv EXCEPT ![c] = r]
  BY <1>5
<1> QED BY ONLY l \in DownLines, r \in Rooms, c \in Channel, \A ch \in Channel : Me \in DOMAIN srv[ch] => online,
            <1>6, <1>7, <1>8, <1>9, OneChannel

\* Operators change the modes of one or two.
LEMMA ModeSays ==
  ASSUME ChannelsTyped, \A ch \in Channel : Me \in DOMAIN srv[ch] => online, NEW cs \in Seq(Marks), NEW c \in Channel, Mode(c, cs)
  PROVE  srv' \in [Channel -> Rooms] /\ Says(online, down, srv, down', srv')
<1>1. PICK l \in DownLines : l = ModeLine(c, cs)
  BY LineTypes
<1>2. l.what = "MODE" /\ l.ch = c /\ l.changes = cs
  BY <1>1, LineFields
<1>3. srv[c] \in Rooms
  BY DEF ChannelsTyped
<1>4. PICK r \in Rooms : r = ModesOf(srv[c], cs)
  BY <1>3, ModesType
<1>5. srv' = [srv EXCEPT ![c] = r]
  BY <1>4 DEF Mode, ModesOf
<1>8. Me \in DOMAIN r <=> Me \in DOMAIN srv[c]
  BY <1>3, <1>4, ModesType
<1>6. Me \in DOMAIN srv[c] => down' = down \o <<l>> /\ Legal(c, l, srv[c]) /\ RoomAfter(c, l, srv[c]) = r
  BY <1>1, <1>2, <1>4 DEF Mode, TellIf, Tell, In, Legal, RoomAfter, ModeLine
<1>7. Me \notin DOMAIN srv[c] => down' = down /\ Me \notin DOMAIN r
  BY <1>8 DEF Mode, TellIf, In
<1> QED BY <1>2, <1>5, <1>6, <1>7, <1>8, OneChannel DEF ChannelsTyped

\* All of it
LEMMA UsersSay ==
  ASSUME ChannelsTyped, \A ch \in Channel : Me \in DOMAIN srv[ch] => online, Users
  PROVE  srv' \in [Channel -> Rooms] /\ Says(online, down, srv, down', srv')
<1>1. ASSUME NEW u \in Other, NEW new \in Other, Rename(u, new) PROVE srv' \in [Channel -> Rooms] /\ Says(online, down, srv, down', srv')
  <2>1. /\ \A ch \in Channel : new \notin DOMAIN srv[ch]
        /\ srv' = AllRenamed(srv, u, new)
        /\ Shared(u) <=> \E ch \in Channel : {Me, u} \subseteq DOMAIN srv[ch]
        /\ Shared(u) => down' = down \o <<NickLine(u, new)>>
        /\ ~Shared(u) => down' = down
    BY <1>1 DEF Rename, AllRenamed, Shared, TellIf, Tell, NickLine
  <2> QED BY <2>1, RenameSays DEF ChannelsTyped
<1>2. ASSUME NEW u \in Other, Quit(u) PROVE srv' \in [Channel -> Rooms] /\ Says(online, down, srv, down', srv')
  <2>1. /\ srv' = [ch \in Channel |-> Without(srv[ch], u)]
        /\ Shared(u) <=> \E ch \in Channel : {Me, u} \subseteq DOMAIN srv[ch]
        /\ Shared(u) => down' = down \o <<QuitLine(u)>>
        /\ ~Shared(u) => down' = down
    BY <1>2 DEF Quit, Shared, TellIf, Tell, QuitLine
  <2> QED BY <2>1, QuitSays DEF ChannelsTyped
<1>3. ASSUME NEW u \in Other, NEW v \in Other, NEW sign \in BOOLEAN
      PROVE  /\ <<[plus |-> sign, nick |-> u]>> \in Seq(Marks)
             /\ <<[plus |-> sign, nick |-> u], [plus |-> ~sign, nick |-> v]>> \in Seq(Marks)
  <2>1. [plus |-> sign, nick |-> u] \in Marks /\ [plus |-> ~sign, nick |-> v] \in Marks
    BY DEF Marks
  <2> QED BY <2>1
<1>4. ASSUME NEW u \in Other, NEW c \in Channel, NEW sign \in BOOLEAN, Mode(c, <<[plus |-> sign, nick |-> u]>>)
      PROVE  srv' \in [Channel -> Rooms] /\ Says(online, down, srv, down', srv')
  BY <1>3, <1>4, ModeSays
<1>5. ASSUME NEW u \in Other, NEW v \in Other, NEW c \in Channel, NEW sign \in BOOLEAN,
             Mode(c, <<[plus |-> sign, nick |-> u], [plus |-> ~sign, nick |-> v]>>)
      PROVE  srv' \in [Channel -> Rooms] /\ Says(online, down, srv, down', srv')
  BY <1>3, <1>5, ModeSays
<1> QED BY <1>1, <1>2, <1>4, <1>5, JoinSays, LeaveSays, KickSays DEF Users

-----------------------------------------------------------------------------
(* What the bot does with a line *)

\* The lists follow the first line in every channel.
Follows(cs, bl, mx, u, d, cs2, bl2, mx2, u2) ==
  \A ch \in Channel, q \in Closed :
    Legal(ch, Head(d), q) /\ (Head(d) = Welcoming \/ Right(ch, cs, bl, mx, u, d, q))
      => Right(ch, cs2, bl2, mx2, u2, Tail(d), RoomAfter(ch, Head(d), q))

\* Then it is read.
LEMMA ViewsRead ==
  ASSUME NEW cs, NEW bl, NEW mx, NEW u, NEW d \in Seq(DownLines), d # <<>>, NEW sv, Views(cs, bl, mx, u, d, sv),
         NEW cs2, NEW bl2, NEW mx2, NEW u2, Follows(cs, bl, mx, u, d, cs2, bl2, mx2, u2)
  PROVE  Views(cs2, bl2, mx2, u2, Tail(d), sv)
<1>1. ASSUME NEW ch \in Channel PROVE StoryOf(ch, cs2, bl2, mx2, u2, Tail(d), Seen(sv, ch))
  <2>1. PICK r : r = Seen(sv, ch)
    OBVIOUS
  <2>2. StoryOf(ch, cs, bl, mx, u, d, r)
    BY <2>1 DEF Views
  <2>3. \A q \in Closed :
           Legal(ch, Head(d), q) /\ (Head(d) = Welcoming \/ Right(ch, cs, bl, mx, u, d, q))
             => Right(ch, cs2, bl2, mx2, u2, Tail(d), RoomAfter(ch, Head(d), q))
    BY DEF Follows
  <2>4. StoryOf(ch, cs2, bl2, mx2, u2, Tail(d), r)
    BY <2>2, <2>3, StoryRead
  <2> QED BY <2>1, <2>4
<1> QED BY <1>1 DEF Views

\* Every line but numeric 1
LEMMA FollowsOther ==
  ASSUME NEW cs, NEW bl, NEW mx, NEW u, NEW d, NEW cs2, NEW bl2, NEW mx2, NEW u2, Head(d).what # "001",
         \A ch \in Channel, q \in Closed :
           Legal(ch, Head(d), q) /\ Right(ch, cs, bl, mx, u, d, q)
             => Right(ch, cs2, bl2, mx2, u2, Tail(d), RoomAfter(ch, Head(d), q))
  PROVE  Follows(cs, bl, mx, u, d, cs2, bl2, mx2, u2)
BY LineFields DEF Follows

\* What a read line leaves behind
Reads ==
  /\ down # <<>> /\ down' = Tail(down) /\ srv' = srv /\ online' = online /\ ordered' = ordered
  /\ chans' \in AllLists /\ up' \in Seq(UpLines)
  /\ Follows(chans, blind, mixed, up, down, chans', blind', mixed', up')

\* Numeric 1 (join.c:495): all lists are emptied.
LEMMA WelcomeReads == ASSUME ChannelsTyped, Welcome PROVE Reads
<1>1. /\ down # <<>> /\ down' = Tail(down) /\ srv' = srv /\ online' = online /\ ordered' = ordered
      /\ Head(down).what = "001"
  BY DEF Welcome, Got
<1>2. chans' \in AllLists /\ \A ch : Listed(chans', ch) = Nobody
  <2> DEFINE emptied == [ch \in DOMAIN chans |-> [chans[ch] EXCEPT !.members = Nobody]]
             fresh == [ch \in DOMAIN chans |-> [emptied[ch] EXCEPT !.retries = 0]]
  <2>1. \A ch \in DOMAIN chans : emptied[ch] \in Entry /\ emptied[ch].members = Nobody
    BY ChannelListIs, RoomsAre DEF Entry, ChannelsTyped
  <2>2. \A ch \in DOMAIN chans : fresh[ch] \in Entry /\ fresh[ch].members = Nobody
    BY <2>1 DEF Entry
  <2>3. DOMAIN emptied = DOMAIN chans /\ emptied = [ch \in DOMAIN chans |-> emptied[ch]]
    OBVIOUS
  <2>4. DOMAIN fresh = DOMAIN chans /\ fresh = [ch \in DOMAIN chans |-> fresh[ch]]
    OBVIOUS
  <2>5. chans' = fresh \/ chans' = emptied
    BY DEF Welcome
  <2> HIDE DEF emptied, fresh
  <2>6. PICK f : f = chans'
    OBVIOUS
  <2>7. /\ DOMAIN f = DOMAIN chans /\ f = [ch \in DOMAIN chans |-> f[ch]]
        /\ \A ch \in DOMAIN chans : f[ch] \in Entry /\ f[ch].members = Nobody
    BY <2>1, <2>2, <2>3, <2>4, <2>5, <2>6
  <2>8. f \in AllLists
    BY <2>7, EachIs DEF ChannelsTyped
  <2>9. \A ch : Listed(f, ch) = Nobody
    BY <2>7 DEF Listed
  <2> QED BY <2>6, <2>8, <2>9
<1>3. up' \in Seq(UpLines)
  <2>1. /\ JoinLines(DOMAIN chans) \in Seq(UpLines) /\ <<>> \in Seq(UpLines) /\ <<AuthLine>> \in Seq(UpLines)
        /\ up \in Seq(UpLines)
    BY JoinLinesAre, ChannelListIs, LineTypes DEF ChannelsTyped
  <2>2. \E joins \in Seq(UpLines), auth \in Seq(UpLines) : up' = up \o (auth \o joins) \/ up' = up \o (joins \o auth)
    <3>1. PICK joins, auth : /\ joins = <<>> \/ joins = JoinLines(DOMAIN chans)
                             /\ auth = <<>> \/ auth = <<AuthLine>>
                             /\ up' = up \o (auth \o joins) \/ up' = up \o (joins \o auth)
      BY DEF Welcome, Send, AuthLine
    <3> QED BY <2>1, <3>1
  <2>3. PICK joins \in Seq(UpLines), auth \in Seq(UpLines) : up' = up \o (auth \o joins) \/ up' = up \o (joins \o auth)
    BY <2>2
  <2>4. auth \o joins \in Seq(UpLines) /\ joins \o auth \in Seq(UpLines)
    BY ConcatProperties
  <2> QED BY <2>1, <2>3, <2>4, ConcatProperties
<1>4. Follows(chans, blind, mixed, up, down, chans', blind', mixed', up')
  BY <1>1, <1>2, WelcomeRead DEF Follows, ChannelsTyped
<1> QED BY <1>1, <1>2, <1>3, <1>4 DEF Reads

\* The line that only the gate reads (qauth.c:77)
LEMMA LoggedInReads == ASSUME ChannelsTyped, LoggedIn PROVE Reads
<1>1. /\ down # <<>> /\ down' = Tail(down) /\ srv' = srv /\ online' = online /\ ordered' = ordered /\ up' = up
      /\ chans' = chans /\ blind' = blind /\ mixed' = mixed /\ Head(down).what = "NOTICE"
  BY DEF LoggedIn, Got, ghosts
<1>2. Follows(chans, blind, mixed, up, down, chans, blind, mixed, up)
  BY <1>1, NoticeRead, FollowsOther DEF ChannelsTyped
<1> QED BY <1>1, <1>2 DEF Reads, ChannelsTyped

\* JOIN (join.c:501)
LEMMA UserJoinedReads == ASSUME ChannelsTyped, UserJoined PROVE Reads
<1>1. /\ down # <<>> /\ down' = Tail(down) /\ srv' = srv /\ online' = online /\ ordered' = ordered /\ up' = up
      /\ mixed' = mixed /\ Head(down).what = "JOIN" /\ down \in Seq(DownLines) /\ chans \in AllLists
  BY DEF UserJoined, Got, ChannelsTyped
<1>2. PICK cs : cs = chans'
  OBVIOUS
<1>3. PICK bl : bl = blind'
  OBVIOUS
<1>4. cs = JoinedList(chans, Head(down).ch, Head(down).nick)
  BY <1>2 DEF UserJoined, JoinedList, line
<1>5. bl = IF Head(down).nick = Me THEN blind \ {Head(down).ch} ELSE blind
  BY <1>3 DEF UserJoined, line
<1>6. cs \in AllLists
  <2>1. Head(down).ch \in Channel /\ Head(down).nick \in Nick
    BY <1>1, ToSetTail, DownLinesSpeak DEF Spoken
  <2> QED BY <1>1, <1>4, <2>1, JoinedIs
<1>7. \A ch \in Channel, q \in Closed :
        Legal(ch, Head(down), q) /\ Right(ch, chans, blind, mixed, up, down, q)
          => Right(ch, cs, bl, mixed, up, Tail(down), RoomAfter(ch, Head(down), q))
  BY <1>1, <1>4, <1>5, JoinRead
<1>8. Follows(chans, blind, mixed, up, down, cs, bl, mixed, up)
  BY <1>1, <1>7, FollowsOther
<1> QED BY <1>1, <1>2, <1>3, <1>6, <1>8 DEF Reads, ChannelsTyped

\* 353 (join.c:503)
LEMMA NamesCameReads == ASSUME ChannelsTyped, NamesCame PROVE Reads
<1>1. /\ down # <<>> /\ down' = Tail(down) /\ srv' = srv /\ online' = online /\ ordered' = ordered /\ up' = up
      /\ blind' = blind /\ mixed' = mixed /\ Head(down).what = "353" /\ down \in Seq(DownLines) /\ chans \in AllLists
  BY DEF NamesCame, Got, ghosts, ChannelsTyped
<1>2. PICK cs : cs = chans'
  OBVIOUS
<1>4. cs = NamedList(chans, Head(down).ch, Head(down).members)
  BY <1>2 DEF NamesCame, NamedList, line
<1>6. cs \in AllLists
  <2>1. Head(down).ch \in Channel /\ Head(down).members \in Rooms
    BY <1>1, ToSetTail, DownLinesSpeak DEF Spoken
  <2> QED BY <1>1, <1>4, <2>1, NamedIs
<1>7. \A ch \in Channel, q \in Closed :
        Legal(ch, Head(down), q) /\ Right(ch, chans, blind, mixed, up, down, q)
          => Right(ch, cs, blind, mixed, up, Tail(down), RoomAfter(ch, Head(down), q))
  BY <1>1, <1>4, NamesRead
<1>8. Follows(chans, blind, mixed, up, down, cs, blind, mixed, up)
  BY <1>1, <1>7, FollowsOther
<1> QED BY <1>1, <1>2, <1>6, <1>8 DEF Reads, ChannelsTyped

\* The lists after KICK
UserKickedFrom(cs, c, n) == IF n = Me THEN MemberDelAll(cs, c) ELSE MemberDel(cs, c, n)

\* The lists after PART and KICK
LEMMA GoneFrom ==
  ASSUME NEW cs \in AllLists, NEW c, NEW n
  PROVE  /\ UserPartedFrom(cs, c, n) \in AllLists
         /\ \A x : Listed(UserPartedFrom(cs, c, n), x)
              = IF x # c THEN Listed(cs, x) ELSE IF n = Me THEN Nobody ELSE Without(Listed(cs, x), n)
         /\ UserKickedFrom(cs, c, n) \in AllLists
         /\ \A x : Listed(UserKickedFrom(cs, c, n), x)
              = IF x # c THEN Listed(cs, x) ELSE IF n = Me THEN Nobody ELSE Without(Listed(cs, x), n)
<1>1. ChannelDel(cs, c) \in AllLists /\ \A x : Listed(ChannelDel(cs, c), x) = IF x = c THEN Nobody ELSE Listed(cs, x)
  BY DelIs
<1>2. MemberDel(cs, c, n) \in AllLists
      /\ \A x : Listed(MemberDel(cs, c, n), x) = IF x = c THEN Without(Listed(cs, x), n) ELSE Listed(cs, x)
  BY MemberDelIs
<1>3. MemberDelAll(cs, c) \in AllLists /\ \A x : Listed(MemberDelAll(cs, c), x) = IF x = c THEN Nobody ELSE Listed(cs, x)
  BY MemberDelAllIs
<1> QED BY <1>1, <1>2, <1>3 DEF UserPartedFrom, UserKickedFrom

\* PART (join.c:512) and KICK (join.c:517)
LEMMA UserGoneReads ==
  ASSUME ChannelsTyped, Head(down).what \in {"PART", "KICK"},
         down # <<>>, down' = Tail(down), srv' = srv, online' = online, ordered' = ordered, up' = up,
         blind' = Fresh(blind), mixed' = Fresh(mixed),
         chans' \in AllLists,
         \A x : Listed(chans', x) = IF x # Head(down).ch THEN Listed(chans, x)
                                    ELSE IF Head(down).nick = Me THEN Nobody ELSE Without(Listed(chans, x), Head(down).nick)
  PROVE  Reads
<1>1. down \in Seq(DownLines) /\ chans \in AllLists
  BY DEF ChannelsTyped
<1>2. PICK cs : cs = chans'
  OBVIOUS
<1>3. PICK bl, mx : bl = Wiped(blind, Head(down)) /\ mx = Wiped(mixed, Head(down))
  OBVIOUS
<1>4. bl = blind' /\ mx = mixed'
  BY <1>3 DEF Fresh, Wiped, line
<1>7. \A ch \in Channel, q \in Closed :
        Legal(ch, Head(down), q) /\ Right(ch, chans, blind, mixed, up, down, q)
          => Right(ch, cs, bl, mx, up, Tail(down), RoomAfter(ch, Head(down), q))
  BY <1>1, <1>2, <1>3, PartRead
<1>8. Follows(chans, blind, mixed, up, down, cs, bl, mx, up)
  BY <1>7, FollowsOther
<1> QED BY <1>2, <1>4, <1>8 DEF Reads, ChannelsTyped

\* PART (join.c:512)
LEMMA UserPartedReads == ASSUME ChannelsTyped, UserParted PROVE Reads
<1>1. /\ down # <<>> /\ down' = Tail(down) /\ srv' = srv /\ online' = online /\ ordered' = ordered /\ up' = up
      /\ blind' = Fresh(blind) /\ mixed' = Fresh(mixed) /\ Head(down).what \in {"PART", "KICK"}
  BY DEF UserParted, Got
<1>2. chans' = UserPartedFrom(chans, Head(down).ch, Head(down).nick) /\ chans \in AllLists
  BY DEF UserParted, line, ChannelsTyped
<1>3. PICK c, n : c = Head(down).ch /\ n = Head(down).nick
  OBVIOUS
<1>4. /\ UserPartedFrom(chans, c, n) \in AllLists
      /\ \A x : Listed(UserPartedFrom(chans, c, n), x)
           = IF x # c THEN Listed(chans, x) ELSE IF n = Me THEN Nobody ELSE Without(Listed(chans, x), n)
  BY <1>2, GoneFrom
<1>5. /\ chans' \in AllLists
      /\ \A x : Listed(chans', x) = IF x # Head(down).ch THEN Listed(chans, x)
                                    ELSE IF Head(down).nick = Me THEN Nobody ELSE Without(Listed(chans, x), Head(down).nick)
  BY <1>2, <1>3, <1>4
<1> QED BY <1>1, <1>5, UserGoneReads

\* KICK (join.c:517)
LEMMA UserKickedReads == ASSUME ChannelsTyped, UserKicked PROVE Reads
<1>1. /\ down # <<>> /\ down' = Tail(down) /\ srv' = srv /\ online' = online /\ ordered' = ordered /\ up' = up
      /\ blind' = Fresh(blind) /\ mixed' = Fresh(mixed) /\ Head(down).what \in {"PART", "KICK"}
  BY DEF UserKicked, Got
<1>2. chans' = UserKickedFrom(chans, Head(down).ch, Head(down).nick) /\ chans \in AllLists
  BY DEF UserKicked, UserKickedFrom, line, ChannelsTyped
<1>3. PICK c, n : c = Head(down).ch /\ n = Head(down).nick
  OBVIOUS
<1>4. /\ UserKickedFrom(chans, c, n) \in AllLists
      /\ \A x : Listed(UserKickedFrom(chans, c, n), x)
           = IF x # c THEN Listed(chans, x) ELSE IF n = Me THEN Nobody ELSE Without(Listed(chans, x), n)
  BY <1>2, GoneFrom
<1>5. /\ chans' \in AllLists
      /\ \A x : Listed(chans', x) = IF x # Head(down).ch THEN Listed(chans, x)
                                    ELSE IF Head(down).nick = Me THEN Nobody ELSE Without(Listed(chans, x), Head(down).nick)
  BY <1>2, <1>3, <1>4
<1> QED BY <1>1, <1>5, UserGoneReads

\* NICK (join.c:568)
LEMMA UserRenamedReads == ASSUME ChannelsTyped, UserRenamed PROVE Reads
<1>1. /\ down # <<>> /\ down' = Tail(down) /\ srv' = srv /\ online' = online /\ ordered' = ordered /\ up' = up
      /\ blind' = blind /\ mixed' = mixed /\ Head(down).what = "NICK" /\ down \in Seq(DownLines) /\ chans \in AllLists
  BY DEF UserRenamed, Got, ghosts, ChannelsTyped
<1>2. PICK cs : cs = chans'
  OBVIOUS
<1>4. cs = NickChangeAll(chans, Head(down).nick, Head(down).new)
  BY <1>2 DEF UserRenamed, line
<1>6. cs \in AllLists
  <2>1. Head(down).nick \in Other /\ Head(down).new \in Other
    BY <1>1, ToSetTail, DownLinesSpeak DEF Spoken
  <2> QED BY <1>1, <1>4, <2>1, NickChangedIs
<1>7. \A ch \in Channel, q \in Closed :
        Legal(ch, Head(down), q) /\ Right(ch, chans, blind, mixed, up, down, q)
          => Right(ch, cs, blind, mixed, up, Tail(down), RoomAfter(ch, Head(down), q))
  BY <1>1, <1>4, NickRead
<1>8. Follows(chans, blind, mixed, up, down, cs, blind, mixed, up)
  BY <1>1, <1>7, FollowsOther
<1> QED BY <1>1, <1>2, <1>6, <1>8 DEF Reads, ChannelsTyped

\* QUIT (join.c:570)
LEMMA UserQuitReads == ASSUME ChannelsTyped, UserQuit PROVE Reads
<1>1. /\ down # <<>> /\ down' = Tail(down) /\ srv' = srv /\ online' = online /\ ordered' = ordered /\ up' = up
      /\ blind' = blind /\ mixed' = mixed /\ Head(down).what = "QUIT" /\ down \in Seq(DownLines) /\ chans \in AllLists
  BY DEF UserQuit, Got, ghosts, ChannelsTyped
<1>2. PICK cs : cs = chans'
  OBVIOUS
<1>4. cs = NickChangeAll(chans, Head(down).nick, "")
  BY <1>2 DEF UserQuit, line
<1>6. cs \in AllLists
  <2>1. Head(down).nick \in Other
    BY <1>1, ToSetTail, DownLinesSpeak DEF Spoken
  <2> QED BY <1>1, <1>4, <2>1, NickChangedIs
<1>7. \A ch \in Channel, q \in Closed :
        Legal(ch, Head(down), q) /\ Right(ch, chans, blind, mixed, up, down, q)
          => Right(ch, cs, blind, mixed, up, Tail(down), RoomAfter(ch, Head(down), q))
  BY <1>1, <1>4, QuitRead
<1>8. Follows(chans, blind, mixed, up, down, cs, blind, mixed, up)
  BY <1>1, <1>7, FollowsOther
<1> QED BY <1>1, <1>2, <1>6, <1>8 DEF Reads, ChannelsTyped

\* MODE (join.c:572)
LEMMA ModesChangedReads == ASSUME ChannelsTyped, ModesChanged PROVE Reads
<1>1. /\ down # <<>> /\ down' = Tail(down) /\ srv' = srv /\ online' = online /\ ordered' = ordered /\ up' = up
      /\ blind' = blind /\ Head(down).what = "MODE" /\ down \in Seq(DownLines) /\ chans \in AllLists
  BY DEF ModesChanged, Got, ChannelsTyped
<1>2. PICK cs : cs = chans'
  OBVIOUS
<1>3. PICK mx : mx = mixed'
  OBVIOUS
<1>4. cs = ModedList(chans, Head(down).ch, Head(down).changes)
  BY <1>2 DEF ModesChanged, ModedList, line
<1>5. mx = Mixed(mixed, Head(down))
  BY <1>3 DEF ModesChanged, Mixed, line
<1>6. cs \in AllLists
  <2>1. Head(down).ch \in Channel /\ Head(down).changes \in Seq(Marks)
    BY <1>1, ToSetTail, DownLinesSpeak DEF Spoken
  <2> QED BY <1>1, <1>4, <2>1, ModedIs
<1>7. \A ch \in Channel, q \in Closed :
        Legal(ch, Head(down), q) /\ Right(ch, chans, blind, mixed, up, down, q)
          => Right(ch, cs, blind, mx, up, Tail(down), RoomAfter(ch, Head(down), q))
  BY <1>1, <1>4, <1>5, ModeRead
<1>8. Follows(chans, blind, mixed, up, down, cs, blind, mx, up)
  BY <1>1, <1>7, FollowsOther
<1> QED BY <1>1, <1>2, <1>3, <1>6, <1>8 DEF Reads, ChannelsTyped

\* Every line that is read keeps the invariants.
LEMMA ReceiveKeeps == ASSUME ChannelsTyped, ViewInv, Receive PROVE ChannelsTyped' /\ ViewInv'
<1>1. Reads
  BY WelcomeReads, LoggedInReads, UserJoinedReads, NamesCameReads, UserPartedReads, UserKickedReads, UserRenamedReads,
     UserQuitReads, ModesChangedReads DEF Receive
<1>2. down' \in Seq(DownLines) /\ WelcomedFirst(Tail(down)) /\ online
  BY <1>1, FirstStays DEF Reads, ChannelsTyped, ViewInv
<1>3. Views(chans', blind', mixed', up', Tail(down), srv)
  BY <1>1, <1>2, ViewsRead DEF Reads, ChannelsTyped, ViewInv
<1>4. ChannelsTyped'
  BY <1>1, <1>2 DEF Reads, ChannelsTyped
<1>5. WelcomedFirst(down') /\ Views(chans', blind', mixed', up', down', srv')
  BY <1>1, <1>2, <1>3 DEF Reads
<1>6. online'
  BY <1>1, <1>2 DEF Reads
<1>7. ViewInv'
  BY <1>5, <1>6 DEF ViewInv, WelcomedFirst, Views
<1> QED BY <1>4, <1>7

\* One line more, or two
LEMMA OneMore ==
  ASSUME NEW S, NEW s \in Seq(S), NEW x \in S
  PROVE  s \o <<x>> \in Seq(S) /\ ToSet(s \o <<x>>) = ToSet(s) \cup {x}
<1>1. PICK t \in Seq(S) : t = <<x>> /\ Len(t) = 1 /\ t[1] = x
  <2>1. <<x>> \in Seq(S) /\ Len(<<x>>) = 1 /\ <<x>>[1] = x
    OBVIOUS
  <2> QED BY <2>1
<1>2. ToSet(t) = {x}
  <2>1. \A y : y \in ToSet(t) <=> \E i \in 1 .. Len(t) : t[i] = y
    BY ToSetIs
  <2>2. 1 .. Len(t) = {1}
    BY <1>1
  <2> QED BY <1>1, <2>1, <2>2
<1>3. s \o t \in Seq(S) /\ ToSet(s \o t) = ToSet(s) \cup ToSet(t)
  BY ToSetBehind
<1> QED BY <1>1, <1>2, <1>3

\* Two lines are one behind the other.
LEMMA TwoMore ==
  ASSUME NEW S, NEW s \in Seq(S), NEW x \in S, NEW y \in S
  PROVE  s \o <<x, y>> = (s \o <<x>>) \o <<y>>
<1>4. PICK a \in Seq(S) : a = <<x>>
  <2>1. <<x>> \in Seq(S)
    OBVIOUS
  <2> QED BY <2>1
<1>5. PICK b \in Seq(S) : b = <<y>>
  <2>1. <<y>> \in Seq(S)
    OBVIOUS
  <2> QED BY <2>1
<1>1. a \o b = <<x, y>>
  <2>1. Len(a) = 1 /\ Len(b) = 1 /\ a[1] = x /\ b[1] = y
    BY <1>4, <1>5
  <2>2. PICK u : u = a \o b
    OBVIOUS
  <2>9. u \in Seq(S) /\ Len(u) = Len(a) + Len(b)
        /\ \A i \in 1 .. Len(a) + Len(b) : u[i] = IF i <= Len(a) THEN a[i] ELSE b[i - Len(a)]
    BY <2>2, ConcatProperties
  <2>3. u \in Seq(S) /\ Len(u) = 2
    BY <2>1, <2>9
  <2>4. u[1] = x /\ u[2] = y
    BY <2>1, <2>9
  <2>5. PICK v : v = <<x, y>>
    OBVIOUS
  <2>6. v \in Seq(S)
    BY <2>5
  <2>7. Len(v) = 2 /\ v[1] = x /\ v[2] = y
    BY <2>5
  <2>8. \A i \in 1 .. Len(u) : u[i] = v[i]
    <3>1. 1 .. 2 = {1, 2}
      OBVIOUS
    <3> QED BY <2>3, <2>4, <2>7, <3>1
  <2> QED BY <2>2, <2>3, <2>5, <2>6, <2>7, <2>8, SeqEqual
<1>3. (s \o a) \o b = s \o (a \o b)
  BY ConcatAssociative
<1> QED BY <1>1, <1>3, <1>4, <1>5

-----------------------------------------------------------------------------
(* What the bot and the server do besides *)

\* The lists still agree with the rooms that the lines under way begin with.
Fits(cs, bl, mx, u, d, sv, cs2, bl2, mx2, u2) ==
  \A ch \in Channel, q \in Closed :
    /\ d = <<>> \/ Head(d) # Welcoming
    /\ Right(ch, cs, bl, mx, u, d, q)
    /\ q = Nobody \/ Me \in DOMAIN Seen(sv, ch) \/ \E l \in ToSet(d) : Leaving(ch, l)
    => Right(ch, cs2, bl2, mx2, u2, d, q)

\* Then they are still told.
LEMMA ViewsKept ==
  ASSUME NEW cs, NEW bl, NEW mx, NEW u, NEW d \in Seq(DownLines), NEW sv, Views(cs, bl, mx, u, d, sv),
         NEW cs2, NEW bl2, NEW mx2, NEW u2, Fits(cs, bl, mx, u, d, sv, cs2, bl2, mx2, u2)
  PROVE  Views(cs2, bl2, mx2, u2, d, sv)
<1>1. ASSUME NEW ch \in Channel PROVE StoryOf(ch, cs2, bl2, mx2, u2, d, Seen(sv, ch))
  <2>1. PICK r : r = Seen(sv, ch)
    OBVIOUS
  <2>2. StoryOf(ch, cs, bl, mx, u, d, r)
    BY <2>1 DEF Views
  <2>3. \A q \in Closed :
           /\ d = <<>> \/ Head(d) # Welcoming
           /\ Right(ch, cs, bl, mx, u, d, q)
           /\ q = Nobody \/ Me \in DOMAIN r \/ \E l \in ToSet(d) : Leaving(ch, l)
           => Right(ch, cs2, bl2, mx2, u2, d, q)
    BY <2>1 DEF Fits
  <2>4. StoryOf(ch, cs2, bl2, mx2, u2, d, r)
    BY <2>2, <2>3, StoryKept
  <2> QED BY <2>1, <2>4
<1> QED BY <1>1 DEF Views

\* The members are the same, and what takes the bot out is still under way.
LEMMA FitsSame ==
  ASSUME NEW cs, NEW bl, NEW mx, NEW u, NEW d, NEW sv, NEW cs2, NEW u2,
         \A ch \in Channel : Listed(cs2, ch) = Listed(cs, ch),
         \A ch \in Channel : Parting(ch) \in ToSet(u) => Parting(ch) \in ToSet(u2)
  PROVE  Fits(cs, bl, mx, u, d, sv, cs2, bl, mx, u2)
<1>1. ASSUME NEW ch \in Channel, NEW q, Right(ch, cs, bl, mx, u, d, q) PROVE Right(ch, cs2, bl, mx, u2, d, q)
  <2>1. Leaves(ch, u, d) => Leaves(ch, u2, d)
    BY DEF Leaves
  <2>2. Listed(cs2, ch) = Listed(cs, ch)
    OBVIOUS
  <2>3. Agrees(Listed(cs, ch), q, ch \in bl \/ Leaves(ch, u2, d), ch \in mx)
    BY <1>1, <2>1 DEF Right, Agrees
  <2> QED BY <2>2, <2>3 DEF Right
<1> QED BY <1>1 DEF Fits

\* The bot's own steps while nothing is read
Moves ==
  /\ srv' = srv /\ online' = online /\ down' = down /\ chans' \in AllLists /\ up' \in Seq(UpLines) /\ ordered' \in SUBSET Channel
  /\ online => Fits(chans, blind, mixed, up, down, srv, chans', blind', mixed', up')

\* They keep the invariants.
LEMMA MovesKeep == ASSUME ChannelsTyped, ViewInv, Moves PROVE ChannelsTyped' /\ ViewInv'
<1>1. online => Views(chans', blind', mixed', up', down, srv)
  BY ViewsKept DEF Moves, ChannelsTyped, ViewInv
<1>2. ChannelsTyped'
  BY DEF Moves, ChannelsTyped
<1>3. ViewInv'
  BY <1>1 DEF Moves, ViewInv, WelcomedFirst, Views
<1> QED BY <1>2, <1>3

\* try_rejoin (join.c:383): members are not touched.
LEMMA TimerMoves == ASSUME ChannelsTyped, Timer PROVE Moves
<1>1. PICK cs : cs = chans'
  OBVIOUS
<1>2. /\ srv' = srv /\ online' = online /\ down' = down /\ ordered' = ordered /\ blind' = blind /\ mixed' = mixed
      /\ up' = up \o JoinLines(Out(chans))
      /\ cs = [ch \in DOMAIN chans |-> IF ch \in Out(chans) THEN [chans[ch] EXCEPT !.retries = @ + 1] ELSE chans[ch]]
  BY <1>1 DEF Timer, Send
<1>3. chans \in AllLists /\ up \in Seq(UpLines) /\ JoinLines(Out(chans)) \in Seq(UpLines)
  <2>1. Out(chans) \in SUBSET Channel
    BY ChannelListIs DEF Out, ChannelsTyped
  <2> QED BY <2>1, JoinLinesAre DEF ChannelsTyped
<1>4. DOMAIN cs = DOMAIN chans /\ cs = [ch \in DOMAIN chans |-> cs[ch]]
      /\ \A ch \in DOMAIN chans : cs[ch] \in Entry /\ cs[ch].members = chans[ch].members
  BY <1>2, <1>3, ChannelListIs DEF Entry
<1>5. cs \in AllLists
  BY <1>3, <1>4, EachIs
<1>6. \A ch \in Channel : Listed(cs, ch) = Listed(chans, ch)
  BY <1>4 DEF Listed
<1>7. PICK u \in Seq(UpLines) : u = up'
  BY <1>2, <1>3, ToSetBehind
<1>8. ToSet(up) \subseteq ToSet(u)
  BY <1>2, <1>3, <1>7, ToSetBehind
<1>9. Fits(chans, blind, mixed, up, down, srv, cs, blind, mixed, u)
  BY <1>6, <1>8, FitsSame
<1> QED BY <1>1, <1>2, <1>5, <1>7, <1>9 DEF Moves, ChannelsTyped

\* "join" (join.c:556)
LEMMA OrderJoinMoves == ASSUME ChannelsTyped, NEW c \in Channel, OrderJoin(c) PROVE Moves
<1>1. /\ srv' = srv /\ online' = online /\ down' = down /\ up' = up /\ ordered' = ordered \cup {c}
      /\ blind' = blind /\ mixed' = mixed /\ chans' = ChannelAdd(chans, c) /\ chans \in AllLists
  BY DEF OrderJoin, server, ChannelsTyped
<1>2. PICK cs : cs = ChannelAdd(chans, c)
  OBVIOUS
<1>3. cs \in AllLists /\ \A ch \in Channel : Listed(cs, ch) = Listed(chans, ch)
  BY <1>1, <1>2, AddIs
<1>4. Fits(chans, blind, mixed, up, down, srv, cs, blind, mixed, up)
  BY <1>3, FitsSame
<1> QED BY <1>1, <1>2, <1>3, <1>4 DEF Moves, ChannelsTyped

\* "part" (join.c:564): the PART is under way.
LEMMA OrderPartMoves == ASSUME ChannelsTyped, NEW c \in Channel, OrderPart(c) PROVE Moves
<1>1. /\ srv' = srv /\ online' = online /\ down' = down /\ up' = up \o <<Parting(c)>> /\ ordered' = ordered \ {c}
      /\ blind' = blind /\ mixed' = mixed /\ chans' = ChannelDel(chans, c) /\ chans \in AllLists
  BY DEF OrderPart, Send, ChannelsTyped
<1>2. PICK cs : cs = ChannelDel(chans, c)
  OBVIOUS
<1>3. cs \in AllLists /\ \A ch : Listed(cs, ch) = IF ch = c THEN Nobody ELSE Listed(chans, ch)
  BY <1>1, <1>2, DelIs
<1>4. PICK u : u = up'
  OBVIOUS
<1>5. u \in Seq(UpLines) /\ ToSet(up) \subseteq ToSet(u) /\ Parting(c) \in ToSet(u)
  <2>0. <<Parting(c)>> \in Seq(UpLines)
    <3>1. Parting(c) \in UpLines
      BY LineTypes
    <3> QED BY <3>1
  <2>1. PICK p \in Seq(UpLines) : p = <<Parting(c)>>
    BY <2>0
  <2>2. u = up \o p /\ Len(p) = 1 /\ p[1] = Parting(c) /\ up \in Seq(UpLines)
    BY <1>1, <1>4, <2>1 DEF ChannelsTyped
  <2>3. Parting(c) \in ToSet(p)
    BY <2>2, ToSetIs
  <2> QED BY <2>2, <2>3, ToSetBehind
<1>6. Fits(chans, blind, mixed, up, down, srv, cs, blind, mixed, u)
  <2>1. ASSUME NEW ch \in Channel, NEW q, Right(ch, chans, blind, mixed, up, down, q)
        PROVE  Right(ch, cs, blind, mixed, u, down, q)
    <3>1. CASE ch = c
      <4>1. Leaves(ch, u, down) /\ Listed(cs, ch) = Nobody
        BY <1>3, <1>5, <3>1 DEF Leaves
      <4> QED BY <4>1, RoomsAre DEF Right, Agrees
    <3>2. CASE ch # c
      <4>1. Listed(cs, ch) = Listed(chans, ch) /\ (Leaves(ch, up, down) => Leaves(ch, u, down))
        BY <1>3, <1>5, <3>2 DEF Leaves
      <4>2. Agrees(Listed(chans, ch), q, ch \in blind \/ Leaves(ch, u, down), ch \in mixed)
        BY <2>1, <4>1 DEF Right, Agrees
      <4> QED BY <4>1, <4>2 DEF Right
    <3> QED BY <3>1, <3>2
  <2> QED BY <2>1 DEF Fits
<1> QED BY <1>1, <1>2, <1>3, <1>4, <1>5, <1>6 DEF Moves, ChannelsTyped

\* "preload join.so": the channels the bot is in, or that a line under way is about, are not seen any more.
LEMMA ReloadJoinMoves == ASSUME ChannelsTyped, ReloadJoin PROVE Moves
<1>1. /\ srv' = srv /\ online' = online /\ down' = down /\ up' = up /\ ordered' = Configured /\ mixed' = mixed
      /\ blind' = {ch \in Channel : In(ch) \/ AboutIt(ch, down)} /\ Welcoming \notin ToSet(down)
      /\ chans' = [ch \in Heads |-> [retries |-> 0, members |-> Nobody]]
      /\ down \in Seq(DownLines) /\ srv \in [Channel -> Rooms]
  BY DEF ReloadJoin, server, Listening, UnderWay, ChannelsTyped
<1>2. PICK cs, bl : cs = chans' /\ bl = blind'
  OBVIOUS
<1>3. cs \in AllLists /\ \A ch : Listed(cs, ch) = Nobody
  <2> DEFINE e == [retries |-> 0, members |-> Nobody]
  <2>1. e \in Entry /\ e.members = Nobody
    BY RoomsAre, EntryMade
  <2>2. cs = [ch \in Heads |-> e]
    BY <1>1, <1>2
  <2> HIDE DEF e
  <2>3. cs \in [Heads -> Entry] /\ Heads \in SUBSET Channel /\ \A ch \in Heads : cs[ch] = e
    BY <2>1, <2>2, ChannelsAssumption
  <2>4. cs \in AllLists /\ DOMAIN cs = Heads
    BY <2>3, ListMade
  <2> QED BY <2>1, <2>3, <2>4 DEF Listed
<1>4. ASSUME NEW ch \in Channel, NEW l \in ToSet(down), Leaving(ch, l) PROVE ch \in bl
  <2>1. l # Welcoming
    BY <1>1
  <2>2. l = Parted(ch, Me) \/ l = Kicked(ch, Me)
    BY <1>4, <2>1 DEF Leaving
  <2>3. PICK i \in DOMAIN down : down[i] = l
    BY DEF ToSet
  <2>4. "ch" \in DOMAIN l /\ l.ch = ch
    BY <2>2 DEF Parted, Kicked
  <2>5. AboutIt(ch, down)
    BY <2>3, <2>4 DEF AboutIt
  <2> QED BY <1>1, <1>2, <2>5
<1>5. \A ch \in Channel : Me \in DOMAIN Seen(srv, ch) => ch \in bl
  BY <1>1, <1>2, SeenIs DEF In
<1>6. Fits(chans, blind, mixed, up, down, srv, cs, bl, mixed, up)
  <2>1. ASSUME NEW ch \in Channel, NEW q, q = Nobody \/ ch \in bl PROVE Right(ch, cs, bl, mixed, up, down, q)
    BY <1>3, <2>1, RoomsAre DEF Right, Agrees
  <2> QED BY <1>4, <1>5, <2>1 DEF Fits
<1> QED BY <1>1, <1>2, <1>3, <1>6, ChannelsAssumption DEF Moves, ChannelsTyped

\* The server takes the first line.
LEMMA FirstTaken ==
  ASSUME ChannelsTyped, up # <<>>
  PROVE  /\ Tail(up) \in Seq(UpLines) /\ Head(up) \in UpLines /\ ToSet(up) = {Head(up)} \cup ToSet(Tail(up))
         /\ \A ch : Parting(ch) \in ToSet(up) /\ Head(up) # Parting(ch) => Parting(ch) \in ToSet(Tail(up))
BY ToSetTail DEF ChannelsTyped

\* What is not a PART is of no account for what the bot will read.
LEMMA OtherTaken ==
  ASSUME ChannelsTyped, up # <<>>, Head(up).what # "PART", NEW d, NEW sv
  PROVE  Fits(chans, blind, mixed, up, d, sv, chans, blind, mixed, Tail(up))
<1>1. \A ch : Head(up) # Parting(ch)
  BY LineFields
<1>2. PICK u : u = Tail(up)
  OBVIOUS
<1>3. \A ch \in Channel : Parting(ch) \in ToSet(up) => Parting(ch) \in ToSet(u)
  BY <1>1, <1>2, FirstTaken
<1>4. Fits(chans, blind, mixed, up, d, sv, chans, blind, mixed, u)
  BY <1>3, FitsSame
<1> QED BY <1>2, <1>4

\* What the server does with a line
Answers ==
  /\ online /\ online' = online /\ chans' = chans /\ ordered' = ordered /\ blind' = blind /\ mixed' = mixed
  /\ srv' \in [Channel -> Rooms] /\ up' \in Seq(UpLines) /\ down' \in Seq(DownLines) /\ WelcomedFirst(down')
  /\ Views(chans, blind, mixed, up', down', srv')

\* It keeps the invariants.
LEMMA AnswersKeep == ASSUME ChannelsTyped, ViewInv, Answers PROVE ChannelsTyped' /\ ViewInv'
<1>1. ChannelsTyped'
  BY DEF Answers, ChannelsTyped
<1>2. ViewInv'
  BY DEF Answers, ViewInv, Views, WelcomedFirst
<1> QED BY <1>1, <1>2

\* A JOIN is refused, or the bot is let in and told so, with the names.
LEMMA TakesJoinAnswers == ASSUME ChannelsTyped, ViewInv, TakesJoin PROVE Answers
<1> DEFINE c == Head(up).ch
<1>1. /\ online /\ online' = online /\ chans' = chans /\ ordered' = ordered /\ blind' = blind /\ mixed' = mixed
      /\ up # <<>> /\ up' = Tail(up) /\ Head(up).what = "JOIN"
  BY DEF TakesJoin, Takes, bot, ghosts
<1>2. c \in Channel /\ up' \in Seq(UpLines)
  BY <1>1, FirstTaken, UpLinesSpeak
<1>3. PICK u : u = Tail(up)
  OBVIOUS
<1>4. Views(chans, blind, mixed, u, down, srv)
  <2>1. Fits(chans, blind, mixed, up, down, srv, chans, blind, mixed, u)
    BY <1>1, <1>3, OtherTaken
  <2> QED BY <1>1, <2>1, ViewsKept DEF ChannelsTyped, ViewInv
<1>5. srv \in [Channel -> Rooms] /\ down \in Seq(DownLines) /\ WelcomedFirst(down)
  BY DEF ChannelsTyped, ViewInv
<1>6. CASE srv' = srv /\ down' = down
  BY <1>1, <1>2, <1>3, <1>4, <1>5, <1>6 DEF Answers
<1>7. CASE ~In(c) /\ srv' = [srv EXCEPT ![c] = With(@, Me, FALSE)] /\ Tell(<<Joined(c, Me), Names(c, srv'[c])>>)
  <2>1. PICK r \in Rooms : r = With(srv[c], Me, FALSE)
    BY <1>2, <1>5, RoomsAre
  <2>2. PICK r1 \in Rooms : r1 = With(Nobody, Me, FALSE)
    BY RoomsAre
  <2>3. DOMAIN r1 = {Me} /\ Me \in DOMAIN r /\ Me \notin DOMAIN srv[c]
    BY <1>7, <2>1, <2>2, RoomsAre DEF In, With
  <2>4. srv' = [srv EXCEPT ![c] = r] /\ srv'[c] = r /\ srv' \in [Channel -> Rooms]
    BY <1>2, <1>5, <1>7, <2>1
  <2>5. PICK sv1 \in [Channel -> Rooms] : sv1 = [srv EXCEPT ![c] = r1]
    BY <1>5
  <2>6. PICK j \in DownLines, n \in DownLines : j = Joined(c, Me) /\ n = Names(c, r)
    BY <1>2, LineTypes, RoomsAre
  <2>7. PICK d1 \in Seq(DownLines) : d1 = down \o <<j>>
    BY <1>5, OneMore
  <2>8. down' = d1 \o <<n>>
    <3>1. down' = down \o <<j, n>>
      BY <1>7, <2>4, <2>6 DEF Tell
    <3>2. down \o <<j, n>> = (down \o <<j>>) \o <<n>>
      BY <1>5, TwoMore
    <3> QED BY <2>7, <3>1, <3>2
  <2>9. j.what = "JOIN" /\ j.ch = c /\ j.nick = Me /\ n.what = "353" /\ n.ch = c /\ n.members = r /\ j # Welcoming /\ n # Welcoming
    BY <2>6, LineFields
  <2>10. SaidLine(online, down, srv, d1, sv1, j)
    <3>1. ASSUME NEW ch \in Channel
          PROVE  Legal(ch, j, Seen(srv, ch)) /\ Seen(sv1, ch) = RoomAfter(ch, j, Seen(srv, ch))
      <4>1. CASE ch = c
        <5>1. Seen(srv, ch) = Nobody /\ Seen(sv1, ch) = r1
          BY <1>2, <1>5, <2>3, <2>5, <4>1 DEF Seen
        <5>2. Legal(ch, j, Nobody) /\ RoomAfter(ch, j, Nobody) = r1
          BY <2>2, <2>9, <4>1, RoomsAre DEF Legal, RoomAfter
        <5> QED BY <5>1, <5>2
      <4>2. CASE ch # c
        <5>1. Seen(sv1, ch) = Seen(srv, ch)
          BY <1>5, <2>5, <4>2 DEF Seen
        <5>2. \A q : Legal(ch, j, q) /\ RoomAfter(ch, j, q) = q
          BY <2>9, <4>2 DEF Legal, RoomAfter
        <5> QED BY <5>1, <5>2
      <4> QED BY <4>1, <4>2
    <3> QED BY <1>1, <2>7, <2>9, <3>1 DEF SaidLine
  <2>11. SaidLine(online, d1, sv1, down', srv', n)
    <3>1. ASSUME NEW ch \in Channel
          PROVE  Legal(ch, n, Seen(sv1, ch)) /\ Seen(srv', ch) = RoomAfter(ch, n, Seen(sv1, ch))
      <4>1. CASE ch = c
        <5>1. Seen(sv1, ch) = r1 /\ Seen(srv', ch) = r
          BY <1>2, <1>5, <2>3, <2>4, <2>5, <4>1 DEF Seen
        <5>2. Legal(ch, n, r1) /\ RoomAfter(ch, n, r1) = r
          BY <2>3, <2>9, <4>1 DEF Legal, RoomAfter
        <5> QED BY <5>1, <5>2
      <4>2. CASE ch # c
        <5>1. Seen(sv1, ch) = Seen(srv', ch)
          BY <1>5, <2>4, <2>5, <4>2 DEF Seen
        <5>2. \A q : Legal(ch, n, q) /\ RoomAfter(ch, n, q) = q
          BY <2>9, <4>2 DEF Legal, RoomAfter
        <5> QED BY <5>1, <5>2
      <4> QED BY <4>1, <4>2
    <3> QED BY <1>1, <2>8, <2>9, <3>1 DEF SaidLine
  <2>12. Says(online, down, srv, d1, sv1) /\ Says(online, d1, sv1, down', srv')
    BY <2>10, <2>11 DEF Says
  <2>13. Views(chans, blind, mixed, u, d1, sv1) /\ WelcomedFirst(d1)
    BY <1>4, <1>5, <2>12, ViewsSaid, SaidType
  <2>14. PICK d2 : d2 = down'
    OBVIOUS
  <2>15. PICK sv2 : sv2 = srv'
    OBVIOUS
  <2>16. Says(online, d1, sv1, d2, sv2)
    BY <2>12, <2>14, <2>15
  <2>17. Views(chans, blind, mixed, u, d2, sv2) /\ d2 \in Seq(DownLines) /\ WelcomedFirst(d2)
    BY <2>13, <2>16, ViewsSaid, SaidType
  <2> QED BY <1>1, <1>2, <1>3, <2>4, <2>14, <2>15, <2>17 DEF Answers
<1> QED BY <1>6, <1>7 DEF TakesJoin

\* A PART takes the bot out, and it is told so.
LEMMA TakesPartAnswers == ASSUME ChannelsTyped, ViewInv, TakesPart PROVE Answers
<1> DEFINE c == Head(up).ch
<1>1. /\ online /\ online' = online /\ chans' = chans /\ ordered' = ordered /\ blind' = blind /\ mixed' = mixed
      /\ up # <<>> /\ up' = Tail(up) /\ Head(up).what = "PART"
  BY DEF TakesPart, Takes, bot, ghosts
<1>2. c \in Channel /\ up' \in Seq(UpLines) /\ \A ch \in Channel : ch # c => Head(up) # Parting(ch)
  BY <1>1, FirstTaken, UpLinesSpeak, LineFields
<1>3. PICK u : u = Tail(up)
  OBVIOUS
<1>5. srv \in [Channel -> Rooms] /\ down \in Seq(DownLines) /\ WelcomedFirst(down) /\ Views(chans, blind, mixed, up, down, srv)
  BY <1>1 DEF ChannelsTyped, ViewInv
<1>4. ASSUME NEW d, NEW sv, NEW ch \in Channel, NEW q, Right(ch, chans, blind, mixed, up, d, q),
             \/ ch # c
             \/ q = Nobody
             \/ Parted(ch, Me) \in ToSet(d) \/ Kicked(ch, Me) \in ToSet(d)
      PROVE  Right(ch, chans, blind, mixed, u, d, q)
  <2>1. CASE q = Nobody
    <3>1. PICK v \in Rooms : v = Listed(chans, ch)
      BY ChannelListIs DEF ChannelsTyped
    <3>2. Agrees(v, Nobody, ch \in blind \/ Leaves(ch, up, d), ch \in mixed)
      BY <1>4, <2>1, <3>1 DEF Right
    <3>3. v = Nobody
      BY <3>1, <3>2, SureOfNobody
    <3> QED BY <2>1, <3>1, <3>3, RoomsAre DEF Right, Agrees
  <2>2. CASE q # Nobody
    <3>1. Leaves(ch, up, d) => Leaves(ch, u, d)
      BY <1>1, <1>2, <1>3, <1>4, <2>2, FirstTaken DEF Leaves
    <3> QED BY <1>4, <3>1 DEF Right, Agrees
  <2> QED BY <2>1, <2>2
<1>6. CASE In(c)
  <2>1. srv' = [srv EXCEPT ![c] = Without(@, Me)] /\ down' = down \o <<Parted(c, Me)>>
    BY <1>6 DEF TakesPart, Tell
  <2>2. PICK l \in DownLines : l = Parted(c, Me)
    BY <1>2, LineTypes, RoomsAre
  <2>3. PICK r \in Rooms : r = Without(srv[c], Me)
    BY <1>2, <1>5, RoomsAre
  <2>4. l.what = "PART" /\ l.ch = c /\ l.nick = Me /\ l # Welcoming
    BY <2>2, LineFields
  <2>5. srv' = [srv EXCEPT ![c] = r] /\ Me \notin DOMAIN r /\ Me \in DOMAIN srv[c]
    BY <1>6, <2>1, <2>3 DEF Without, In
  <2>6. down' = down \o <<l>> /\ Legal(c, l, srv[c]) /\ RoomAfter(c, l, srv[c]) = Nobody
    BY <2>1, <2>2, <2>4 DEF Legal, RoomAfter
  <2>7. srv' \in [Channel -> Rooms] /\ Says(online, down, srv, down', srv')
    <3>1. srv \in [Channel -> Rooms] /\ l.what \in {"JOIN", "PART", "KICK", "MODE"} /\ l.ch = c
      BY <1>5, <2>4
    <3>2. /\ \A ch \in Channel : Me \in DOMAIN srv[ch] => online
          /\ Me \in DOMAIN srv[c] => /\ down' = down \o <<l>> /\ Legal(c, l, srv[c])
                                     /\ Me \in DOMAIN r => RoomAfter(c, l, srv[c]) = r
                                     /\ Me \notin DOMAIN r => RoomAfter(c, l, srv[c]) = Nobody
          /\ Me \notin DOMAIN srv[c] => down' = down /\ Me \notin DOMAIN r
      BY <1>1, <2>5, <2>6
    <3>3. srv' = [srv EXCEPT ![c] = r] /\ c \in Channel
      BY <1>2, <2>5
    <3> HIDE DEF c
    <3> QED BY ONLY l \in DownLines, r \in Rooms, <3>1, <3>2, <3>3, OneChannel
  <2>8. PICK d2 \in Seq(DownLines) : d2 = down' /\ WelcomedFirst(d2)
    BY <1>5, <2>7, SaidType
  <2>9. PICK sv2 \in [Channel -> Rooms] : sv2 = srv'
    BY <2>7
  <2>10. Says(online, down, srv, d2, sv2)
    BY <2>7, <2>8, <2>9
  <2>11. Views(chans, blind, mixed, up, d2, sv2)
    BY <1>5, <2>10, ViewsSaid
  <2>12. Parted(c, Me) \in ToSet(d2)
    <3>1. ToSet(down \o <<l>>) = ToSet(down) \cup {l}
      BY <1>5, OneMore
    <3> QED BY <2>2, <2>6, <2>8, <3>1
  <2>13. Fits(chans, blind, mixed, up, d2, sv2, chans, blind, mixed, u)
    BY <1>4, <2>12 DEF Fits
  <2>14. Views(chans, blind, mixed, u, d2, sv2)
    BY <2>11, <2>13, ViewsKept
  <2> QED BY <1>1, <1>2, <1>3, <2>8, <2>9, <2>14 DEF Answers
<1>7. CASE ~In(c)
  <2>1. srv' = srv /\ down' = down
    BY <1>7 DEF TakesPart
  <2>2. Me \notin DOMAIN Seen(srv, c)
    BY <1>2, <1>5, <1>7, SeenIs DEF In
  <2>3. ASSUME NEW ch \in Channel, NEW l \in ToSet(down), Leaving(ch, l), down = <<>> \/ Head(down) # Welcoming
        PROVE  Parted(ch, Me) \in ToSet(down) \/ Kicked(ch, Me) \in ToSet(down)
    <3>1. Welcoming \notin ToSet(down)
      <4>1. CASE down = <<>>
        BY <4>1 DEF ToSet
      <4>2. CASE down # <<>>
        BY <1>5, <2>3, <4>2, ToSetTail DEF WelcomedFirst
      <4> QED BY <4>1, <4>2
    <3> QED BY <2>3, <3>1 DEF Leaving
  <2>4. Fits(chans, blind, mixed, up, down, srv, chans, blind, mixed, u)
    BY <1>4, <2>2, <2>3 DEF Fits
  <2>5. Views(chans, blind, mixed, u, down, srv)
    BY <1>5, <2>4, ViewsKept
  <2> QED BY <1>1, <1>2, <1>3, <1>5, <2>1, <2>5 DEF Answers
<1> QED BY <1>6, <1>7

\* AUTH is answered, or not.
LEMMA TakesAuthAnswers == ASSUME ChannelsTyped, ViewInv, TakesAuth PROVE Answers
<1>1. /\ online /\ online' = online /\ chans' = chans /\ ordered' = ordered /\ blind' = blind /\ mixed' = mixed
      /\ up # <<>> /\ up' = Tail(up) /\ Head(up).what = "AUTH" /\ srv' = srv
  BY DEF TakesAuth, Takes, bot, ghosts
<1>2. up' \in Seq(UpLines)
  BY <1>1, FirstTaken
<1>3. PICK u : u = Tail(up)
  OBVIOUS
<1>4. Views(chans, blind, mixed, u, down, srv)
  <2>1. Fits(chans, blind, mixed, up, down, srv, chans, blind, mixed, u)
    BY <1>1, <1>3, OtherTaken
  <2> QED BY <1>1, <2>1, ViewsKept DEF ChannelsTyped, ViewInv
<1>5. srv \in [Channel -> Rooms] /\ down \in Seq(DownLines) /\ WelcomedFirst(down)
  BY DEF ChannelsTyped, ViewInv
<1>6. CASE down' = down
  BY <1>1, <1>2, <1>3, <1>4, <1>5, <1>6 DEF Answers
<1>7. CASE Tell(<<[what |-> "NOTICE"]>>)
  <2>1. PICK l \in DownLines : l = NoticeLine
    BY LineTypes
  <2>2. down' = down \o <<l>> /\ l.what = "NOTICE" /\ l # Welcoming
    BY <1>7, <2>1, LineFields DEF Tell, NoticeLine
  <2>3. \A ch \in Channel : \A q : Legal(ch, l, q) /\ RoomAfter(ch, l, q) = q
    BY <2>2 DEF Legal, RoomAfter
  <2>4. PICK d2 : d2 = down'
    OBVIOUS
  <2>5. SaidLine(online, down, srv, d2, srv, l)
    BY <1>1, <2>2, <2>3, <2>4 DEF SaidLine
  <2>6. Says(online, down, srv, d2, srv)
    BY <2>5 DEF Says
  <2>7. Views(chans, blind, mixed, u, d2, srv) /\ d2 \in Seq(DownLines) /\ WelcomedFirst(d2)
    BY <1>4, <1>5, <2>6, ViewsSaid, SaidType
  <2> QED BY <1>1, <1>2, <1>3, <1>5, <2>4, <2>7 DEF Answers
<1> QED BY <1>6, <1>7 DEF TakesAuth

\* Nothing is under way.
LEMMA NoLines == \A S : <<>> \in Seq(S) /\ ToSet(<<>>) = {} /\ Len(<<>>) = 0
<1>1. \A S : <<>> \in Seq(S)
  OBVIOUS
<1>2. Len(<<>>) = 0 /\ <<>> \in Seq({})
  OBVIOUS
<1>3. ToSet(<<>>) = {}
  <2>1. PICK s \in Seq({}) : s = <<>> /\ Len(s) = 0
    BY <1>2
  <2>2. ToSet(s) \subseteq {}
    BY ToSetIs
  <2> QED BY <2>1, <2>2
<1> QED BY <1>1, <1>2, <1>3

\* The bot registers with the server: numeric 1 is the first line.
LEMMA ConnectKeeps == ASSUME ChannelsTyped, ViewInv, Connect PROVE ChannelsTyped' /\ ViewInv'
<1>1. /\ ~online /\ online' = TRUE /\ srv' = srv /\ chans' = chans /\ ordered' = ordered /\ blind' = blind /\ mixed' = mixed
      /\ down' = <<Welcoming>>
  BY DEF Connect, bot, ghosts
<1>2. up' \in Seq(UpLines)
  <2>1. PICK k \in 0 .. Len(up) : up' = SubSeq(up, k + 1, Len(up))
    BY DEF Connect
  <2>2. up \in Seq(UpLines) /\ Len(up) \in Nat
    BY LenProperties DEF ChannelsTyped
  <2>3. k + 1 \in 1 .. Len(up) + 1 /\ Len(up) \in k .. Len(up)
    BY <2>1, <2>2
  <2> QED BY <2>1, <2>2, <2>3, SubSeqProperties
<1>3. PICK d \in Seq(DownLines) : d = <<Welcoming>> /\ d = <<>> \o <<Welcoming>> /\ Head(d) = Welcoming /\ d # <<>>
  <2>1. PICK w \in Seq(DownLines) : w = <<Welcoming>>
    <3>1. Welcoming \in DownLines
      BY LineTypes
    <3>2. <<Welcoming>> \in Seq(DownLines)
      BY <3>1
    <3> QED BY <3>2
  <2>2. <<>> \o w = w
    BY ConcatEmptySeq
  <2>3. Head(w) = Welcoming /\ w # <<>>
    BY <2>1
  <2> QED BY <2>1, <2>2, <2>3
<1>4. WelcomedFirst(d)
  <2>1. PICK t \in Seq(DownLines) : t = Tail(d)
    BY <1>3, ToSetTail
  <2>2. Len(t) = 0
    <3>1. Len(d) = 1
      BY <1>3
    <3> QED BY <1>3, <2>1, <3>1, ToSetTail
  <2>3. t = <<>>
    BY <2>2, EmptySeq
  <2> QED BY <2>1, <2>3, NoLines DEF WelcomedFirst
<1>5. PICK u : u = up'
  OBVIOUS
<1>6. ASSUME NEW ch \in Channel PROVE StoryOf(ch, chans, blind, mixed, u, d, Seen(srv, ch))
  <2>1. Seen(srv, ch) = Nobody /\ Nobody \in Closed
    BY <1>1, RoomsAre DEF ViewInv, Seen, Closed
  <2>2. PICK h : Tale(ch, <<>>, h) /\ h[0] = Nobody
    BY <2>1, TaleOfNothing
  <2>3. Legal(ch, Welcoming, Nobody) /\ RoomAfter(ch, Welcoming, Nobody) = Nobody
    BY LineFields DEF Legal, RoomAfter
  <2>4. \E g : Tale(ch, <<>> \o <<Welcoming>>, g) /\ g[0] = h[0]
               /\ g[Len(<<>> \o <<Welcoming>>)] = RoomAfter(ch, Welcoming, Nobody)
    <3>1. PICK e \in Seq(DownLines) : e = <<>> /\ Len(e) = 0
      BY NoLines
    <3>2. \E g : Tale(ch, e \o <<Welcoming>>, g) /\ g[0] = h[0]
                 /\ g[Len(e \o <<Welcoming>>)] = RoomAfter(ch, Welcoming, Nobody)
      <4>1. PICK l \in DownLines : l = Welcoming
        BY LineTypes
      <4>2. Tale(ch, e, h) /\ h[Len(e)] = Nobody /\ Legal(ch, l, Nobody)
        BY <2>2, <2>3, <3>1, <4>1
      <4>3. \E g : Tale(ch, e \o <<l>>, g) /\ g[0] = h[0] /\ g[Len(e \o <<l>>)] = RoomAfter(ch, l, Nobody)
        BY <4>2, TaleGrows
      <4> QED BY <4>1, <4>3
    <3> QED BY <3>1, <3>2
  <2>5. PICK g : Tale(ch, d, g) /\ g[Len(d)] = Nobody
    BY <1>3, <2>3, <2>4
  <2> QED BY <1>3, <2>1, <2>5 DEF StoryOf
<1>7. Views(chans, blind, mixed, u, d, srv)
  BY <1>6 DEF Views
<1>8. ChannelsTyped'
  BY <1>1, <1>2, <1>3 DEF ChannelsTyped
<1>9. ViewInv'
  BY <1>1, <1>3, <1>4, <1>5, <1>7 DEF ViewInv, Views, WelcomedFirst
<1> QED BY <1>8, <1>9

\* The connection breaks: the server takes the bot out everywhere, and what was under way to it is lost.
LEMMA LoseKeeps == ASSUME ChannelsTyped, LoseConnection PROVE ChannelsTyped' /\ ViewInv'
<1>1. /\ online' = FALSE /\ srv' = [ch \in Channel |-> Without(srv[ch], Me)] /\ down' = <<>> /\ up' = up
      /\ chans' = chans /\ ordered' = ordered
  BY DEF LoseConnection, bot
<1>2. srv' \in [Channel -> Rooms] /\ \A ch \in Channel : Me \notin DOMAIN srv'[ch]
  <2>1. ASSUME NEW ch \in Channel PROVE Without(srv[ch], Me) \in Rooms /\ Me \notin DOMAIN Without(srv[ch], Me)
    BY RoomsAre DEF ChannelsTyped, Without
  <2> QED BY <1>1, <2>1
<1>3. ChannelsTyped'
  BY <1>1, <1>2, NoLines DEF ChannelsTyped
<1>4. ViewInv'
  BY <1>1, <1>2 DEF ViewInv, WelcomedFirst
<1> QED BY <1>3, <1>4

\* Other users come, go, and are changed.
LEMMA UsersKeep == ASSUME ChannelsTyped, ViewInv, Users PROVE ChannelsTyped' /\ ViewInv'
<1>1. /\ online' = online /\ up' = up /\ chans' = chans /\ ordered' = ordered /\ blind' = blind /\ mixed' = mixed
  BY DEF Users, bot
<1>2. \A ch \in Channel : Me \in DOMAIN srv[ch] => online
  BY DEF ViewInv
<1>3. srv' \in [Channel -> Rooms] /\ Says(online, down, srv, down', srv')
  BY <1>2, UsersSay
<1>4. PICK d2 : d2 = down'
  OBVIOUS
<1>5. PICK sv2 \in [Channel -> Rooms] : sv2 = srv'
  BY <1>3
<1>6. Says(online, down, srv, d2, sv2) /\ down \in Seq(DownLines) /\ srv \in [Channel -> Rooms] /\ WelcomedFirst(down)
  BY <1>3, <1>4, <1>5 DEF ChannelsTyped, ViewInv
<1>7. d2 \in Seq(DownLines) /\ WelcomedFirst(d2)
  BY <1>6, SaidType
<1>8. online => Views(chans, blind, mixed, up, d2, sv2)
  BY <1>6, ViewsSaid DEF ViewInv
<1>9. ~online => d2 = <<>> /\ \A ch \in Channel : Me \notin DOMAIN sv2[ch]
  BY <1>6, SaysOffline DEF ViewInv
<1>10. ChannelsTyped'
  BY <1>1, <1>4, <1>5, <1>7 DEF ChannelsTyped
<1>11. ViewInv'
  BY <1>1, <1>4, <1>5, <1>7, <1>8, <1>9 DEF ViewInv, Views, WelcomedFirst
<1> QED BY <1>10, <1>11

\* At first the bot is nowhere.
LEMMA ViewInit == ASSUME ChannelsInit PROVE ChannelsTyped /\ ViewInv
<1>1. srv \in [Channel -> Rooms] /\ \A ch \in Channel : Me \notin DOMAIN srv[ch]
  BY RoomsAre DEF ChannelsInit
<1>2. chans \in AllLists
  <2>1. PICK e \in Entry : e = [retries |-> 0, members |-> Nobody]
    BY RoomsAre, EntryMade
  <2>2. chans \in [Configured -> Entry] /\ Configured \in SUBSET Channel
    BY <2>1, ChannelsAssumption DEF ChannelsInit
  <2> QED BY <2>2, ListMade
<1>3. ChannelsTyped
  BY <1>1, <1>2, NoLines, ChannelsAssumption DEF ChannelsInit, ChannelsTyped
<1>4. ViewInv
  BY <1>1 DEF ChannelsInit, ViewInv, WelcomedFirst
<1> QED BY <1>3, <1>4

\* Every step keeps the invariants.
LEMMA ViewStep == ASSUME ChannelsTyped, ViewInv, [ChannelsNext]_channelsVars PROVE ChannelsTyped' /\ ViewInv'
<1>1. CASE Receive
  BY <1>1, ReceiveKeeps
<1>2. CASE Timer
  BY <1>2, TimerMoves, MovesKeep
<1>3. CASE ReloadJoin
  BY <1>3, ReloadJoinMoves, MovesKeep
<1>4. ASSUME NEW ch \in Channel, OrderJoin(ch) \/ OrderPart(ch) PROVE ChannelsTyped' /\ ViewInv'
  BY <1>4, OrderJoinMoves, OrderPartMoves, MovesKeep
<1>5. CASE Connect
  BY <1>5, ConnectKeeps
<1>6. CASE LoseConnection
  BY <1>6, LoseKeeps
<1>7. CASE ServerTakes
  BY <1>7, TakesJoinAnswers, TakesPartAnswers, TakesAuthAnswers, AnswersKeep DEF ServerTakes
<1>8. CASE Users
  BY <1>8, UsersKeep
<1>9. CASE UNCHANGED channelsVars
  BY <1>9 DEF channelsVars, server, bot, ghosts, ChannelsTyped, ViewInv, Views, WelcomedFirst
<1> QED BY <1>1, <1>2, <1>3, <1>4, <1>5, <1>6, <1>7, <1>8, <1>9 DEF ChannelsNext

\* When nothing is under way the story is at its end.
LEMMA ViewIs == ASSUME ChannelsTyped, ViewInv PROVE ViewAgrees
<1> SUFFICES ASSUME online, up = <<>>, down = <<>> PROVE ViewAgrees
  BY DEF ViewAgrees, Quiet
<1>1. ASSUME NEW ch \in Channel
      PROVE  Agrees(Listed(chans, ch), Seen(srv, ch), ch \in blind, ch \in mixed)
  <2>1. PICK h : h[Len(down)] = Seen(srv, ch) /\ Right(ch, chans, blind, mixed, up, down, h[0])
    BY DEF ViewInv, Views, StoryOf
  <2>2. Right(ch, chans, blind, mixed, up, down, Seen(srv, ch))
    BY <2>1, NoLines
  <2>3. ~Leaves(ch, up, down)
    BY NoLines DEF Leaves
  <2> QED BY <2>2, <2>3 DEF Right, Agrees
<1>2. srv \in [Channel -> Rooms] /\ chans \in AllLists
  BY DEF ChannelsTyped
<1>3. ASSUME NEW ch \in Channel \ blind
      PROVE  IF In(ch) THEN ch \in DOMAIN chans /\ DOMAIN chans[ch].members = DOMAIN srv[ch]
             ELSE ch \in DOMAIN chans => chans[ch].members = Nobody
  <2>1. DOMAIN Listed(chans, ch) = DOMAIN Seen(srv, ch)
    BY <1>1 DEF Agrees
  <2>2. CASE In(ch)
    <3>1. Me \in DOMAIN Listed(chans, ch) /\ DOMAIN Listed(chans, ch) = DOMAIN srv[ch]
      BY <2>1, <2>2 DEF Seen, In
    <3>2. ch \in DOMAIN chans
      BY <3>1, RoomsAre DEF Listed
    <3> QED BY <2>2, <3>1, <3>2 DEF Listed
  <2>3. CASE ~In(ch)
    <3>1. DOMAIN Listed(chans, ch) = {}
      BY <2>1, <2>3, RoomsAre DEF Seen, In
    <3>2. Listed(chans, ch) = Nobody
      BY <1>2, <3>1, ChannelListIs, RoomsAre
    <3> QED BY <2>3, <3>2 DEF Listed
  <2> QED BY <2>2, <2>3
<1>4. ASSUME NEW ch \in DOMAIN chans \ mixed, NEW u \in Other, u \in DOMAIN chans[ch].members \cap DOMAIN srv[ch]
      PROVE  chans[ch].members[u] = srv[ch][u]
  <2>1. ch \in Channel /\ Listed(chans, ch) = chans[ch].members
    BY <1>2, ChannelListIs DEF Listed
  <2>2. u \in DOMAIN Seen(srv, ch) /\ chans[ch].members[u] = Seen(srv, ch)[u]
    BY <1>1, <1>4, <2>1 DEF Agrees
  <2>3. Seen(srv, ch) = srv[ch]
    BY <2>2, RoomsAre DEF Seen
  <2> QED BY <2>2, <2>3
<1> QED BY <1>3, <1>4 DEF ViewAgrees, OpsAgree

\* When nothing is under way, the lists of the bot are those of the server, with the operators (src/join.c, all of reply),
\* but where join.so was loaded anew, and where one MODE line had two signs.
THEOREM ChannelsViewAgrees == ChannelsSpec => []ViewAgrees
<1>1. ChannelsInit => ChannelsTyped /\ ViewInv
  BY ViewInit
<1>2. ChannelsTyped /\ ViewInv /\ [ChannelsNext]_channelsVars => ChannelsTyped' /\ ViewInv'
  BY ViewStep
<1>3. ChannelsTyped /\ ViewInv => ViewAgrees
  BY ViewIs
<1> QED BY <1>1, <1>2, <1>3, PTL DEF ChannelsSpec

-----------------------------------------------------------------------------
(* The channels that the bot was told to be in, and those it was told to leave *)

\* Every JOIN that waits is followed by a PART.
Gated(c, u) == \A i \in 1 .. Len(u) : u[i] = Ordered(c) => \E j \in 1 .. Len(u) : i < j /\ u[j] = Parting(c)

\* The bot is to be in: it is in the list, and nothing that takes it out of it is under way.
ToBeIn(cs, u, d, c) == c \in DOMAIN cs /\ Parting(c) \notin ToSet(u) /\ Parted(c, Me) \notin ToSet(d)

\* The bot is not to be in: a PART follows it, or has been answered, and then takes it out of the list.
ToBeOut(cs, u, d, in, on, c) ==
  /\ Kicked(c, Me) \notin ToSet(d) /\ Gated(c, u)
  /\ in => Parting(c) \in ToSet(u)
  /\ c \in DOMAIN cs => Parted(c, Me) \in ToSet(d) \/ in
  /\ ~on \/ Welcoming \in ToSet(d) => c \notin DOMAIN cs /\ Ordered(c) \notin ToSet(u) /\ ~in

OrderOf(c) ==
  /\ c \in ordered => ToBeIn(chans, up, down, c)
  /\ c \notin ordered => ToBeOut(chans, up, down, In(c), online, c)

OrderInv == \A c \in Channel \ doubt : OrderOf(c)

\* The lines to the server come, go, and are looked for.
LEMMA GatedAre ==
  ASSUME NEW c \in Channel, NEW u \in Seq(UpLines)
  PROVE  /\ Ordered(c) \notin ToSet(u) => Gated(c, u)
         /\ Gated(c, u) /\ Parting(c) \notin ToSet(u) => Ordered(c) \notin ToSet(u)
         /\ \A t \in Seq(UpLines) : Gated(c, u) /\ Ordered(c) \notin ToSet(t) => Gated(c, u \o t)
         /\ Gated(c, u \o <<Parting(c)>>)
         /\ Gated(c, u) /\ u # <<>> => Gated(c, Tail(u)) /\ (Head(u) = Ordered(c) => Parting(c) \in ToSet(Tail(u)))
<1>1. Len(u) \in Nat /\ \A x : x \in ToSet(u) <=> \E i \in 1 .. Len(u) : u[i] = x
  BY ToSetIs
<1>2. Ordered(c) \notin ToSet(u) => Gated(c, u)
  BY <1>1 DEF Gated
<1>3. Gated(c, u) /\ Parting(c) \notin ToSet(u) => Ordered(c) \notin ToSet(u)
  BY <1>1 DEF Gated
<1>4. ASSUME NEW t \in Seq(UpLines), \/ Gated(c, u) /\ Ordered(c) \notin ToSet(t)
                                     \/ Len(t) = 1 /\ t[1] = Parting(c)
      PROVE  Gated(c, u \o t)
  <2>1. PICK e : e = u \o t
    OBVIOUS
  <2>2. /\ e \in Seq(UpLines) /\ Len(e) = Len(u) + Len(t) /\ Len(t) \in Nat
        /\ \A i \in 1 .. Len(u) : i \in 1 .. Len(e) /\ e[i] = u[i]
        /\ \A i \in 1 .. Len(t) : Len(u) + i \in 1 .. Len(e) /\ e[Len(u) + i] = t[i]
        /\ \A i \in 1 .. Len(e) : i \in 1 .. Len(u) \/ (i - Len(u) \in 1 .. Len(t) /\ e[i] = t[i - Len(u)])
    BY <2>1, ToSetBehind, LenProperties
  <2>3. ASSUME NEW i \in 1 .. Len(e), e[i] = Ordered(c) PROVE \E j \in 1 .. Len(e) : i < j /\ e[j] = Parting(c)
    <3>1. CASE Gated(c, u) /\ Ordered(c) \notin ToSet(t)
      <4>1. i \in 1 .. Len(u)
        <5>1. \A k \in 1 .. Len(t) : t[k] # Ordered(c)
          BY <3>1, ToSetIs
        <5> QED BY <2>2, <2>3, <5>1
      <4>2. PICK j \in 1 .. Len(u) : i < j /\ u[j] = Parting(c)
        BY <2>2, <2>3, <3>1, <4>1 DEF Gated
      <4> QED BY <2>2, <4>2
    <3>2. CASE Len(t) = 1 /\ t[1] = Parting(c)
      <4>1. Len(e) = Len(u) + 1 /\ e[Len(u) + 1] = Parting(c)
        BY <2>2, <3>2
      <4>2. i # Len(u) + 1
        BY <2>3, <4>1, LineFields
      <4>3. Len(u) + 1 \in 1 .. Len(e) /\ i < Len(u) + 1
        BY <1>1, <4>1, <4>2
      <4> QED BY <4>1, <4>3
    <3> QED BY <1>4, <3>1, <3>2
  <2> QED BY <2>1, <2>3 DEF Gated
<1>5. Gated(c, u \o <<Parting(c)>>)
  <2>1. PICK t \in Seq(UpLines) : t = <<Parting(c)>> /\ Len(t) = 1 /\ t[1] = Parting(c)
    <3>1. Parting(c) \in UpLines
      BY LineTypes
    <3>2. <<Parting(c)>> \in Seq(UpLines)
      BY <3>1
    <3> QED BY <3>2
  <2> QED BY <1>4, <2>1
<1>6. ASSUME Gated(c, u), u # <<>> PROVE Gated(c, Tail(u)) /\ (Head(u) = Ordered(c) => Parting(c) \in ToSet(Tail(u)))
  <2>1. PICK t : t = Tail(u)
    OBVIOUS
  <2>2. /\ t \in Seq(UpLines) /\ Len(t) = Len(u) - 1 /\ Len(u) \in Nat \ {0} /\ Head(u) = u[1]
        /\ \A i \in 1 .. Len(t) : t[i] = u[i + 1]
    BY <1>6, <2>1, ToSetTail
  <2>3. ASSUME NEW i \in 1 .. Len(u), u[i] = Ordered(c) PROVE \E j \in 1 .. Len(t) : i < j + 1 /\ t[j] = Parting(c)
    <3>1. PICK j \in 1 .. Len(u) : i < j /\ u[j] = Parting(c)
      BY <1>6, <2>3 DEF Gated
    <3>2. j - 1 \in 1 .. Len(t) /\ (j - 1) + 1 = j
      BY <2>2, <3>1
    <3>3. i < (j - 1) + 1 /\ t[j - 1] = Parting(c)
      BY <2>2, <3>1, <3>2
    <3> QED BY <3>2, <3>3
  <2>4. Gated(c, t)
    <3>1. ASSUME NEW i \in 1 .. Len(t), t[i] = Ordered(c) PROVE \E j \in 1 .. Len(t) : i < j /\ t[j] = Parting(c)
      <4>1. i + 1 \in 1 .. Len(u) /\ u[i + 1] = Ordered(c)
        BY <2>2, <3>1
      <4>2. PICK j \in 1 .. Len(t) : i + 1 < j + 1 /\ t[j] = Parting(c)
        BY <2>3, <4>1
      <4>3. i < j
        BY <2>2, <4>2
      <4> QED BY <4>2, <4>3
    <3> QED BY <3>1 DEF Gated
  <2>5. ASSUME Head(u) = Ordered(c) PROVE Parting(c) \in ToSet(t)
    <3>1. 1 \in 1 .. Len(u) /\ u[1] = Ordered(c)
      BY <2>2, <2>5
    <3>2. PICK j \in 1 .. Len(t) : t[j] = Parting(c)
      BY <2>3, <3>1
    <3> QED BY <2>2, <3>2, ToSetIs
  <2> QED BY <2>1, <2>4, <2>5
<1> QED BY <1>2, <1>3, <1>4, <1>5, <1>6

-----------------------------------------------------------------------------
(* The bot reads a line. *)

\* What a line but numeric 1 may do to the list
ReadsOrders ==
  /\ down # <<>> /\ Head(down).what # "001" /\ down' = Tail(down)
  /\ srv' = srv /\ online' = online /\ up' = up /\ ordered' = ordered /\ doubt' = doubt
  /\ \A c \in Channel :
       /\ c \in DOMAIN chans /\ Head(down) # Parted(c, Me) => c \in DOMAIN chans'
       /\ c \in DOMAIN chans' => \/ c \in DOMAIN chans /\ Head(down) # Parted(c, Me)
                                 \/ Me \in DOMAIN Seen(srv, c) \/ \E l \in ToSet(Tail(down)) : Leaving(c, l)

\* It keeps the orders.
LEMMA ReadsOrdersKeep == ASSUME ChannelsTyped, ViewInv, OrderInv, ReadsOrders PROVE OrderInv'
<1>1. /\ Welcoming \notin ToSet(Tail(down)) /\ online /\ down # <<>> /\ down \in Seq(DownLines)
      /\ ToSet(down) = {Head(down)} \cup ToSet(Tail(down)) /\ srv \in [Channel -> Rooms]
  BY ToSetTail DEF ReadsOrders, ViewInv, WelcomedFirst, ChannelsTyped
<1>2. ASSUME NEW c \in Channel \ doubt, c \in ordered PROVE ToBeIn(chans', up, Tail(down), c)
  <2>1. ToBeIn(chans, up, down, c)
    BY <1>2 DEF OrderInv, OrderOf
  <2>2. Head(down) # Parted(c, Me)
    BY <1>1, <2>1 DEF ToBeIn
  <2>3. c \in DOMAIN chans'
    BY <2>1, <2>2 DEF ToBeIn, ReadsOrders
  <2> QED BY <1>1, <2>1, <2>3 DEF ToBeIn
<1>3. ASSUME NEW c \in Channel \ doubt, c \notin ordered PROVE ToBeOut(chans', up, Tail(down), In(c), online, c)
  <2>1. ToBeOut(chans, up, down, In(c), online, c)
    BY <1>3 DEF OrderInv, OrderOf
  <2>2. /\ Kicked(c, Me) \notin ToSet(down) /\ Gated(c, up) /\ (In(c) => Parting(c) \in ToSet(up))
        /\ c \in DOMAIN chans => Parted(c, Me) \in ToSet(down) \/ In(c)
    BY <2>1 DEF ToBeOut
  <2>3. ASSUME c \in DOMAIN chans' PROVE Parted(c, Me) \in ToSet(Tail(down)) \/ In(c)
    <3>1. CASE c \in DOMAIN chans /\ Head(down) # Parted(c, Me)
      BY <1>1, <2>2, <3>1
    <3>2. CASE Me \in DOMAIN Seen(srv, c)
      BY <1>1, <3>2, SeenIs DEF In
    <3>3. CASE \E l \in ToSet(Tail(down)) : Leaving(c, l)
      BY <1>1, <2>2, <3>3 DEF Leaving
    <3> QED BY <2>3, <3>1, <3>2, <3>3 DEF ReadsOrders
  <2> QED BY <1>1, <2>2, <2>3 DEF ToBeOut
<1>4. /\ srv' = srv /\ online' = online /\ up' = up /\ ordered' = ordered /\ doubt' = doubt /\ down' = Tail(down)
  BY DEF ReadsOrders
<1> QED BY <1>2, <1>3, <1>4 DEF OrderInv, OrderOf, In

\* What any of them leaves alone
ReadsOnly ==
  /\ down # <<>> /\ Head(down).what # "001" /\ down' = Tail(down)
  /\ srv' = srv /\ online' = online /\ up' = up /\ ordered' = ordered /\ doubt' = doubt

\* Only the bot's own PART takes a channel from the list.
LEMMA StaysListed ==
  ASSUME ReadsOnly, \A c \in Channel : c \in DOMAIN chans' <=> c \in DOMAIN chans /\ Head(down) # Parted(c, Me)
  PROVE  ReadsOrders
BY DEF ReadsOnly, ReadsOrders

\* Any other line leaves it there.
LEMMA AllStayListed ==
  ASSUME ReadsOnly, Head(down).what # "PART", DOMAIN chans' = DOMAIN chans
  PROVE  ReadsOrders
<1>1. \A c \in Channel : Head(down) # Parted(c, Me)
  BY LineFields
<1>2. \A c \in Channel : c \in DOMAIN chans' <=> c \in DOMAIN chans /\ Head(down) # Parted(c, Me)
  BY <1>1
<1> QED BY <1>2, StaysListed

\* A channel is put into the list where the bot is in at that line.
LEMMA GetsListed ==
  ASSUME ChannelsTyped, ViewInv, ReadsOnly, Head(down).what \in {"JOIN", "353"},
         DOMAIN chans' = DOMAIN chans \cup {Head(down).ch}
  PROVE  ReadsOrders
<1> DEFINE l == Head(down)
           a == Head(down).ch
<1>1. down \in Seq(DownLines) /\ down # <<>> /\ l \in DownLines /\ Spoken(l) /\ a \in Channel
  BY ToSetTail, DownLinesSpeak DEF ChannelsTyped, ReadsOnly, Spoken
<1>2. ASSUME NEW q \in Closed, Legal(a, l, q) PROVE Me \in DOMAIN RoomAfter(a, l, q)
  <2>1. CASE l.what = "JOIN"
    <3>1. RoomAfter(a, l, q) = With(q, l.nick, FALSE) /\ (l.nick = Me \/ Me \in DOMAIN q)
      BY <1>2, <2>1 DEF Legal, RoomAfter
    <3> QED BY <3>1 DEF With
  <2>2. CASE l.what = "353"
    <3>1. RoomAfter(a, l, q) = l.members /\ Me \in DOMAIN l.members
      BY <1>2, <2>2 DEF Legal, RoomAfter
    <3> QED BY <3>1
  <2> QED BY <2>1, <2>2
<1>3. online /\ StoryOf(a, chans, blind, mixed, up, down, Seen(srv, a))
  BY <1>1 DEF ViewInv, Views
<1>4. \A q \in Closed : Legal(a, Head(down), q) => Me \in DOMAIN RoomAfter(a, Head(down), q)
  BY <1>2
<1>5. PICK r : r = Seen(srv, a)
  OBVIOUS
<1>6. a \in Channel /\ StoryOf(a, chans, blind, mixed, up, down, r)
  BY <1>1, <1>3, <1>5
<1> HIDE DEF a, l
<1>7. Me \in DOMAIN r \/ \E x \in ToSet(Tail(down)) : Leaving(a, x)
  BY <1>1, <1>4, <1>6, StoryLeaves
<1>8. \A c : Head(down) # Parted(c, Me)
  BY LineFields
<1>9. \A c \in Channel : c \in DOMAIN chans' <=> c \in DOMAIN chans \/ c = a
  BY DEF a
<1> QED BY <1>5, <1>7, <1>8, <1>9 DEF ReadsOnly, ReadsOrders

\* Every line but numeric 1 keeps the orders.
LEMMA ReadKeeps == ASSUME ChannelsTyped, ViewInv, OrderInv, Receive, ~Welcome PROVE OrderInv'
<1> DEFINE l == Head(down)
<1>1. ReadsOnly
  BY DEF Receive, LoggedIn, UserJoined, NamesCame, UserParted, UserKicked, UserRenamed, UserQuit, ModesChanged, Got, ghosts, ReadsOnly
<1>2. chans \in AllLists /\ Spoken(l)
  BY <1>1, ToSetTail, DownLinesSpeak DEF ChannelsTyped, ReadsOnly
<1>3. CASE LoggedIn
  <2>1. chans' = chans /\ l.what = "NOTICE"
    BY <1>3 DEF LoggedIn, Got
  <2>3. l.what # "PART"
    BY <2>1
  <2> QED BY <1>1, <2>1, <2>3, AllStayListed, ReadsOrdersKeep
<1>4. CASE UserJoined
  <2>1. l.what = "JOIN" /\ chans' = JoinedList(chans, l.ch, l.nick)
    BY <1>4 DEF UserJoined, Got, JoinedList, line
  <2>2. DOMAIN chans' = DOMAIN chans \cup {l.ch}
    BY <1>2, <2>1, JoinedIs DEF Spoken
  <2> QED BY <1>1, <2>1, <2>2, GetsListed, ReadsOrdersKeep
<1>5. CASE NamesCame
  <2>1. l.what = "353" /\ chans' = NamedList(chans, l.ch, l.members)
    BY <1>5 DEF NamesCame, Got, NamedList, line
  <2>2. DOMAIN chans' = DOMAIN chans \cup {l.ch}
    BY <1>2, <2>1, NamedIs, ZenonT(30) DEF Spoken
  <2> QED BY <1>1, <2>1, <2>2, GetsListed, ReadsOrdersKeep
<1>6. CASE UserParted
  <2>1. l.what = "PART" /\ chans' = UserPartedFrom(chans, l.ch, l.nick)
    BY <1>6 DEF UserParted, Got, line
  <2>2. l = Parted(l.ch, l.nick)
    BY <1>2, <2>1 DEF Spoken
  <2>3. \A c : l = Parted(c, Me) <=> c = l.ch /\ l.nick = Me
    BY <2>2, LineFields
  <2>4. DOMAIN ChannelDel(chans, l.ch) = DOMAIN chans \ {l.ch} /\ DOMAIN MemberDel(chans, l.ch, l.nick) = DOMAIN chans
    BY <1>2, DelIs, MemberDelIs
  <2>5. \A c \in Channel : c \in DOMAIN chans' <=> c \in DOMAIN chans /\ l # Parted(c, Me)
    BY <2>1, <2>3, <2>4 DEF UserPartedFrom
  <2> QED BY <1>1, <2>5, StaysListed, ReadsOrdersKeep
<1>7. CASE UserKicked
  <2>1. l.what = "KICK" /\ chans' = UserKickedFrom(chans, l.ch, l.nick)
    BY <1>7 DEF UserKicked, UserKickedFrom, Got, line
  <2>2. DOMAIN chans' = DOMAIN chans
    BY <1>2, <2>1, MemberDelAllIs, MemberDelIs DEF UserKickedFrom
  <2>3. l.what # "PART"
    BY <2>1
  <2> QED BY <1>1, <2>2, <2>3, AllStayListed, ReadsOrdersKeep
<1>8. CASE UserRenamed
  <2>1. l.what = "NICK" /\ chans' = NickChangeAll(chans, l.nick, l.new)
    BY <1>8 DEF UserRenamed, Got, line
  <2>2. DOMAIN chans' = DOMAIN chans
    BY <2>1 DEF NickChangeAll
  <2>3. l.what # "PART"
    BY <2>1
  <2> QED BY <1>1, <2>2, <2>3, AllStayListed, ReadsOrdersKeep
<1>9. CASE UserQuit
  <2>1. l.what = "QUIT" /\ chans' = NickChangeAll(chans, l.nick, "")
    BY <1>9 DEF UserQuit, Got, line
  <2>2. DOMAIN chans' = DOMAIN chans
    BY <2>1 DEF NickChangeAll
  <2>3. l.what # "PART"
    BY <2>1
  <2> QED BY <1>1, <2>2, <2>3, AllStayListed, ReadsOrdersKeep
<1>10. CASE ModesChanged
  <2>1. l.what = "MODE" /\ chans' = ModedList(chans, l.ch, l.changes)
    BY <1>10 DEF ModesChanged, ModedList, Got, line
  <2>2. DOMAIN chans' = DOMAIN chans
    BY <1>2, <2>1, ModedIs DEF Spoken
  <2>3. l.what # "PART"
    BY <2>1
  <2> QED BY <1>1, <2>2, <2>3, AllStayListed, ReadsOrdersKeep
<1> QED BY <1>3, <1>4, <1>5, <1>6, <1>7, <1>8, <1>9, <1>10 DEF Receive

\* More lines to the server, none of them a PART.  One who is to be out stays so while no JOIN for it is among them.
LEMMA MoreOrders ==
  ASSUME NEW c \in Channel, NEW u \in Seq(UpLines), NEW t \in Seq(UpLines), Parting(c) \notin ToSet(t),
         NEW cs, NEW cs2, c \in DOMAIN cs2 <=> c \in DOMAIN cs, NEW d, NEW in, NEW on
  PROVE  /\ ToBeIn(cs, u, d, c) => ToBeIn(cs2, u \o t, d, c)
         /\ Ordered(c) \notin ToSet(t) /\ ToBeOut(cs, u, d, in, on, c) => ToBeOut(cs2, u \o t, d, in, on, c)
<1>1. PICK v : v = u \o t
  OBVIOUS
<1>2. ToSet(v) = ToSet(u) \cup ToSet(t)
  BY <1>1, ToSetBehind
<1>3. ToBeIn(cs, u, d, c) => ToBeIn(cs2, v, d, c)
  BY <1>2 DEF ToBeIn
<1>4. ASSUME Ordered(c) \notin ToSet(t), ToBeOut(cs, u, d, in, on, c) PROVE ToBeOut(cs2, v, d, in, on, c)
  <2>1. Gated(c, v)
    BY <1>1, <1>4, GatedAre DEF ToBeOut
  <2> QED BY <1>2, <1>4, <2>1 DEF ToBeOut
<1> QED BY <1>1, <1>3, <1>4

\* What numeric 1 makes the bot send: AUTH, and the JOINs for its list (join.c:495, qauth.c:71).
LEMMA WelcomeSends ==
  ASSUME ChannelsTyped, Welcome
  PROVE  \E t \in Seq(UpLines) : /\ up' = up \o t
                                 /\ \A l \in ToSet(t) : l = AuthLine \/ \E ch \in DOMAIN chans : l = Ordered(ch)
<1> DEFINE Fine(s) == \A l \in ToSet(s) : l = AuthLine \/ \E ch \in DOMAIN chans : l = Ordered(ch)
<1>1. DOMAIN chans \in SUBSET Channel
  BY ChannelListIs DEF ChannelsTyped
<1>2. JoinLines(DOMAIN chans) \in Seq(UpLines) /\ Fine(JoinLines(DOMAIN chans))
  BY <1>1, JoinLinesAre
<1>3. <<>> \in Seq(UpLines) /\ Fine(<<>>)
  BY NoLines
<1>4. <<AuthLine>> \in Seq(UpLines) /\ Fine(<<AuthLine>>)
  <2>1. PICK e \in Seq(UpLines) : e = <<>>
    BY NoLines
  <2>2. AuthLine \in UpLines
    BY LineTypes
  <2>3. e \o <<AuthLine>> \in Seq(UpLines) /\ ToSet(e \o <<AuthLine>>) = ToSet(e) \cup {AuthLine}
    BY <2>2, OneMore
  <2>4. <<AuthLine>> \in Seq(UpLines)
    BY <2>2
  <2>5. e \o <<AuthLine>> = <<AuthLine>>
    BY <2>1, <2>4, ConcatEmptySeq
  <2> QED BY <2>1, <2>3, <2>5, NoLines
<1>5. PICK joins, auth : /\ joins = <<>> \/ joins = JoinLines(DOMAIN chans)
                         /\ auth = <<>> \/ auth = <<AuthLine>>
                         /\ up' = up \o (auth \o joins) \/ up' = up \o (joins \o auth)
  BY DEF Welcome, Send, AuthLine
<1>6. joins \in Seq(UpLines) /\ auth \in Seq(UpLines) /\ Fine(joins) /\ Fine(auth)
  BY <1>2, <1>3, <1>4, <1>5
<1>7. \A a, b \in Seq(UpLines) : Fine(a) /\ Fine(b) => a \o b \in Seq(UpLines) /\ Fine(a \o b)
  BY ToSetBehind
<1> QED BY <1>5, <1>6, <1>7, ZenonT(30)

\* Numeric 1 keeps the orders.
LEMMA WelcomeOrders == ASSUME ChannelsTyped, ViewInv, OrderInv, Welcome PROVE OrderInv'
<1>1. /\ down # <<>> /\ Head(down).what = "001" /\ down' = Tail(down) /\ srv' = srv /\ online' = online
      /\ ordered' = ordered /\ doubt' = doubt /\ up \in Seq(UpLines) /\ down \in Seq(DownLines)
  BY DEF Welcome, Got, ChannelsTyped
<1>2. DOMAIN chans' = DOMAIN chans
  BY DEF Welcome
<1>3. Welcoming \in ToSet(down) /\ ToSet(Tail(down)) \subseteq ToSet(down)
  <2>1. Head(down) = Welcoming
    BY <1>1, ToSetTail, DownLinesSpeak DEF Spoken
  <2> QED BY <1>1, <2>1, ToSetTail
<1>4. PICK t \in Seq(UpLines) : /\ up' = up \o t
                                /\ \A l \in ToSet(t) : l = AuthLine \/ \E ch \in DOMAIN chans : l = Ordered(ch)
  BY WelcomeSends
<1>5. PICK cs : cs = chans'
  OBVIOUS
<1>6. ASSUME NEW c \in Channel \ doubt
      PROVE  /\ c \in ordered => ToBeIn(cs, up \o t, Tail(down), c)
             /\ c \notin ordered => ToBeOut(cs, up \o t, Tail(down), In(c), online, c)
  <2>1. Parting(c) \notin ToSet(t) /\ (c \notin DOMAIN chans => Ordered(c) \notin ToSet(t))
    BY <1>4, LineFields
  <2>2. OrderOf(c)
    BY DEF OrderInv
  <2>3. ASSUME c \in ordered PROVE ToBeIn(cs, up \o t, Tail(down), c)
    <3>1. ToBeIn(chans, up, Tail(down), c)
      BY <1>3, <2>2, <2>3 DEF OrderOf, ToBeIn
    <3> QED BY <1>1, <1>2, <1>5, <2>1, <3>1, MoreOrders
  <2>4. ASSUME c \notin ordered PROVE ToBeOut(cs, up \o t, Tail(down), In(c), online, c)
    <3>1. ToBeOut(chans, up, down, In(c), online, c)
      BY <2>2, <2>4 DEF OrderOf
    <3>2. c \notin DOMAIN chans /\ Ordered(c) \notin ToSet(up) /\ ~In(c)
      BY <1>3, <3>1 DEF ToBeOut
    <3>3. ToBeOut(chans, up, Tail(down), In(c), online, c)
      BY <1>3, <3>1, <3>2 DEF ToBeOut
    <3> QED BY <1>1, <1>2, <1>5, <2>1, <3>2, <3>3, MoreOrders
  <2> QED BY <2>3, <2>4
<1> QED BY <1>1, <1>4, <1>5, <1>6 DEF OrderInv, OrderOf, In

\* The timer sends no JOIN for a channel that is to be out, unless that is in doubt.
LEMMA TimerOrders == ASSUME ChannelsTyped, OrderInv, Timer PROVE OrderInv'
<1>1. /\ srv' = srv /\ online' = online /\ down' = down /\ ordered' = ordered /\ up \in Seq(UpLines)
      /\ doubt' = doubt \cup (Out(chans) \ ordered) /\ up' = up \o JoinLines(Out(chans)) /\ DOMAIN chans' = DOMAIN chans
  BY DEF Timer, Send, ChannelsTyped
<1>2. PICK t \in Seq(UpLines) : t = JoinLines(Out(chans)) /\ \A l \in ToSet(t) : \E ch \in Out(chans) : l = Ordered(ch)
  <2>1. Out(chans) \in SUBSET Channel
    BY ChannelListIs DEF Out, ChannelsTyped
  <2> QED BY <2>1, JoinLinesAre
<1>3. PICK cs : cs = chans'
  OBVIOUS
<1>4. ASSUME NEW c \in Channel \ doubt'
      PROVE  /\ c \in ordered => ToBeIn(cs, up \o t, down, c)
             /\ c \notin ordered => ToBeOut(cs, up \o t, down, In(c), online, c)
  <2>1. c \in Channel \ doubt /\ (c \notin ordered => c \notin Out(chans))
    BY <1>1, <1>4
  <2>2. Parting(c) \notin ToSet(t) /\ (c \notin Out(chans) => Ordered(c) \notin ToSet(t))
    BY <1>2, LineFields
  <2>3. OrderOf(c)
    BY <2>1 DEF OrderInv
  <2> QED BY <1>1, <1>3, <2>1, <2>2, <2>3, MoreOrders DEF OrderOf
<1> QED BY <1>1, <1>2, <1>3, <1>4 DEF OrderInv, OrderOf, In

-----------------------------------------------------------------------------
(* The orders themselves, and the connection *)

\* "join" (join.c:556): nothing under way takes the bot out of the channel, or it is in doubt.
LEMMA OrderJoinOrders == ASSUME ChannelsTyped, OrderInv, NEW a \in Channel, OrderJoin(a) PROVE OrderInv'
<1>1. /\ srv' = srv /\ online' = online /\ down' = down /\ up' = up /\ ordered' = ordered \cup {a}
      /\ chans' = ChannelAdd(chans, a) /\ chans \in AllLists
      /\ doubt' = IF Parting(a) \in ToSet(up) \/ Parted(a, Me) \in ToSet(down) THEN doubt \cup {a} ELSE doubt \ {a}
  BY DEF OrderJoin, server, Doubtful, UnderWay, ChannelsTyped
<1>2. PICK cs : cs = chans' /\ DOMAIN cs = DOMAIN chans \cup {a}
  BY <1>1, AddIs
<1>3. ASSUME NEW c \in Channel \ doubt'
      PROVE  /\ c \in ordered' => ToBeIn(cs, up, down, c)
             /\ c \notin ordered' => ToBeOut(cs, up, down, In(c), online, c)
  <2>1. CASE c = a
    <3>1. Parting(c) \notin ToSet(up) /\ Parted(c, Me) \notin ToSet(down)
      BY <1>1, <1>3, <2>1
    <3> QED BY <1>1, <1>2, <2>1, <3>1 DEF ToBeIn
  <2>2. CASE c # a
    <3>1. c \notin doubt /\ (c \in ordered' <=> c \in ordered) /\ (c \in DOMAIN cs <=> c \in DOMAIN chans)
      BY <1>1, <1>2, <1>3, <2>2
    <3>2. OrderOf(c)
      BY <3>1 DEF OrderInv
    <3> QED BY <3>1, <3>2 DEF OrderOf, ToBeIn, ToBeOut
  <2> QED BY <2>1, <2>2
<1> QED BY <1>1, <1>2, <1>3 DEF OrderInv, OrderOf, In

\* "part" (join.c:564): the PART is sent and the channel taken from the list.
LEMMA OrderPartOrders == ASSUME ChannelsTyped, OrderInv, NEW a \in Channel, OrderPart(a) PROVE OrderInv'
<1>1. /\ srv' = srv /\ online' = online /\ down' = down /\ up' = up \o <<Parting(a)>> /\ ordered' = ordered \ {a}
      /\ chans' = ChannelDel(chans, a) /\ chans \in AllLists /\ up \in Seq(UpLines)
      /\ online /\ Welcoming \notin ToSet(down)
      /\ doubt' = IF Kicked(a, Me) \in ToSet(down) THEN doubt \cup {a} ELSE doubt \ {a}
  BY DEF OrderPart, Send, Listening, Doubtful, UnderWay, ChannelsTyped
<1>2. PICK cs : cs = chans' /\ DOMAIN cs = DOMAIN chans \ {a}
  BY <1>1, DelIs
<1>3. PICK t \in Seq(UpLines) : t = <<Parting(a)>> /\ ToSet(t) = {Parting(a)}
  <2>1. PICK e \in Seq(UpLines) : e = <<>> /\ ToSet(e) = {}
    BY NoLines
  <2>2. Parting(a) \in UpLines
    BY LineTypes
  <2>3. <<Parting(a)>> \in Seq(UpLines)
    BY <2>2
  <2>4. e \o <<Parting(a)>> = <<Parting(a)>>
    BY <2>1, <2>3, ConcatEmptySeq
  <2>5. ToSet(e \o <<Parting(a)>>) = ToSet(e) \cup {Parting(a)}
    BY <2>2, OneMore
  <2> QED BY <2>1, <2>3, <2>4, <2>5
<1>4. ASSUME NEW c \in Channel \ doubt'
      PROVE  /\ c \in ordered' => ToBeIn(cs, up \o t, down, c)
             /\ c \notin ordered' => ToBeOut(cs, up \o t, down, In(c), online, c)
  <2>1. CASE c = a
    <3>1. Kicked(c, Me) \notin ToSet(down) /\ c \notin ordered' /\ c \notin DOMAIN cs
      BY <1>1, <1>2, <1>4, <2>1
    <3>2. Gated(c, up \o t)
      BY <1>1, <1>3, <2>1, GatedAre
    <3>3. Parting(c) \in ToSet(up \o t)
      <4>1. ToSet(up \o t) = ToSet(up) \cup ToSet(t)
        BY <1>1, ToSetBehind
      <4> QED BY <1>3, <2>1, <4>1
    <3> QED BY <1>1, <3>1, <3>2, <3>3 DEF ToBeOut
  <2>2. CASE c # a
    <3>1. c \notin doubt /\ (c \in ordered' <=> c \in ordered) /\ (c \in DOMAIN cs <=> c \in DOMAIN chans)
      BY <1>1, <1>2, <1>4, <2>2
    <3>2. OrderOf(c)
      BY <3>1 DEF OrderInv
    <3>3. Parting(c) \notin ToSet(t) /\ Ordered(c) \notin ToSet(t)
      BY <1>3, <2>2, LineFields
    <3> QED BY <1>1, <3>1, <3>2, <3>3, MoreOrders DEF OrderOf
  <2> QED BY <2>1, <2>2
<1> QED BY <1>1, <1>2, <1>3, <1>4 DEF OrderInv, OrderOf, In

\* "preload join.so" with nothing about the channel under way: it is in the list if the configuration has it,
\* but for the names that the first init has cut off, which are in doubt.
LEMMA ReloadJoinOrders == ASSUME ChannelsTyped, ReloadJoin PROVE OrderInv'
<1>1. /\ srv' = srv /\ online' = online /\ down' = down /\ up' = up /\ ordered' = Configured /\ DOMAIN chans' = Heads
      /\ doubt' = {ch \in Channel : In(ch) \/ AboutIt(ch, down)} \cup {ch \in Channel : AboutIt(ch, up)}
                  \cup (Configured \ Heads)
      /\ Heads \subseteq Configured
      /\ up \in Seq(UpLines) /\ down \in Seq(DownLines)
  BY ChannelsAssumption DEF ReloadJoin, server, ChannelsTyped
<1>2. PICK cs : cs = chans' /\ DOMAIN cs = Heads
  BY <1>1
<1>3. ASSUME NEW c, NEW s, NEW l \in ToSet(s), "ch" \in DOMAIN l, l.ch = c PROVE AboutIt(c, s)
  <2>1. PICK i \in DOMAIN s : s[i] = l
    BY DEF ToSet
  <2> QED BY <1>3, <2>1 DEF AboutIt
<1>4. \A c : /\ "ch" \in DOMAIN Parting(c) /\ Parting(c).ch = c /\ "ch" \in DOMAIN Ordered(c) /\ Ordered(c).ch = c
             /\ "ch" \in DOMAIN Parted(c, Me) /\ Parted(c, Me).ch = c /\ "ch" \in DOMAIN Kicked(c, Me) /\ Kicked(c, Me).ch = c
  BY DEF Parting, Ordered, Parted, Kicked
<1>5. ASSUME NEW c \in Channel \ doubt'
      PROVE  /\ c \in Configured => ToBeIn(cs, up, down, c)
             /\ c \notin Configured => ToBeOut(cs, up, down, In(c), online, c)
  <2>1. ~In(c) /\ ~AboutIt(c, down) /\ ~AboutIt(c, up) /\ (c \in Configured <=> c \in Heads)
    BY <1>1, <1>5
  <2>2. /\ Parting(c) \notin ToSet(up) /\ Ordered(c) \notin ToSet(up)
        /\ Parted(c, Me) \notin ToSet(down) /\ Kicked(c, Me) \notin ToSet(down)
    BY <1>3, <1>4, <2>1
  <2>3. Gated(c, up)
    BY <1>1, <2>2, GatedAre
  <2> QED BY <1>2, <2>1, <2>2, <2>3 DEF ToBeIn, ToBeOut
<1> QED BY <1>1, <1>2, <1>5 DEF OrderInv, OrderOf, In

\* The bot registers: what still waits in its queue is sent after numeric 1.
LEMMA ConnectOrders == ASSUME ChannelsTyped, OrderInv, Connect PROVE OrderInv'
<1>1. /\ ~online /\ online' = TRUE /\ srv' = srv /\ chans' = chans /\ ordered' = ordered /\ doubt' = doubt
      /\ down' = <<Welcoming>> /\ up \in Seq(UpLines)
  BY DEF Connect, bot, ghosts, ChannelsTyped
<1>2. PICK u \in Seq(UpLines) : u = up' /\ ToSet(u) \subseteq ToSet(up)
  <2>1. PICK k \in 0 .. Len(up) : up' = SubSeq(up, k + 1, Len(up))
    BY DEF Connect
  <2>2. Len(up) \in Nat
    BY <1>1, LenProperties
  <2>3. k + 1 \in 1 .. Len(up) + 1 /\ Len(up) \in k .. Len(up)
    BY <2>1, <2>2
  <2>7. SubSeq(up, k + 1, Len(up)) \in Seq(UpLines)
    BY <1>1, <2>2, <2>3, SubSeqProperties
  <2>4. PICK u \in Seq(UpLines) : u = SubSeq(up, k + 1, Len(up))
    BY <2>7
  <2>5. Len(u) \in Nat /\ Len(u) = Len(up) - k /\ \A i \in 1 .. Len(u) : u[i] = up[k + i]
    BY <1>1, <2>2, <2>4, SubSeqProperties
  <2>6. ASSUME NEW x \in ToSet(u) PROVE x \in ToSet(up)
    <3>1. PICK i \in 1 .. Len(u) : u[i] = x
      BY ToSetIs
    <3>2. k + i \in 1 .. Len(up) /\ up[k + i] = x
      BY <2>1, <2>2, <2>5, <3>1
    <3> QED BY <1>1, <3>2, ToSetIs
  <2> QED BY <2>1, <2>4, <2>6
<1>3. PICK d : d = down' /\ ToSet(d) = {Welcoming}
  <2>1. PICK e \in Seq(DownLines) : e = <<>> /\ ToSet(e) = {}
    BY NoLines
  <2>2. Welcoming \in DownLines
    BY LineTypes
  <2>3. <<Welcoming>> \in Seq(DownLines)
    BY <2>2
  <2>4. e \o <<Welcoming>> = <<Welcoming>>
    BY <2>1, <2>3, ConcatEmptySeq
  <2>5. ToSet(e \o <<Welcoming>>) = ToSet(e) \cup {Welcoming}
    BY <2>2, OneMore
  <2> QED BY <1>1, <2>1, <2>4, <2>5
<1>4. ASSUME NEW c \in Channel \ doubt
      PROVE  /\ c \in ordered => ToBeIn(chans, u, d, c)
             /\ c \notin ordered => ToBeOut(chans, u, d, In(c), TRUE, c)
  <2>1. Parted(c, Me) \notin ToSet(d) /\ Kicked(c, Me) \notin ToSet(d)
    BY <1>3, LineFields
  <2>2. OrderOf(c)
    BY DEF OrderInv
  <2>3. ASSUME c \notin ordered PROVE ToBeOut(chans, u, d, In(c), TRUE, c)
    <3>1. c \notin DOMAIN chans /\ Ordered(c) \notin ToSet(up) /\ ~In(c)
      BY <1>1, <2>2, <2>3 DEF OrderOf, ToBeOut
    <3>2. Ordered(c) \notin ToSet(u)
      BY <1>2, <3>1
    <3>3. Gated(c, u)
      BY <3>2, GatedAre
    <3> QED BY <2>1, <3>1, <3>2, <3>3 DEF ToBeOut
  <2> QED BY <1>2, <2>1, <2>2, <2>3 DEF OrderOf, ToBeIn
<1> QED BY <1>1, <1>2, <1>3, <1>4 DEF OrderInv, OrderOf, In

\* The connection breaks: a PART that is under way is lost, or its answer, and the channel is in doubt.
LEMMA LoseOrders == ASSUME ChannelsTyped, OrderInv, LoseConnection PROVE OrderInv'
<1>1. /\ online' = FALSE /\ srv' = [ch \in Channel |-> Without(srv[ch], Me)] /\ down' = <<>> /\ up' = up
      /\ chans' = chans /\ ordered' = ordered /\ up \in Seq(UpLines)
      /\ doubt' = doubt \cup {ch \in Channel : Parting(ch) \in ToSet(up) \/ Parted(ch, Me) \in ToSet(down)}
  BY DEF LoseConnection, bot, UnderWay, ChannelsTyped
<1>2. \A ch \in Channel : Me \notin DOMAIN srv'[ch]
  BY <1>1 DEF Without
<1>3. PICK d : d = down' /\ ToSet(d) = {}
  BY <1>1, NoLines
<1>4. ASSUME NEW c \in Channel \ doubt'
      PROVE  /\ c \in ordered => ToBeIn(chans, up, d, c)
             /\ c \notin ordered => ToBeOut(chans, up, d, FALSE, FALSE, c)
  <2>1. c \notin doubt /\ Parting(c) \notin ToSet(up) /\ Parted(c, Me) \notin ToSet(down)
    BY <1>1, <1>4
  <2>2. OrderOf(c)
    BY <2>1 DEF OrderInv
  <2>3. ASSUME c \notin ordered PROVE ToBeOut(chans, up, d, FALSE, FALSE, c)
    <3>1. Gated(c, up) /\ ~In(c) /\ c \notin DOMAIN chans
      BY <2>1, <2>2, <2>3 DEF OrderOf, ToBeOut
    <3>2. Ordered(c) \notin ToSet(up)
      BY <1>1, <2>1, <3>1, GatedAre
    <3> QED BY <1>3, <3>1, <3>2 DEF ToBeOut
  <2> QED BY <1>3, <2>2, <2>3 DEF OrderOf, ToBeIn
<1>5. ASSUME NEW c \in Channel PROVE (Me \in DOMAIN srv'[c]) = FALSE
  BY <1>2
<1> QED BY <1>1, <1>3, <1>4, <1>5 DEF OrderInv, OrderOf, In

\* The lines to the bot tell the same of its leaving a channel, and numeric 1 is among both or neither.
Alike(c, d, d2) ==
  /\ Parted(c, Me) \in ToSet(d2) <=> Parted(c, Me) \in ToSet(d)
  /\ Kicked(c, Me) \in ToSet(d2) <=> Kicked(c, Me) \in ToSet(d)
  /\ Welcoming \in ToSet(d2) <=> Welcoming \in ToSet(d)

\* Another line behind them
LEMMA AlikeMore ==
  ASSUME NEW c, NEW d \in Seq(DownLines), NEW l \in DownLines, l # Parted(c, Me), l # Kicked(c, Me), l # Welcoming
  PROVE  Alike(c, d, d \o <<l>>)
<1>1. ToSet(d \o <<l>>) = ToSet(d) \cup {l}
  BY OneMore
<1> QED BY <1>1 DEF Alike

\* The server takes a line that is not the PART for the channel.
LEMMA OtherGone ==
  ASSUME NEW c \in Channel, NEW u \in Seq(UpLines), u # <<>>, Head(u) # Parting(c), NEW d, NEW d2, Alike(c, d, d2), NEW cs, NEW in, NEW on
  PROVE  /\ ToBeIn(cs, u, d, c) => ToBeIn(cs, Tail(u), d2, c)
         /\ ToBeOut(cs, u, d, in, on, c) => ToBeOut(cs, Tail(u), d2, in, on, c)
<1>1. PICK t : t = Tail(u)
  OBVIOUS
<1>2. ToSet(u) = {Head(u)} \cup ToSet(t)
  BY <1>1, ToSetTail
<1>3. Gated(c, u) => Gated(c, t)
  BY <1>1, GatedAre
<1>4. ToBeIn(cs, u, d, c) => ToBeIn(cs, t, d2, c)
  BY <1>2 DEF ToBeIn, Alike
<1>5. ToBeOut(cs, u, d, in, on, c) => ToBeOut(cs, t, d2, in, on, c)
  BY <1>2, <1>3 DEF ToBeOut, Alike
<1> QED BY <1>1, <1>4, <1>5

\* What the server answers to the first line leaves alone
AnswersOnly ==
  /\ online /\ up # <<>> /\ up' = Tail(up) /\ online' = online /\ chans' = chans /\ ordered' = ordered /\ doubt' = doubt

\* Each channel that the line is not the PART for, and where the bot stays as it was
LEMMA OrderStays ==
  ASSUME ChannelsTyped, OrderInv, AnswersOnly, NEW c \in Channel \ doubt, Head(up) # Parting(c),
         Alike(c, down, down'), In(c) <=> Me \in DOMAIN srv'[c]
  PROVE  OrderOf(c)'
<1>1. PICK d2, in : d2 = down' /\ in = In(c)
  OBVIOUS
<1>2. OrderOf(c) /\ up \in Seq(UpLines) /\ Alike(c, down, d2)
  BY <1>1 DEF OrderInv, ChannelsTyped
<1>3. /\ ToBeIn(chans, up, down, c) => ToBeIn(chans, Tail(up), d2, c)
      /\ ToBeOut(chans, up, down, in, online, c) => ToBeOut(chans, Tail(up), d2, in, online, c)
  BY <1>2, OtherGone DEF AnswersOnly
<1>4. /\ c \in ordered => ToBeIn(chans, Tail(up), d2, c)
      /\ c \notin ordered => ToBeOut(chans, Tail(up), d2, In(c), online, c)
  BY <1>1, <1>2, <1>3 DEF OrderOf
<1>5. /\ c \in ordered => ToBeIn(chans, Tail(up), d2, c)
      /\ c \notin ordered => ToBeOut(chans, Tail(up), d2, Me \in DOMAIN srv'[c], online, c)
  BY <1>4 DEF ToBeOut
<1> QED BY <1>1, <1>5 DEF AnswersOnly, OrderOf, In

\* AUTH
LEMMA TakesAuthOrders == ASSUME ChannelsTyped, OrderInv, TakesAuth PROVE OrderInv'
<1>1. AnswersOnly /\ srv' = srv /\ Head(up).what = "AUTH" /\ down \in Seq(DownLines)
  BY DEF TakesAuth, Takes, bot, ghosts, AnswersOnly, ChannelsTyped
<1>2. ASSUME NEW c \in Channel PROVE Alike(c, down, down')
  <2>1. CASE down' = down
    BY <2>1 DEF Alike
  <2>2. CASE down' = down \o <<NoticeLine>>
    <3>1. NoticeLine \in DownLines /\ NoticeLine # Parted(c, Me) /\ NoticeLine # Kicked(c, Me) /\ NoticeLine # Welcoming
      BY LineTypes, LineFields
    <3>2. Alike(c, down, down \o <<NoticeLine>>)
      BY <1>1, <3>1, AlikeMore
    <3> QED BY <2>2, <3>2
  <2> QED BY <2>1, <2>2 DEF TakesAuth, Tell, NoticeLine
<1>3. ASSUME NEW c \in Channel \ doubt PROVE OrderOf(c)'
  <2>1. Head(up) # Parting(c) /\ (In(c) <=> Me \in DOMAIN srv'[c])
    BY <1>1, LineFields DEF In
  <2> QED BY <1>1, <1>2, <2>1, OrderStays
<1> QED BY <1>1, <1>3 DEF OrderInv, AnswersOnly

\* A JOIN, refused or not: one that is let in where it is to be out has its PART behind it.
LEMMA TakesJoinOrders == ASSUME ChannelsTyped, OrderInv, TakesJoin PROVE OrderInv'
<1>0. PICK a : a = Head(up).ch
  OBVIOUS
<1>1. AnswersOnly /\ Head(up).what = "JOIN" /\ down \in Seq(DownLines) /\ up \in Seq(UpLines) /\ srv \in [Channel -> Rooms]
  BY DEF TakesJoin, Takes, bot, ghosts, AnswersOnly, ChannelsTyped
<1>2. a \in Channel /\ Head(up) = Ordered(a) /\ \A c : Head(up) # Parting(c)
  BY <1>0, <1>1, ToSetTail, UpLinesSpeak, LineFields DEF AnswersOnly
<1>3. CASE srv' = srv /\ down' = down
  <2>1. ASSUME NEW c \in Channel \ doubt PROVE OrderOf(c)'
    <3>1. Alike(c, down, down') /\ (In(c) <=> Me \in DOMAIN srv'[c])
      BY <1>3 DEF In, Alike
    <3> QED BY <1>1, <1>2, <3>1, OrderStays
  <2> QED BY <1>1, <2>1 DEF OrderInv, AnswersOnly
<1>4. CASE ~In(a) /\ srv' = [srv EXCEPT ![a] = With(@, Me, FALSE)] /\ Tell(<<Joined(a, Me), Names(a, srv'[a])>>)
  <2>1. PICK r \in Rooms : r = With(srv[a], Me, FALSE)
    BY <1>1, <1>2, RoomsAre
  <2>2. srv'[a] = r /\ Me \in DOMAIN r /\ \A c \in Channel \ {a} : srv'[c] = srv[c]
    BY <1>1, <1>2, <1>4, <2>1 DEF With
  <2>3. PICK j \in DownLines, n \in DownLines : j = Joined(a, Me) /\ n = Names(a, r)
    BY <1>2, LineTypes, RoomsAre
  <2>4. PICK d1 \in Seq(DownLines) : d1 = down \o <<j>>
    BY <1>1, OneMore
  <2>5. PICK d2 : d2 = d1 \o <<n>> /\ d2 = down'
    <3>1. down' = down \o <<j, n>>
      BY <1>4, <2>2, <2>3 DEF Tell
    <3>2. down \o <<j, n>> = (down \o <<j>>) \o <<n>>
      BY <1>1, TwoMore
    <3> QED BY <2>4, <3>1, <3>2
  <2>6. ASSUME NEW c PROVE Alike(c, down, d2)
    <3>1. /\ j # Parted(c, Me) /\ j # Kicked(c, Me) /\ j # Welcoming
          /\ n # Parted(c, Me) /\ n # Kicked(c, Me) /\ n # Welcoming
      BY <2>3, LineFields
    <3>2. Alike(c, down, d1)
      BY <1>1, <2>4, <3>1, AlikeMore
    <3>3. Alike(c, d1, d2)
      BY <2>5, <3>1, AlikeMore
    <3> QED BY <3>2, <3>3 DEF Alike
  <2>7. ASSUME NEW c \in Channel \ doubt, c # a PROVE OrderOf(c)'
    <3>1. Alike(c, down, down') /\ (In(c) <=> Me \in DOMAIN srv'[c])
      BY <2>2, <2>5, <2>6, <2>7 DEF In
    <3> QED BY <1>1, <1>2, <3>1, OrderStays
  <2>8. ASSUME a \in Channel \ doubt PROVE OrderOf(a)'
    <3>1. OrderOf(a) /\ Alike(a, down, d2)
      BY <2>6, <2>8 DEF OrderInv
    <3>2. /\ ToBeIn(chans, up, down, a) => ToBeIn(chans, Tail(up), d2, a)
          /\ ToBeOut(chans, up, down, In(a), online, a) => ToBeOut(chans, Tail(up), d2, In(a), online, a)
      BY <1>1, <1>2, <3>1, OtherGone DEF AnswersOnly
    <3>3. ASSUME ToBeOut(chans, up, down, In(a), online, a) PROVE ToBeOut(chans, Tail(up), d2, TRUE, online, a)
      <4>1. ToBeOut(chans, Tail(up), d2, In(a), online, a)
        BY <3>2, <3>3
      <4>2. Gated(a, up)
        BY <3>3 DEF ToBeOut
      <4>3. Parting(a) \in ToSet(Tail(up))
        BY <1>1, <1>2, <4>2, GatedAre DEF AnswersOnly
      <4>4. Ordered(a) \in ToSet(up)
        BY <1>1, <1>2, ToSetTail DEF AnswersOnly
      <4>5. online /\ Welcoming \notin ToSet(d2)
        BY <1>1, <3>1, <3>3, <4>4 DEF AnswersOnly, ToBeOut, Alike
      <4> QED BY <4>1, <4>3, <4>5 DEF ToBeOut
    <3>4. (Me \in DOMAIN srv'[a]) = TRUE
      BY <2>2
    <3>5. /\ a \in ordered => ToBeIn(chans, Tail(up), d2, a)
          /\ a \notin ordered => ToBeOut(chans, Tail(up), d2, TRUE, online, a)
      BY <3>1, <3>2, <3>3 DEF OrderOf
    <3> QED BY <1>1, <2>5, <3>4, <3>5 DEF AnswersOnly, OrderOf, In
  <2> QED BY <1>1, <2>7, <2>8 DEF OrderInv, AnswersOnly
<1> QED BY <1>0, <1>3, <1>4 DEF TakesJoin

\* A PART: its answer takes the channel from the list.
LEMMA TakesPartOrders == ASSUME ChannelsTyped, OrderInv, TakesPart PROVE OrderInv'
<1>0. PICK a : a = Head(up).ch
  OBVIOUS
<1>1. AnswersOnly /\ Head(up).what = "PART" /\ down \in Seq(DownLines) /\ up \in Seq(UpLines) /\ srv \in [Channel -> Rooms]
  BY DEF TakesPart, Takes, bot, ghosts, AnswersOnly, ChannelsTyped
<1>2. a \in Channel /\ Head(up) = Parting(a) /\ \A c : c # a => Head(up) # Parting(c)
  BY <1>0, <1>1, ToSetTail, UpLinesSpeak, LineFields DEF AnswersOnly
<1>3. PICK sv, d2 : sv = srv' /\ d2 = down'
  OBVIOUS
<1>4. CASE In(a) /\ srv' = [srv EXCEPT ![a] = Without(@, Me)] /\ Tell(<<Parted(a, Me)>>)
  <2>1. Me \notin DOMAIN sv[a] /\ \A c \in Channel \ {a} : sv[c] = srv[c]
    BY <1>1, <1>2, <1>3, <1>4 DEF Without
  <2>2. PICK p \in DownLines : p = Parted(a, Me)
    BY <1>2, LineTypes, RoomsAre
  <2>3. d2 = down \o <<p>> /\ ToSet(d2) = ToSet(down) \cup {p}
    BY <1>1, <1>3, <1>4, <2>2, OneMore DEF Tell
  <2>4. ASSUME NEW c \in Channel \ doubt, c # a PROVE OrderOf(c)'
    <3>1. p # Parted(c, Me) /\ p # Kicked(c, Me) /\ p # Welcoming
      BY <2>2, <2>4, LineFields
    <3>2. Alike(c, down, down')
      BY <1>3, <2>3, <3>1 DEF Alike
    <3>3. In(c) <=> Me \in DOMAIN srv'[c]
      BY <1>3, <2>1, <2>4 DEF In
    <3> QED BY <1>1, <1>2, <2>4, <3>2, <3>3, OrderStays
  <2>5. ASSUME a \in Channel \ doubt PROVE OrderOf(a)'
    <3>1. OrderOf(a) /\ Parting(a) \in ToSet(up)
      BY <1>1, <1>2, <2>5, ToSetTail DEF OrderInv, AnswersOnly
    <3>2. a \notin ordered /\ ToBeOut(chans, up, down, In(a), online, a)
      BY <3>1 DEF OrderOf, ToBeIn
    <3>3. p # Kicked(a, Me) /\ p # Welcoming
      BY <2>2, LineFields
    <3>4. Gated(a, Tail(up))
      BY <1>1, <1>2, <3>2, GatedAre DEF AnswersOnly, ToBeOut
    <3>5. ToBeOut(chans, Tail(up), d2, FALSE, online, a)
      BY <1>1, <1>4, <2>2, <2>3, <3>2, <3>3, <3>4 DEF AnswersOnly, ToBeOut
    <3>6. (Me \in DOMAIN sv[a]) = FALSE
      BY <2>1
    <3> QED BY <1>1, <1>3, <3>2, <3>5, <3>6 DEF AnswersOnly, OrderOf, In
  <2> QED BY <1>1, <2>4, <2>5 DEF OrderInv, AnswersOnly
<1>5. CASE ~In(a) /\ srv' = srv /\ down' = down
  <2>1. ASSUME NEW c \in Channel \ doubt, c # a PROVE OrderOf(c)'
    <3>1. Alike(c, down, down') /\ (In(c) <=> Me \in DOMAIN srv'[c])
      BY <1>5 DEF In, Alike
    <3> QED BY <1>1, <1>2, <2>1, <3>1, OrderStays
  <2>2. ASSUME a \in Channel \ doubt PROVE OrderOf(a)'
    <3>1. OrderOf(a) /\ Parting(a) \in ToSet(up) /\ ToSet(up) = {Head(up)} \cup ToSet(Tail(up))
      BY <1>1, <1>2, <2>2, ToSetTail DEF OrderInv, AnswersOnly
    <3>2. a \notin ordered /\ ToBeOut(chans, up, down, In(a), online, a)
      BY <3>1 DEF OrderOf, ToBeIn
    <3>3. Gated(a, Tail(up))
      BY <1>1, <1>2, <3>2, GatedAre DEF AnswersOnly, ToBeOut
    <3>4. ToBeOut(chans, Tail(up), down, In(a), online, a)
      BY <1>5, <3>1, <3>2, <3>3 DEF ToBeOut
    <3> QED BY <1>1, <1>5, <3>2, <3>4 DEF AnswersOnly, OrderOf, In
  <2> QED BY <1>1, <2>1, <2>2 DEF OrderInv, AnswersOnly
<1> QED BY <1>0, <1>4, <1>5 DEF TakesPart

\* Where the bot is, and what the lines tell of that, is the same.
Aside(c) == Alike(c, down, down') /\ (In(c) <=> Me \in DOMAIN srv'[c])

\* A line about someone else, heard or not
LEMMA HeardAlike ==
  ASSUME ChannelsTyped, NEW c, NEW l \in DownLines, l # Parted(c, Me), l # Kicked(c, Me), l # Welcoming,
         NEW heard \in BOOLEAN, TellIf(heard, <<l>>)
  PROVE  Alike(c, down, down')
<1>1. CASE heard
  <2>1. down' = down \o <<l>> /\ down \in Seq(DownLines)
    BY <1>1 DEF TellIf, Tell, ChannelsTyped
  <2>2. Alike(c, down, down \o <<l>>)
    BY <2>1, AlikeMore
  <2> QED BY <2>1, <2>2
<1>2. CASE ~heard
  BY <1>2 DEF TellIf, Alike
<1> QED BY <1>1, <1>2

\* Other users come and go in one channel.
LEMMA OthersAside ==
  ASSUME ChannelsTyped, NEW u \in Other, NEW a \in Channel, Join(u, a) \/ Leave(u, a) \/ Kick(u, a)
  PROVE  \A c \in Channel : Aside(c)
<1>1. srv \in [Channel -> Rooms] /\ u # Me /\ u \in Nick
  BY RoomsAre, ChannelsAssumption DEF ChannelsTyped
<1>2. PICK l \in DownLines : /\ l = Joined(a, u) \/ l = Parted(a, u) \/ l = Kicked(a, u)
                             /\ TellIf(In(a), <<l>>)
                             /\ srv' = [srv EXCEPT ![a] = With(@, u, FALSE)] \/ srv' = [srv EXCEPT ![a] = Without(@, u)]
  BY <1>1, LineTypes DEF Join, Leave, Kick
<1>3. ASSUME NEW c \in Channel PROVE Aside(c)
  <2>1. l # Parted(c, Me) /\ l # Kicked(c, Me) /\ l # Welcoming
    BY <1>1, <1>2, LineFields
  <2>2. In(a) \in BOOLEAN
    BY DEF In
  <2>3. Alike(c, down, down')
    BY <1>2, <2>1, <2>2, HeardAlike
  <2>4. \A r : (Me \in DOMAIN With(r, u, FALSE) <=> Me \in DOMAIN r) /\ (Me \in DOMAIN Without(r, u) <=> Me \in DOMAIN r)
    BY <1>1 DEF With, Without
  <2>5. PICK r : /\ srv' = [srv EXCEPT ![a] = r]
                 /\ Me \in DOMAIN r <=> Me \in DOMAIN srv[a]
    <3>1. CASE srv' = [srv EXCEPT ![a] = With(@, u, FALSE)]
      BY <2>4, <3>1
    <3>2. CASE srv' = [srv EXCEPT ![a] = Without(@, u)]
      BY <2>4, <3>2
    <3> QED BY <1>2, <3>1, <3>2
  <2>6. In(c) <=> Me \in DOMAIN srv'[c]
    BY <1>1, <2>5 DEF In
  <2> QED BY <2>3, <2>6 DEF Aside
<1> QED BY <1>3

\* A new nick
LEMMA RenameAside ==
  ASSUME ChannelsTyped, NEW u \in Other, NEW new \in Other, Rename(u, new)
  PROVE  \A c \in Channel : Aside(c)
<1>1. PICK l \in DownLines : l = NickLine(u, new)
  BY LineTypes
<1>2. TellIf(Shared(u), <<l>>) /\ srv' = AllRenamed(srv, u, new) /\ u # Me /\ new # Me /\ Shared(u) \in BOOLEAN
  BY <1>1, ChannelsAssumption DEF Rename, NickLine, AllRenamed, Shared
<1>3. ASSUME NEW c \in Channel PROVE Aside(c)
  <2>1. l # Parted(c, Me) /\ l # Kicked(c, Me) /\ l # Welcoming
    BY <1>1, LineFields
  <2>2. Alike(c, down, down')
    BY <1>2, <2>1, HeardAlike
  <2>3. Me \in DOMAIN srv'[c] <=> Me \in DOMAIN srv[c]
    BY <1>2 DEF AllRenamed, With, Without
  <2> QED BY <2>2, <2>3 DEF Aside, In
<1> QED BY <1>3

\* One is gone.
LEMMA QuitAside ==
  ASSUME ChannelsTyped, NEW u \in Other, Quit(u)
  PROVE  \A c \in Channel : Aside(c)
<1>1. PICK l \in DownLines : l = QuitLine(u)
  BY LineTypes
<1>2. TellIf(Shared(u), <<l>>) /\ srv' = [ch \in Channel |-> Without(srv[ch], u)] /\ u # Me /\ Shared(u) \in BOOLEAN
  BY <1>1, ChannelsAssumption DEF Quit, QuitLine, Shared
<1>3. ASSUME NEW c \in Channel PROVE Aside(c)
  <2>1. l # Parted(c, Me) /\ l # Kicked(c, Me) /\ l # Welcoming
    BY <1>1, LineFields
  <2>2. Alike(c, down, down')
    BY <1>2, <2>1, HeardAlike
  <2>3. Me \in DOMAIN srv'[c] <=> Me \in DOMAIN srv[c]
    BY <1>2 DEF Without
  <2> QED BY <2>2, <2>3 DEF Aside, In
<1> QED BY <1>3

\* Modes of others
LEMMA ModeAside ==
  ASSUME ChannelsTyped, NEW cs \in Seq(Marks), NEW a \in Channel, Mode(a, cs)
  PROVE  \A c \in Channel : Aside(c)
<1>1. PICK l \in DownLines : l = ModeLine(a, cs)
  BY LineTypes
<1>2. /\ TellIf(In(a), <<l>>) /\ In(a) \in BOOLEAN /\ srv \in [Channel -> Rooms]
      /\ srv' = [srv EXCEPT ![a] = ModesOf(srv[a], cs)]
  BY <1>1 DEF Mode, ModeLine, ModesOf, In, ChannelsTyped
<1>3. ASSUME NEW c \in Channel PROVE Aside(c)
  <2>1. l # Parted(c, Me) /\ l # Kicked(c, Me) /\ l # Welcoming
    BY <1>1, LineFields
  <2>2. Alike(c, down, down')
    BY <1>2, <2>1, HeardAlike
  <2>3. DOMAIN ModesOf(srv[a], cs) = DOMAIN srv[a]
    BY DEF ModesOf
  <2>4. Me \in DOMAIN srv'[c] <=> Me \in DOMAIN srv[c]
    BY <1>2, <2>3
  <2> QED BY <2>2, <2>4 DEF Aside, In
<1> QED BY <1>3

\* What the users leave alone
UsersOnly == online' = online /\ up' = up /\ chans' = chans /\ ordered' = ordered /\ doubt \subseteq doubt'

\* A channel where nothing happened to the bot
LEMMA AsideStays == ASSUME OrderInv, UsersOnly, NEW c \in Channel \ doubt', Aside(c) PROVE OrderOf(c)'
<1>1. OrderOf(c)
  BY DEF OrderInv, UsersOnly
<1>2. PICK d2 : d2 = down'
  OBVIOUS
<1>3. Alike(c, down, d2)
  BY <1>2 DEF Aside
<1>4. /\ c \in ordered => ToBeIn(chans, up, d2, c)
      /\ c \notin ordered => ToBeOut(chans, up, d2, In(c), online, c)
  BY <1>1, <1>3 DEF OrderOf, ToBeIn, ToBeOut, Alike
<1>5. c \notin ordered => ToBeOut(chans, up, d2, Me \in DOMAIN srv'[c], online, c)
  BY <1>4 DEF Aside, ToBeOut
<1> QED BY <1>2, <1>4, <1>5 DEF UsersOnly, OrderOf, In

\* The bot is kicked: if it is to be out, its PART was under way, and the channel is in doubt.
LEMMA KickedOrders == ASSUME ChannelsTyped, OrderInv, UsersOnly, NEW a \in Channel, Kick(Me, a) PROVE OrderInv'
<1>1. PICK l \in DownLines : l = Kicked(a, Me)
  BY LineTypes, RoomsAre
<1>2. /\ In(a) /\ srv' = [srv EXCEPT ![a] = Without(@, Me)] /\ down' = down \o <<l>> /\ srv \in [Channel -> Rooms]
      /\ down \in Seq(DownLines) /\ doubt' = IF Parting(a) \in ToSet(up) THEN doubt \cup {a} ELSE doubt
  BY <1>1 DEF Kick, In, TellIf, Tell, UnderWay, ChannelsTyped
<1>3. ASSUME NEW c \in Channel \ doubt', c # a PROVE OrderOf(c)'
  <2>1. l # Parted(c, Me) /\ l # Kicked(c, Me) /\ l # Welcoming
    BY <1>1, <1>3, LineFields
  <2>2. Alike(c, down, down \o <<l>>)
    BY <1>2, <2>1, AlikeMore
  <2>3. Aside(c)
    BY <1>2, <1>3, <2>2 DEF Aside, In
  <2> QED BY <2>3, AsideStays
<1>4. ASSUME a \notin doubt' PROVE OrderOf(a)'
  <2>1. OrderOf(a) /\ Parting(a) \notin ToSet(up)
    BY <1>2, <1>4 DEF OrderInv
  <2>2. a \in ordered /\ ToBeIn(chans, up, down, a)
    BY <1>2, <2>1 DEF OrderOf, ToBeOut
  <2>6. ToSet(down \o <<l>>) = ToSet(down) \cup {l}
    BY <1>2, OneMore
  <2>3. PICK d2 : d2 = down' /\ ToSet(d2) = ToSet(down) \cup {l}
    BY <1>2, <2>6
  <2>4. l # Parted(a, Me)
    BY <1>1, LineFields
  <2>5. ToBeIn(chans, up, d2, a)
    BY <2>2, <2>3, <2>4 DEF ToBeIn
  <2> QED BY <2>2, <2>3, <2>5 DEF UsersOnly, OrderOf
<1> QED BY <1>3, <1>4 DEF OrderInv

\* Whatever the users do
LEMMA UsersOrders == ASSUME ChannelsTyped, OrderInv, Users PROVE OrderInv'
<1>1. UsersOnly
  <2>1. online' = online /\ up' = up /\ chans' = chans /\ ordered' = ordered
    BY DEF Users, bot
  <2>2. \A u, a : Join(u, a) \/ Leave(u, a) \/ Kick(u, a) => doubt \subseteq doubt'
    BY DEF Join, Leave, Kick
  <2>3. \A u, new : Rename(u, new) => doubt \subseteq doubt'
    BY DEF Rename
  <2>4. \A a, cs : Mode(a, cs) => doubt \subseteq doubt'
    BY DEF Mode
  <2>5. \A u : Quit(u) => doubt \subseteq doubt'
    BY DEF Quit
  <2>6. doubt \subseteq doubt'
    BY <2>2, <2>3, <2>4, <2>5 DEF Users
  <2> QED BY <2>1, <2>6 DEF UsersOnly
<1>2. ASSUME \A c \in Channel : Aside(c) PROVE OrderInv'
  BY <1>1, <1>2, AsideStays DEF OrderInv
<1>3. ASSUME NEW u \in Other, NEW v \in Other, NEW sign \in BOOLEAN
      PROVE  /\ <<[plus |-> sign, nick |-> u]>> \in Seq(Marks)
             /\ <<[plus |-> sign, nick |-> u], [plus |-> ~sign, nick |-> v]>> \in Seq(Marks)
  <2>1. [plus |-> sign, nick |-> u] \in Marks /\ [plus |-> ~sign, nick |-> v] \in Marks
    BY DEF Marks
  <2> QED BY <2>1
<1>4. ASSUME NEW u \in Other, NEW a \in Channel, Join(u, a) \/ Leave(u, a) \/ Kick(u, a) PROVE OrderInv'
  BY <1>2, <1>4, OthersAside
<1>5. ASSUME NEW u \in Other, NEW a \in Channel, NEW sign \in BOOLEAN, Mode(a, <<[plus |-> sign, nick |-> u]>>) PROVE OrderInv'
  BY <1>2, <1>3, <1>5, ModeAside
<1>6. ASSUME NEW u \in Other, NEW v \in Other, NEW a \in Channel, NEW sign \in BOOLEAN,
             Mode(a, <<[plus |-> sign, nick |-> u], [plus |-> ~sign, nick |-> v]>>)
      PROVE  OrderInv'
  BY <1>2, <1>3, <1>6, ModeAside
<1>7. ASSUME NEW n \in Nick, NEW a \in Channel, Kick(n, a) PROVE OrderInv'
  BY <1>1, <1>4, <1>7, KickedOrders DEF Nick
<1>8. ASSUME NEW u \in Other, NEW new \in Other, Rename(u, new) PROVE OrderInv'
  BY <1>2, <1>8, RenameAside
<1>9. ASSUME NEW u \in Other, Quit(u) PROVE OrderInv'
  BY <1>2, <1>9, QuitAside
<1> QED BY <1>4, <1>5, <1>6, <1>7, <1>8, <1>9 DEF Users

-----------------------------------------------------------------------------
\* The configuration asks for the channels in the first list.
LEMMA OrdersInit == ASSUME ChannelsInit PROVE OrderInv
<1>1. /\ ordered = Configured /\ DOMAIN chans = Configured /\ up = <<>> /\ down = <<>>
      /\ \A c \in Channel : ~In(c)
  BY RoomsAre DEF ChannelsInit, In
<1>2. up \in Seq(UpLines) /\ ToSet(up) = {} /\ ToSet(down) = {}
  BY <1>1, NoLines
<1>3. ASSUME NEW c \in Channel PROVE OrderOf(c)
  <2>1. Gated(c, up)
    BY <1>2, GatedAre
  <2> QED BY <1>1, <1>2, <2>1 DEF OrderOf, ToBeIn, ToBeOut
<1> QED BY <1>3 DEF OrderInv

\* Every step keeps the orders.
LEMMA OrdersStep == ASSUME ChannelsTyped, ViewInv, OrderInv, [ChannelsNext]_channelsVars PROVE OrderInv'
<1>1. CASE Receive
  BY <1>1, ReadKeeps, WelcomeOrders
<1>2. CASE Timer
  BY <1>2, TimerOrders
<1>3. CASE ReloadJoin
  BY <1>3, ReloadJoinOrders
<1>4. ASSUME NEW ch \in Channel, OrderJoin(ch) \/ OrderPart(ch) PROVE OrderInv'
  BY <1>4, OrderJoinOrders, OrderPartOrders
<1>5. CASE Connect
  BY <1>5, ConnectOrders
<1>6. CASE LoseConnection
  BY <1>6, LoseOrders
<1>7. CASE ServerTakes
  BY <1>7, TakesJoinOrders, TakesPartOrders, TakesAuthOrders DEF ServerTakes
<1>8. CASE Users
  BY <1>8, UsersOrders
<1>9. CASE UNCHANGED channelsVars
  BY <1>9 DEF channelsVars, server, bot, ghosts, OrderInv, OrderOf, In
<1> QED BY <1>1, <1>2, <1>3, <1>4, <1>5, <1>6, <1>7, <1>8, <1>9 DEF ChannelsNext

\* When nothing is under way any more, none is kept that is to be out.
LEMMA OrdersAre == ASSUME ChannelsTyped, OrderInv PROVE OrdersKept
<1> SUFFICES ASSUME up = <<>>, down = <<>>, NEW c, c \notin doubt PROVE c \in DOMAIN chans <=> c \in ordered
  BY DEF OrdersKept, Quiet
<1>1. DOMAIN chans \subseteq Channel /\ ordered \subseteq Channel
  BY ChannelListIs DEF ChannelsTyped
<1>2. ASSUME c \in Channel PROVE c \in DOMAIN chans <=> c \in ordered
  <2>1. OrderOf(c)
    BY <1>2 DEF OrderInv
  <2> QED BY <2>1, NoLines DEF OrderOf, ToBeIn, ToBeOut
<1> QED BY <1>1, <1>2

\* When nothing is under way, the bot lists the channels that the configuration or the last orders ask for (join.c:512-516,
\* 556-567), but for those where an order and the lines crossed.
THEOREM ChannelsOrdersKept == ChannelsSpec => []OrdersKept
<1> DEFINE I == ChannelsTyped /\ ViewInv /\ OrderInv
<1>1. ChannelsInit => I
  BY ViewInit, OrdersInit
<1>2. I /\ [ChannelsNext]_channelsVars => I'
  BY ViewStep, OrdersStep
<1>3. I => OrdersKept
  BY OrdersAre
<1> QED BY <1>1, <1>2, <1>3, PTL DEF ChannelsSpec

=============================================================================
