----------------------------- MODULE Connection -----------------------------
(***************************************************************************)
(* The bot's one IRC connection: the socket object of src/sock.c, the      *)
(* reconnect logic of src/irc.c, the loop around it in src/main.c and, of  *)
(* src/dns.c, the queries asked on behalf of the socket object.            *)
(*                                                                         *)
(* One action is one callback of io_loop run to its end, every call that   *)
(* it makes included.  Addresses, ports and the text of lines are left     *)
(* out; of the two queues of outgoing lines only "is there any" is kept    *)
(* (SendQueue models the lines).  Time passes in ticks of half a minute:   *)
(* longer than six tries of a query; CONNTIMEOUT is longer than both the   *)
(* AAAA query for a name and the A query that follows it take.             *)
(***************************************************************************)
EXTENDS Integers, Sequences, SequencesExt

CONSTANTS
  NServers,    \* number of "server" entries in the configuration
  ByName,      \* the entries that are host names and need a DNS query
  IPv6,        \* built with IPV6: ask for an AAAA record first
  DnsUp,       \* dns_init succeeded: its descriptor stays registered
  Timeout,     \* CONNTIMEOUT in ticks
  QueryLife,   \* ticks until dns_canwrite has given up on a query
  SilentPeers  \* a server may stop talking without closing the connection

Server == 0 .. NServers - 1

ASSUME ConnectionAssumption ==
  /\ NServers \in Nat \ {0}
  /\ ByName \subseteq Server
  /\ IPv6 \in BOOLEAN /\ DnsUp \in BOOLEAN /\ SilentPeers \in BOOLEAN
  /\ QueryLife \in Nat \ {0} /\ Timeout \in Nat /\ 2 * QueryLife <= Timeout

VARIABLES
  bs,       \* [state, s, host]: the bufsock_t of the connection
  fds,      \* open sockets: descriptor -> [peer, net, want]; all registered
  queries,  \* dns_queries, newest first: [owner, family, host, age]
  nextserv, \* index of the server to try next
  out,      \* is there anything in bs->sendbuf?
  lines,    \* is there anything in irc.linequeue?
  quiet,    \* ticks since irc.lastdata
  purged,   \* no unregistered entry is left in iolist
  parted,   \* ghost: a reconnect has once left the socket before it open
  tried,    \* ghost: the servers that the latest irc_conn went through
  mode      \* "starting": in the loop of main.c:241, "running": in io_loop

vars == <<bs, fds, queries, nextserv, out, lines, quiet, purged, parted, tried, mode>>

\* bufsockstate_t, sock.h:43-49.
BS_ERR == -1
BS_DISCON == 0
BS_DNS == 1
BS_CONN == 2
BS_READY == 3

NoFd == -1
Descriptor == 0 .. 2

Open == DOMAIN fds

\* What the kernel knows of a socket.  "eof" is a close by the peer, "broken"
\* a refused, reset or timed out connection.
NetStates == {"connecting", "up", "eof", "broken"}

-----------------------------------------------------------------------------
(* A connection attempt works on a record of the variables it may change,   *)
(* because callbacks nest: a failed send calls cb_err, which reconnects.    *)

Here == [state |-> bs.state, s |-> bs.s, host |-> bs.host, fds |-> fds,
         queries |-> queries, nextserv |-> nextserv, out |-> out,
         lines |-> lines, quiet |-> quiet, purged |-> purged,
         parted |-> parted, tried |-> tried, ok |-> TRUE]

Become(c) ==
  /\ bs' = [state |-> c.state, s |-> c.s, host |-> c.host]
  /\ fds' = c.fds
  /\ queries' = c.queries
  /\ nextserv' = c.nextserv
  /\ out' = c.out
  /\ lines' = c.lines
  /\ quiet' = c.quiet
  /\ purged' = c.purged
  /\ parted' = c.parted
  /\ tried' = c.tried

\* Mutant: the caller's copy of the descriptor survives.
IoCloseKeepsNumber(c) ==
  IF c.s = NoFd THEN c
  ELSE [c EXCEPT !.fds = [d \in DOMAIN c.fds \ {c.s} |-> c.fds[d]], !.purged = FALSE]

\* io_close: unregister, close, forget the descriptor.
IoClose(c) ==
  IF c.s = NoFd THEN c
  ELSE [c EXCEPT !.fds = [d \in DOMAIN c.fds \ {c.s} |-> c.fds[d]],
                 !.s = NoFd, !.purged = FALSE]

\* io_wantwrite(bs->s, bufsock_canwrite); it finds no entry for -1.
WantWrite(c, w) ==
  IF c.s = NoFd THEN c ELSE [c EXCEPT !.fds[c.s].want = w]

LowestFree(f) == CHOOSE d \in Descriptor \ DOMAIN f :
                   \A e \in Descriptor \ DOMAIN f : d <= e

\* bufsock_tcp_conn and bufsock_tcp6_conn: the result when a new socket can
\* be had and connect() is under way, and when any of the calls fails.
TcpConn(c, peer) ==
  LET closed == IoClose(c)
      d == LowestFree(closed.fds)
  IN  {[closed EXCEPT !.state = BS_ERR, !.ok = FALSE],
       [closed EXCEPT
          !.state = BS_CONN, !.s = d, !.ok = TRUE,
          !.fds = [e \in DOMAIN closed.fds \cup {d} |->
                     IF e = d THEN [peer |-> peer, net |-> "connecting", want |-> TRUE]
                              ELSE closed.fds[e]]]}

Query(family, host) == [owner |-> "bs", family |-> family, host |-> host, age |-> 0]

\* dns_host2ip and dns_host2ip6 fail only without a resolver.
Ask(c, family, host) ==
  IF DnsUp THEN [c EXCEPT !.queries = <<Query(family, host)>> \o @, !.ok = TRUE]
           ELSE [c EXCEPT !.ok = FALSE]

\* Mutant: the name of the first server is kept.
TcpConnectKeepsHost(c, host) ==
  LET fresh == [c EXCEPT !.out = FALSE, !.host = IF @ = NoFd THEN host ELSE @]
      asked == Ask(fresh, IF IPv6 THEN "aaaa" ELSE "a", host)
  IN  IF host \in ByName
        THEN {[asked EXCEPT !.state = IF asked.ok THEN BS_DNS ELSE BS_ERR,
                               !.parted = @ \/ c.s # NoFd]}
        ELSE TcpConn(fresh, host)

\* bufsock_tcp_connect.  The socket of an earlier connection is closed only
\* on the way through TcpConn.
TcpConnect(c, host) ==
  LET fresh == [c EXCEPT !.out = FALSE, !.host = host]
      asked == Ask(fresh, IF IPv6 THEN "aaaa" ELSE "a", host)
  IN  IF host \in ByName
        THEN {[asked EXCEPT !.state = IF asked.ok THEN BS_DNS ELSE BS_ERR,
                               !.parted = @ \/ c.s # NoFd]}
        ELSE TcpConn(fresh, host)

\* irc_reg: the first line goes straight to the send buffer if the queue is
\* empty and the last line was sent long enough ago, the rest is queued.
Registered(c) ==
  {[c EXCEPT !.lines = TRUE]} \cup
  (IF c.lines THEN {} ELSE {WantWrite([c EXCEPT !.out = TRUE, !.lines = TRUE], TRUE)})

\* Mutant: nextserv stays.
AttemptSameServer(c) ==
  {[r EXCEPT !.tried = @ \cup {c.nextserv}] : r \in TcpConnect(c, c.nextserv)}

\* One turn of the loop of irc_conn.
Attempt(c) ==
  {[r EXCEPT !.nextserv = (c.nextserv + 1) % NServers, !.tried = @ \cup {c.nextserv}] :
     r \in TcpConnect(c, c.nextserv)}

\* irc_conn tries the servers in turn, beginning with nextserv, until one
\* attempt gets under way or all of them have failed.
IrcConn(c) ==
  LET failed[n \in 0 .. NServers] ==
        IF n = 0 THEN {[c EXCEPT !.tried = {}]}
        ELSE {r \in UNION {Attempt(x) : x \in failed[n - 1]} : ~r.ok}
      underway == {r \in UNION {Attempt(x) : x \in UNION {failed[n] : n \in 0 .. NServers - 1}} : r.ok}
  IN  (UNION {Registered([r EXCEPT !.quiet = 0]) : r \in underway}) \cup failed[NServers]

\* irc_cb_err ignores the result of irc_conn.
CbErr(c) == IrcConn(c)

-----------------------------------------------------------------------------
Init ==
  /\ bs = [state |-> BS_DISCON, s |-> NoFd, host |-> NoFd]
  /\ fds = <<>>
  /\ queries = <<>>
  /\ nextserv = 0
  /\ out = FALSE /\ lines = FALSE
  /\ quiet = 0
  /\ purged = TRUE /\ parted = FALSE /\ tried = {}
  /\ mode = "starting"

\* main.c:241-244, once a minute until it succeeds.
FirstConn ==
  /\ mode = "starting"
  /\ \E c \in IrcConn(Here) :
       /\ Become(c)
       /\ mode' = IF c.ok THEN "running" ELSE "starting"

\* Is anything left in iolist?  If not, io_loop returns at once (io.c:206).
LoopTurns == mode = "running" /\ (Open # {} \/ DnsUp \/ ~purged)

\* bufsock_canwrite on descriptor d.  The kernel reports a failed connection
\* as writable too.
CanWrite(d) ==
  /\ LoopTurns
  /\ d \in Open /\ fds[d].want /\ fds[d].net # "connecting"
  /\ LET ready == [Here EXCEPT !.state = BS_READY]
         flushed == WantWrite([ready EXCEPT !.out = FALSE], FALSE)
         failed == [IoClose(ready) EXCEPT !.state = BS_ERR]
     IN  IF ~out THEN Become(flushed)
         ELSE \/ fds[d].net # "broken" /\ Become(flushed)
              \/ fds[d].net # "broken" /\ Become(ready)       \* EAGAIN
              \/ fds[d].net # "up" /\ \E c \in CbErr(failed) : Become(c)
  /\ UNCHANGED mode

\* irc_cb_data: the plugins may answer what they read with new lines.
CbData(c) ==
  LET heard == [c EXCEPT !.quiet = 0]
  IN  {heard, [heard EXCEPT !.lines = TRUE]}
        \cup (IF lines THEN {} ELSE {WantWrite([heard EXCEPT !.out = TRUE], TRUE)})

\* bufsock_canread on descriptor d: data, end of file or an error.
CanRead(d) ==
  /\ LoopTurns
  /\ d \in Open
  /\ \/ fds[d].net = "up" /\ \E c \in CbData(Here) : Become(c)
     \/ fds[d].net = "eof" /\ \E c \in CbErr([IoClose(Here) EXCEPT !.state = BS_DISCON]) : Become(c)
     \/ fds[d].net = "broken" /\ \E c \in CbErr([IoClose(Here) EXCEPT !.state = BS_ERR]) : Become(c)
  /\ UNCHANGED mode

-----------------------------------------------------------------------------
Answered(i) == [Here EXCEPT !.queries = RemoveAt(@, i)]

\* bufsock_dns with at least one address.
Resolved(c, host) ==
  IF c.state # BS_DNS THEN {c}
  ELSE LET ends == TcpConn(c, host)
       IN  {r \in ends : r.ok} \cup UNION {CbErr(r) : r \in {x \in ends : ~x.ok}}

\* bufsock_dns without an address: whatever the state is.
Unresolved(c) == CbErr([c EXCEPT !.state = BS_ERR])

\* The IPv4 query that follows a failed IPv6 attempt (sock.c:62, 70).
FallBack(c) ==
  LET asked == Ask(c, "a", c.host)
  IN  IF asked.ok THEN {asked} ELSE Unresolved(c)

\* bufsock_dns6 with at least one address.
Resolved6(c, host) ==
  IF c.state # BS_DNS THEN {c}
  ELSE LET ends == TcpConn(c, host)
       IN  {r \in ends : r.ok} \cup UNION {FallBack(r) : r \in {x \in ends : ~x.ok}}

\* dns_canread finds the query an answer belongs to, takes it off the list
\* and calls the requester.
DnsAnswer(i) ==
  /\ LoopTurns
  /\ queries[i].owner = "bs"
  /\ LET c == Answered(i)
         q == queries[i]
     IN  \E r \in (IF q.family = "a" THEN Resolved(c, q.host) \cup Unresolved(c)
                                     ELSE Resolved6(c, q.host) \cup FallBack(c)) : Become(r)
  /\ UNCHANGED mode

\* dns_canwrite drops a query after six tries and tells nobody.
DnsGiveUp(i) ==
  /\ LoopTurns
  /\ queries[i].age = QueryLife
  /\ Become(Answered(i))
  /\ UNCHANGED mode

-----------------------------------------------------------------------------
\* Mutant: the timer only moves lines.
IrcTimerNoTimeout ==
  /\ LoopTurns
  /\ Become([Here EXCEPT !.purged = TRUE])
  /\ UNCHANGED mode

\* irc_timer: reconnect when the server has been quiet for too long, otherwise
\* move a line from the queue to the send buffer.
IrcTimer ==
  /\ LoopTurns
  /\ IF quiet > Timeout
       THEN \E c \in IrcConn([Here EXCEPT !.purged = TRUE]) : Become(c)
       ELSE IF lines
       THEN \E more \in BOOLEAN :
              Become(WantWrite([Here EXCEPT !.out = TRUE, !.lines = more, !.purged = TRUE], TRUE))
       ELSE Become([Here EXCEPT !.purged = TRUE])
  /\ UNCHANGED mode

\* Mutant: bufsock_free does not cancel.
OrphanedAll(qs) == [i \in 1 .. Len(qs) |-> [qs[i] EXCEPT !.owner = "freed"]]

\* dns_cancel removes the first query it finds; those it leaves behind keep a
\* pointer to the freed socket object.
Orphaned(qs) ==
  LET mine == {i \in 1 .. Len(qs) : qs[i].owner = "bs"}
      first == CHOOSE i \in mine : \A j \in mine : i <= j
      rest == IF mine = {} THEN qs ELSE RemoveAt(qs, first)
  IN  [i \in 1 .. Len(rest) |-> [rest[i] EXCEPT !.owner = "freed"]]

\* A plugin set the runlevel: irc_free (irc_discon flushes what it can, then
\* bufsock_free) and, on restart and reload, irc_init for the next round.
Restart ==
  /\ mode = "running"
  /\ Become([IoClose(Here) EXCEPT !.state = BS_DISCON, !.host = NoFd, !.out = FALSE,
                                  !.lines = FALSE, !.queries = Orphaned(queries)])
  /\ mode' = "starting"

-----------------------------------------------------------------------------
(* The world outside. *)

SetNet(d, net) ==
  /\ fds' = [fds EXCEPT ![d].net = net]
  /\ UNCHANGED <<bs, queries, nextserv, out, lines, quiet, purged, parted, tried, mode>>

Established(d) == d \in Open /\ fds[d].net = "connecting" /\ SetNet(d, "up")

Broken(d) == d \in Open /\ fds[d].net \in {"connecting", "up", "eof"} /\ SetNet(d, "broken")

PeerCloses(d) == d \in Open /\ fds[d].net = "up" /\ SetNet(d, "eof")

\* Half a minute passes.  Within it poll has reported what is wrong with a
\* socket, a query has been answered or given up, a handshake has ended long
\* before CONNTIMEOUT, and a talkative server has sent its PING.
Tick ==
  /\ \A d \in Open :
       /\ fds[d].net \notin {"eof", "broken"} \/ mode = "starting"
       /\ quiet >= Timeout => fds[d].net = "up" /\ SilentPeers
  /\ \A i \in 1 .. Len(queries) : queries[i].age < QueryLife
  /\ quiet' = IF quiet > Timeout THEN quiet ELSE quiet + 1
  /\ queries' = [i \in 1 .. Len(queries) |-> [queries[i] EXCEPT !.age = @ + 1]]
  /\ UNCHANGED <<bs, fds, nextserv, out, lines, purged, parted, tried, mode>>

Next ==
  \/ FirstConn
  \/ \E d \in Descriptor : CanWrite(d) \/ CanRead(d)
  \/ \E i \in 1 .. Len(queries) : DnsAnswer(i) \/ DnsGiveUp(i)
  \/ IrcTimer
  \/ Restart
  \/ \E d \in Descriptor : Established(d) \/ Broken(d) \/ PeerCloses(d)
  \/ Tick

Spec == Init /\ [][Next]_vars

\* The loop serves every descriptor that stays ready and runs its timers, an
\* answer or the end of a query comes, a handshake ends, time goes on.  A
\* server need not say anything and no answer need be a good one.
ReadsEnd(d) == d \in Open /\ fds[d].net \in {"eof", "broken"} /\ CanRead(d)

HandshakeEnds(d) ==
  d \in Open /\ fds[d].net = "connecting" /\ (Established(d) \/ Broken(d))

\* The machine's own network is not down at every single attempt.
FirstConnUnderway == FirstConn /\ mode' = "running"
ReconnectUnderway == IrcTimer /\ quiet > Timeout /\ quiet' = 0

Fairness ==
  /\ SF_vars(FirstConnUnderway)
  /\ SF_vars(ReconnectUnderway)
  /\ WF_vars(IrcTimer)
  /\ WF_vars(Tick)
  /\ \A d \in Descriptor :
       /\ WF_vars(CanWrite(d))
       /\ WF_vars(ReadsEnd(d))
       /\ WF_vars(HandshakeEnds(d))
  /\ WF_vars(\E i \in 1 .. Len(queries) : DnsAnswer(i) \/ DnsGiveUp(i))

FairSpec == Spec /\ Fairness

-----------------------------------------------------------------------------
\* Values of the variables; nextserv is a server of the configuration (irc.c:340)
TypeOK ==
  /\ bs \in [state : BS_ERR .. BS_READY, s : Descriptor \cup {NoFd}, host : Server \cup {NoFd}]
  /\ Open \subseteq Descriptor
  /\ \A d \in Open : fds[d] \in [peer : Server, net : NetStates, want : BOOLEAN]
  /\ \A i \in 1 .. Len(queries) :
       queries[i] \in [owner : {"bs", "freed"}, family : {"a", "aaaa"},
                       host : Server, age : 0 .. QueryLife]
  /\ nextserv \in Server
  /\ {out, lines, purged, parted} \subseteq BOOLEAN
  /\ tried \subseteq Server
  /\ quiet \in 0 .. Timeout + 1
  /\ mode \in {"starting", "running"}

\* However attempts, errors and answers interleave, the bot neither forgets
\* an open socket nor keeps the number of a closed one (sock.c closes and
\* opens in six places).
OneSocket == TypeOK /\ Open = {bs.s} \ {NoFd}

\* The server the bot talks to is the one it last chose, unless a reconnect on
\* CONNTIMEOUT has left the old socket open until a name is resolved
\* (sock.c:257-292): what happens on that socket meanwhile makes the answer
\* ineffective (sock.c:43, 85).
TalksToChosenServer ==
  bs.state \in {BS_CONN, BS_READY} /\ ~parted => bs.s # NoFd /\ fds[bs.s].peer = bs.host

\* No query survives the socket object that asked it: the one dns_cancel of
\* bufsock_free is enough, because there is never a second query; but for the
\* same reconnects.
NoOrphanedQuery == ~parted => \A i \in 1 .. Len(queries) : queries[i].owner = "bs"

\* Whatever way an attempt ends (a lost query, of which the bot is not told,
\* included), the bot makes another one: it is never without a socket and
\* without a pending query for good.
Offline == Open = {} /\ queries = <<>>

ComesBack == Offline ~> ~Offline

\* While no server accepts, the attempts go round all the configured ones.
TriesEveryServer ==
  \A i \in Server :
    <>[](\A d \in Open : fds[d].net # "up") => []<>(i \in tried)
=============================================================================
