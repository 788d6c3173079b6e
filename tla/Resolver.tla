------------------------------ MODULE Resolver ------------------------------
(***************************************************************************)
(* The DNS client of src/dns.c: the list of pending queries, the datagrams *)
(* that may be lost, late or doubled, and the two callbacks and the timer  *)
(* that drive it.  Records are left out; a query is known by its id, the   *)
(* name it asks for and who asked.  A step of the clock is a second, as in time().    *)
(***************************************************************************)
EXTENDS Lists, FiniteSets, SequencesExt

CONSTANTS
  Requester,  \* the req->ptr of the callers
  Name,       \* host names
  Id,         \* query ids; dns_genid draws a random one of 2^16
  NsCount,    \* number of name servers
  MaxPending, \* bound on pending queries
  MaxFlight,  \* bound on answers under way
  LifeBound   \* the time a query is claimed to live at most

ASSUME ResolverAssumption ==
  /\ NsCount \in Nat \ {0}
  /\ MaxPending \in Nat \ {0} /\ MaxFlight \in Nat /\ LifeBound \in Nat

VARIABLES
  queries,   \* dns_queries, newest first: [id, who, name, sent, retries, age, life,
             \* asked, alone, inherited]
  flight,    \* answers worked out or on their way: set of [id, name]
  want,      \* POLLOUT is wanted on dns_setup.s
  nsnext,    \* the name server that gets the next datagram
  sinceduty  \* seconds since lastduty, capped

vars == <<queries, flight, want, nsnext, sinceduty>>

\* The comparisons with now - 3 cannot tell more than four seconds apart.
Cap == 4
Tries == 6   \* retries > 5 ends a query

Ids(qs) == {qs[i].id : i \in 1 .. Len(qs)}

Init ==
  /\ queries = <<>>
  /\ flight = {}
  /\ want = FALSE
  /\ nsnext = 0
  /\ sinceduty = 0

\* Mutant: an id is drawn without looking at the pending ones.
AnyId(id) == TRUE

\* dns_genid: the first id from a random start that no pending query has.  It
\* may be that of a former query.
FreeId(id) == id \notin Ids(queries)

\* Ghost: no other query has been pending at any time with this one.
Accompanied(qs) == [i \in 1 .. Len(qs) |-> [qs[i] EXCEPT !.alone = FALSE]]

\* Ghost: the names that are answered under this id at this moment.
Answered(id) == {a.name : a \in {x \in flight : x.id = id}}

\* dns_query, for dns_host2ip and dns_host2ip6.
Ask(who, name, id) ==
  /\ Len(queries) < MaxPending
  /\ FreeId(id)
  /\ queries' = <<[id |-> id, who |-> who, name |-> name, sent |-> FALSE, retries |-> 0,
                   age |-> 0, life |-> 0, asked |-> {}, alone |-> queries = <<>>,
                   inherited |-> Answered(id) \ {name}]>>
                \o Accompanied(queries)
  /\ want' = TRUE
  /\ UNCHANGED <<flight, nsnext, sinceduty>>

\* Not sent yet, or sent more than three seconds ago.
Due(q) == ~q.sent \/ q.age > 3

Spent(q) == q.retries > Tries - 1

Sendable(q) == Due(q) /\ ~Spent(q)

Kept(qs) == Sublist(qs, {i \in 1 .. Len(qs) : ~Due(qs[i])})

Sent(q) == [q EXCEPT !.sent = TRUE, !.age = 0, !.retries = @ + 1, !.asked = @ \cup {nsnext}]

\* Mutant: retries go to the same server.
SameNs(n) == n

\* The servers take turns, over all queries (dns.c:239).
NextNs(n) == (n + 1) % NsCount

\* dns_canwrite walks the list, dropping what is due and spent, up to the first
\* query it can send; it sends one datagram per call.
CanWrite ==
  /\ want
  /\ LET n == SelectInSeq(queries, Sendable)
     IN  IF n = 0
           THEN /\ queries' = Kept(queries)
                /\ want' = FALSE
                /\ UNCHANGED nsnext
           ELSE /\ queries' = Kept(SubSeq(queries, 1, n - 1)) \o <<Sent(queries[n])>>
                                \o SubSeq(queries, n + 1, Len(queries))
                /\ nsnext' = NextNs(nsnext)
                /\ UNCHANGED want
  /\ UNCHANGED <<flight, sinceduty>>

\* dns_duty, a timer of io_loop.
Duty ==
  /\ sinceduty > 3
  /\ want' = (queries # <<>>)
  /\ sinceduty' = 0
  /\ UNCHANGED <<queries, flight, nsnext>>

\* dns_findid: the query that an answer is taken for, by its id alone.
TakenFor(a) == SelectInSeq(queries, LAMBDA q : q.id = a.id)

\* dns_canread: the query leaves the list and its requester is called back.
CanRead(a) ==
  /\ a \in flight
  /\ flight' = flight \ {a}
  /\ queries' = IF TakenFor(a) = 0 THEN queries ELSE RemoveAt(queries, TakenFor(a))
  /\ UNCHANGED <<want, nsnext, sinceduty>>

\* dns_cancel: the first query with that pointer.
Cancel(who) ==
  /\ LET n == SelectInSeq(queries, LAMBDA q : q.who = who)
     IN  n # 0 /\ queries' = RemoveAt(queries, n)
  /\ UNCHANGED <<flight, want, nsnext, sinceduty>>

-----------------------------------------------------------------------------
(* The network: a name server may answer a query it was sent, also twice or *)
(* late; any answer may be lost.                                            *)

Answer(i) ==
  /\ queries[i].sent
  /\ Cardinality(flight) < MaxFlight
  /\ flight' = flight \cup {[id |-> queries[i].id, name |-> queries[i].name]}
  /\ UNCHANGED <<queries, want, nsnext, sinceduty>>

Lose(a) ==
  /\ flight' = flight \ {a}
  /\ UNCHANGED <<queries, want, nsnext, sinceduty>>

\* A second passes.  The loop turns ten times a second: by then the writable
\* socket has been served until want is off, and the timer has run; callers are
\* taken not to ask without pause, which would keep want on.
Tick ==
  /\ ~want
  /\ sinceduty < Cap
  /\ sinceduty' = sinceduty + 1
  /\ queries' = [i \in 1 .. Len(queries) |->
                   [queries[i] EXCEPT !.age = IF @ < Cap THEN @ + 1 ELSE @,
                                      !.life = IF @ <= LifeBound THEN @ + 1 ELSE @]]
  /\ UNCHANGED <<flight, want, nsnext>>

Next ==
  \/ \E who \in Requester, name \in Name, id \in Id : Ask(who, name, id)
  \/ CanWrite
  \/ Duty
  \/ \E a \in flight : CanRead(a) \/ Lose(a)
  \/ \E who \in Requester : Cancel(who)
  \/ \E i \in 1 .. Len(queries) : Answer(i)
  \/ Tick

Spec == Init /\ [][Next]_vars

-----------------------------------------------------------------------------
\* Whichever answer comes next, its requester asked for the name it is about,
\* although answers come late, twice, out of order and after their query is gone.
\* The one way to be told another name's address is to draw the id of a former
\* query while an answer to it is still under way: dns_canread compares neither
\* the name nor the name server that was asked (dns.c:118).
RightAnswer ==
  \A a \in flight : TakenFor(a) # 0 =>
    LET q == queries[TakenFor(a)] IN a.name = q.name \/ a.name \in q.inherited

\* A query whose answers are all lost is dropped within half a minute: the
\* write interest that dns_canwrite switches off is switched on again by
\* dns_duty in time for every try.  Connection relies on it.
LifeBounded == \A i \in 1 .. Len(queries) : queries[i].life <= LifeBound

\* A query that was tried six times has been to every name server, if it was
\* the only one: two queries that take turns at sending can each meet the same
\* server every time, since nsnext is shared (dns.c:225-239).
EveryNameServerAsked ==
  /\ LifeBounded
  /\ \A i \in 1 .. Len(queries) :
      queries[i].alone /\ queries[i].retries = Tries =>
        Cardinality(queries[i].asked) = IF NsCount < Tries THEN NsCount ELSE Tries
=============================================================================
