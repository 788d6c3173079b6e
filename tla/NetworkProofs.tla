---------------------------- MODULE NetworkProofs ----------------------------
(***************************************************************************)
(* Proofs about what comes in over the network: the answers of name        *)
(* servers (Resolver), and the lines of the IRC server (LineReader).       *)
(***************************************************************************)
EXTENDS Resolver, LineReader, ListProofs

-----------------------------------------------------------------------------
(* Resolver                                                                *)

Server == 0 .. NsCount - 1

Query == [id : Id, who : Requester, name : Name, sent : BOOLEAN, retries : 0 .. Tries,
          age : 0 .. Cap, life : Nat, asked : SUBSET Server, alone : BOOLEAN,
          inherited : SUBSET Name]

\* The seconds that a query may still live.  Between one datagram and the next are
\* four seconds; a query that is sent between two runs of dns_duty is not due at
\* the next run and waits four seconds more; what is due while POLLOUT is wanted is
\* sent or dropped before a second passes.
Lag(q, w, s) ==
  IF w /\ Due(q) THEN IF s = 0 THEN -4 ELSE 0 ELSE IF q.age >= s THEN 0 ELSE 4

ToLive(q, w, s) == 4 * (Tries + 1 - q.retries) - s + Lag(q, w, s)

\* How many datagrams ago a server was last sent one, if all go in turn.
Back(n, next) == IF n < next THEN next - n ELSE next - n + NsCount

Recent(k, next) == {n \in Server : Back(n, next) <= k}

\* A query in a list of N, with POLLOUT wanted or not, s seconds after dns_duty.
InTime(q, w, s) == (~q.sent => w) /\ q.life + ToLive(q, w, s) <= LifeBound

InTurn(q, next, N) == q.alone => N = 1 /\ q.asked = Recent(q.retries, next)

TypedQueries ==
  /\ queries \in Seq(Query) /\ flight \in SUBSET [id : Id, name : Name]
  /\ want \in BOOLEAN /\ nsnext \in Server /\ sinceduty \in 0 .. Cap

AllInTime(qs, w, s) == \A i \in 1 .. Len(qs) : InTime(qs[i], w, s)

AllInTurn(qs, next) == \A i \in 1 .. Len(qs) : InTurn(qs[i], next, Len(qs))

\* An answer is about the name that a query asks for, or it was under way already
\* when the query drew its id.
Tells(q, x) == x.name = q.name \/ x.name \in q.inherited

\* An id has one name in the list, and the answers with it are about that name.
IdsTell(qs, answers) ==
  /\ \A i, j \in 1 .. Len(qs) : qs[i].id = qs[j].id => qs[i].name = qs[j].name
  /\ \A x \in answers : \A i \in 1 .. Len(qs) : qs[i].id = x.id => Tells(qs[i], x)

Inv ==
  /\ TypedQueries
  /\ LifeBound >= 27 => AllInTime(queries, want, sinceduty)
  /\ AllInTurn(queries, nsnext)
  /\ IdsTell(queries, flight)

-----------------------------------------------------------------------------
\* Each entry of s comes from t.
From(s, t) == \A i \in 1 .. Len(s) : \E j \in 1 .. Len(t) : s[i] = t[j]

\* dns_canwrite drops what is due from what it walks over.
LEMMA KeptIs ==
  ASSUME NEW qs \in Seq(Query)
  PROVE  /\ Kept(qs) \in Seq(Query) /\ Len(Kept(qs)) <= Len(qs)
         /\ From(Kept(qs), qs)
         /\ \A i \in 1 .. Len(Kept(qs)) : ~Due(Kept(qs)[i])
<1> DEFINE I == {i \in 1 .. Len(qs) : ~Due(qs[i])}
           r == Kept(qs)
<1>1. r = Sublist(qs, I)
  BY DEF Kept
<1>2. \A i : i \in I <=> i \in 1 .. Len(qs) /\ ~Due(qs[i])
  OBVIOUS
<1> HIDE DEF r, I
<1>3. PICK at : r \in Seq(Query) /\ Stands(qs, I, Len(qs), r, at)
  BY <1>1, SublistIs
<1>4. Len(r) \in Nat /\ Len(qs) \in Nat
  BY <1>3, LenProperties
<1>5. From(r, qs) /\ \A i \in 1 .. Len(r) : ~Due(r[i])
  BY <1>2, <1>3, Zenon DEF From, Stands
<1>6. Len(r) <= Len(qs)
  <2>1. /\ at \in [1 .. Len(r) -> 1 .. Len(qs)]
        /\ \A k, m \in 1 .. Len(r) : k < m => at[k] < at[m]
    BY <1>3 DEF Stands
  <2> QED BY <1>4, <2>1, NotLonger
<1> QED BY <1>3, <1>5, <1>6 DEF r

\* What stands before and behind the n-th query.
LEMMA PartsAre ==
  ASSUME NEW qs \in Seq(Query), NEW n \in 1 .. Len(qs)
  PROVE  LET s == SubSeq(qs, 1, n - 1)
             t == SubSeq(qs, n + 1, Len(qs))
         IN  /\ s \in Seq(Query) /\ Len(s) = n - 1 /\ \A i \in 1 .. n - 1 : s[i] = qs[i]
             /\ t \in Seq(Query) /\ Len(t) = Len(qs) - n
             /\ \A i \in 1 .. Len(t) : t[i] = qs[n + i]
<1> Len(qs) \in Nat
  BY LenProperties
<1> QED BY SubSeqProperties

\* A query between two parts of a list.
LEMMA BetweenIs ==
  ASSUME NEW k \in Seq(Query), NEW e \in Query, NEW t \in Seq(Query), NEW r, r = (k \o <<e>>) \o t
  PROVE  /\ r \in Seq(Query) /\ Len(r) = Len(k) + 1 + Len(t)
         /\ \A i \in 1 .. Len(r) :
              \/ i \in 1 .. Len(k) /\ r[i] = k[i]
              \/ i = Len(k) + 1 /\ r[i] = e
              \/ i - (Len(k) + 1) \in 1 .. Len(t) /\ r[i] = t[i - (Len(k) + 1)]
<1> DEFINE v == k \o <<e>>
<1>1. /\ v \in Seq(Query) /\ Len(v) = Len(k) + 1 /\ v[Len(k) + 1] = e
      /\ \A i \in 1 .. Len(k) : v[i] = k[i]
  OBVIOUS
<1>2. r = v \o t
  OBVIOUS
<1> HIDE DEF v
<1>3. /\ v \o t \in Seq(Query) /\ Len(v \o t) = Len(v) + Len(t)
      /\ \A i \in 1 .. Len(v) + Len(t) : (v \o t)[i] = IF i <= Len(v) THEN v[i] ELSE t[i - Len(v)]
  BY <1>1, ConcatProperties
<1>4. /\ r \in Seq(Query) /\ Len(r) = Len(v) + Len(t)
      /\ \A i \in 1 .. Len(v) + Len(t) : r[i] = IF i <= Len(v) THEN v[i] ELSE t[i - Len(v)]
  BY <1>2, <1>3, Zenon
<1>5. Len(k) \in Nat /\ Len(t) \in Nat
  BY LenProperties
<1> QED BY ONLY <1>1, <1>4, <1>5

\* The list without one query.
LEMMA RemovedIs ==
  ASSUME NEW qs \in Seq(Query), NEW n \in 1 .. Len(qs)
  PROVE  /\ RemoveAt(qs, n) \in Seq(Query) /\ Len(RemoveAt(qs, n)) <= Len(qs)
         /\ From(RemoveAt(qs, n), qs)
<1> DEFINE s == SubSeq(qs, 1, n - 1)
           t == SubSeq(qs, n + 1, Len(qs))
<1>1. Len(qs) \in Nat
  BY LenProperties
<1>2. /\ s \in Seq(Query) /\ Len(s) = n - 1 /\ \A i \in 1 .. n - 1 : s[i] = qs[i]
      /\ t \in Seq(Query) /\ Len(t) = Len(qs) - n /\ \A i \in 1 .. Len(t) : t[i] = qs[n + i]
  BY PartsAre
<1>3. RemoveAt(qs, n) = s \o t
  BY DEF RemoveAt
<1> HIDE DEF s, t
<1>4. /\ s \o t \in Seq(Query) /\ Len(s \o t) = Len(qs) - 1
      /\ \A i \in 1 .. Len(s \o t) : (s \o t)[i] = IF i < n THEN qs[i] ELSE qs[i + 1]
  <2> DEFINE u == s \o t
  <2>1. /\ u \in Seq(Query) /\ Len(u) = Len(s) + Len(t)
        /\ \A i \in 1 .. Len(s) + Len(t) : u[i] = IF i <= Len(s) THEN s[i] ELSE t[i - Len(s)]
    BY <1>2, ConcatProperties
  <2> HIDE DEF u
  <2>2. Len(u) = Len(qs) - 1
    BY <1>1, <1>2, <2>1
  <2>3. ASSUME NEW i \in 1 .. Len(u) PROVE u[i] = IF i < n THEN qs[i] ELSE qs[i + 1]
    <3>1. CASE i < n
      <4>1. i \in 1 .. n - 1 /\ i <= Len(s) /\ i \in 1 .. Len(s) + Len(t)
        BY <1>1, <1>2, <2>1, <3>1
      <4>2. u[i] = s[i] /\ s[i] = qs[i]
        BY <1>2, <2>1, <4>1
      <4> QED BY <3>1, <4>2
    <3>2. CASE ~ i < n
      <4>1. u[i] = t[i - (n - 1)] /\ i - (n - 1) \in 1 .. Len(t) /\ n + (i - (n - 1)) = i + 1
        BY <1>1, <1>2, <2>1, <2>2, <3>2
      <4> QED BY <1>2, <3>2, <4>1
    <3> QED BY <3>1, <3>2
  <2> QED BY <2>1, <2>2, <2>3 DEF u
<1>5. From(s \o t, qs)
  <2> SUFFICES ASSUME NEW i \in 1 .. Len(s \o t)
               PROVE  \E j \in 1 .. Len(qs) : (s \o t)[i] = qs[j]
    BY DEF From
  <2>1. i \in 1 .. Len(qs) /\ i + 1 \in 1 .. Len(qs)
    BY <1>1, <1>4
  <2> QED BY <1>4, <2>1
<1> QED BY <1>1, <1>3, <1>4, <1>5

\* What holds of all queries holds when some are gone.
LEMMA FewerKeep ==
  ASSUME NEW qs \in Seq(Query), NEW r \in Seq(Query), Len(r) <= Len(qs), From(r, qs),
         NEW w, NEW s, NEW next, NEW answers
  PROVE  /\ AllInTime(qs, w, s) => AllInTime(r, w, s)
         /\ AllInTurn(qs, next) => AllInTurn(r, next)
         /\ IdsTell(qs, answers) => IdsTell(r, answers)
<1>0. Len(r) \in Nat /\ Len(qs) \in Nat
  BY LenProperties
<1>1. ASSUME AllInTime(qs, w, s) PROVE AllInTime(r, w, s)
  BY <1>1, Zenon DEF AllInTime, From
<1>2. ASSUME AllInTurn(qs, next), NEW i \in 1 .. Len(r), r[i].alone
      PROVE  InTurn(r[i], next, Len(r))
  <2>1. PICK j \in 1 .. Len(qs) : r[i] = qs[j]
    BY DEF From
  <2>2. Len(qs) = 1 /\ r[i].asked = Recent(r[i].retries, next)
    BY <1>2, <2>1, Zenon DEF AllInTurn, InTurn
  <2>3. Len(r) = 1
    BY <1>0, <2>2
  <2> QED BY <2>2, <2>3, Zenon DEF InTurn
<1>3. ASSUME IdsTell(qs, answers) PROVE IdsTell(r, answers)
  <2>1. ASSUME NEW i \in 1 .. Len(r), NEW j \in 1 .. Len(r), r[i].id = r[j].id
        PROVE  r[i].name = r[j].name
    <3>1. PICK k \in 1 .. Len(qs) : r[i] = qs[k]
      BY DEF From
    <3>2. PICK m \in 1 .. Len(qs) : r[j] = qs[m]
      BY DEF From
    <3>3. qs[k].id = qs[m].id
      BY <2>1, <3>1, <3>2
    <3>4. qs[k].name = qs[m].name
      BY <1>3, <3>3, Zenon DEF IdsTell
    <3> QED BY <3>1, <3>2, <3>4
  <2>2. ASSUME NEW x \in answers, NEW i \in 1 .. Len(r), r[i].id = x.id PROVE Tells(r[i], x)
    <3>1. PICK k \in 1 .. Len(qs) : r[i] = qs[k]
      BY DEF From
    <3>2. qs[k].id = x.id
      BY <2>2, <3>1
    <3>3. Tells(qs[k], x)
      BY <1>3, <3>2, Zenon DEF IdsTell
    <3> QED BY <3>1, <3>3
  <2> QED BY <2>1, <2>2, Zenon DEF IdsTell
<1> QED BY <1>1, <1>2, <1>3, Zenon DEF AllInTurn, InTurn

\* The servers take turns: the next one was asked longest ago.
LEMMA NextIsLast ==
  ASSUME NEW next \in Server, NEW k \in Nat
  PROVE  /\ NextNs(next) \in Server
         /\ Recent(k, next) \cup {next} = Recent(k + 1, NextNs(next))
<1>0. NsCount \in Nat \ {0}
  BY ResolverAssumption
<1>1. NextNs(next) = IF next + 1 = NsCount THEN 0 ELSE next + 1
  <2>1. CASE next + 1 = NsCount
    BY <1>0, <2>1 DEF NextNs, Server
  <2>2. CASE next + 1 # NsCount
    BY <1>0, <2>2 DEF NextNs, Server
  <2> QED BY <2>1, <2>2
<1>2. ASSUME NEW n \in Server
      PROVE  Back(n, NextNs(next)) = IF n = next THEN 1 ELSE Back(n, next) + 1
  BY <1>0, <1>1 DEF Server, Back
<1>3. \A n \in Server : Back(n, next) \in Nat
  BY <1>0 DEF Server, Back
<1>4. NextNs(next) \in Server
  BY <1>0, <1>1 DEF Server
<1>5. ASSUME NEW n \in Server
      PROVE  (n = next \/ Back(n, next) <= k) <=> Back(n, NextNs(next)) <= k + 1
  <2>1. CASE n = next
    BY <1>2, <2>1
  <2>2. CASE n # next
    BY <1>2, <1>3, <2>2
  <2> QED BY <2>1, <2>2
<1> QED BY <1>4, <1>5 DEF Recent

\* Those asked by the last k datagrams are as many as there can be.
LEMMA RecentAre ==
  ASSUME NEW next \in Server, NEW k \in Nat
  PROVE  Cardinality(Recent(k, next)) = IF NsCount < k THEN NsCount ELSE k
<1>0. NsCount \in Nat \ {0}
  BY ResolverAssumption
<1> DEFINE N == IF NsCount < k THEN NsCount ELSE k
           key == [i \in 1 .. N |-> IF i <= next THEN next - i ELSE next - i + NsCount]
<1>1. N \in Nat /\ N <= NsCount /\ N <= k /\ (N = k \/ N = NsCount)
  BY <1>0
<1>2. next \in Nat /\ next < NsCount
  BY <1>0 DEF Server
<1> HIDE DEF N
<1>3. key \in [1 .. N -> Recent(k, next)]
  <2> SUFFICES ASSUME NEW i \in 1 .. N PROVE key[i] \in Recent(k, next)
    OBVIOUS
  <2>1. key[i] \in Server /\ Back(key[i], next) = i
    BY <1>0, <1>1, <1>2 DEF Server, Back
  <2>2. i <= k
    BY <1>1
  <2> QED BY <2>1, <2>2 DEF Recent
<1>4. \A i, j \in 1 .. N : key[i] = key[j] => i = j
  BY <1>0, <1>1, <1>2
<1>5. ASSUME NEW x \in Recent(k, next) PROVE \E i \in 1 .. N : key[i] = x
  <2> DEFINE i == Back(x, next)
  <2>1. x \in Nat /\ x < NsCount /\ i <= k
    BY <1>0 DEF Recent, Server
  <2>2. i \in 1 .. N /\ key[i] = x
    BY <1>0, <1>1, <1>2, <2>1 DEF Back
  <2> QED BY <2>2
<1> HIDE DEF key
<1>6. Cardinality(Recent(k, next)) = N
  BY <1>1, <1>3, <1>4, <1>5, CountIs
<1> QED BY <1>6 DEF N

\* A query that is alone is the only one, at every step.
LEMMA AloneIs ==
  ASSUME NEW qs, NEW next, AllInTurn(qs, next), NEW i \in 1 .. Len(qs), qs[i].alone
  PROVE  Len(qs) = 1 /\ qs[i].asked = Recent(qs[i].retries, next)
BY DEF AllInTurn, InTurn

\* A new query, with POLLOUT wanted.
LEMMA NewInTime ==
  ASSUME NEW q \in Query, ~q.sent, q.retries = 0, q.life = 0, NEW s \in 0 .. Cap, LifeBound >= 27
  PROVE  InTime(q, TRUE, s)
BY ResolverAssumption DEF InTime, ToLive, Lag, Due, Tries, Cap

\* Wanting POLLOUT brings no query's end nearer.
LEMMA WantedInTime ==
  ASSUME NEW q \in Query, NEW w \in BOOLEAN, NEW s \in 0 .. Cap, InTime(q, w, s)
  PROVE  InTime(q, TRUE, s)
BY ResolverAssumption DEF InTime, ToLive, Lag, Due, Query, Tries, Cap

\* Nor does a run of dns_duty, when its four seconds are over.
LEMMA DutyInTime ==
  ASSUME NEW q \in Query, NEW w \in BOOLEAN, InTime(q, w, Cap)
  PROVE  InTime(q, TRUE, 0)
BY ResolverAssumption DEF InTime, ToLive, Lag, Due, Query, Tries, Cap

\* What is not due may wait without POLLOUT.
LEMMA RestsInTime ==
  ASSUME NEW q \in Query, NEW s \in 0 .. Cap, InTime(q, TRUE, s), ~Due(q)
  PROVE  InTime(q, FALSE, s)
BY ResolverAssumption DEF InTime, ToLive, Lag, Due, Query, Tries, Cap

\* A query that is sent when it is due has the time of one try less.
LEMMA SentIs ==
  ASSUME TypedQueries, NEW q \in Query, Sendable(q)
  PROVE  /\ Sent(q) \in Query
         /\ InTime(q, TRUE, sinceduty) => InTime(Sent(q), TRUE, sinceduty)
         /\ Sent(q).id = q.id /\ Sent(q).name = q.name /\ Sent(q).inherited = q.inherited /\ Sent(q).alone = q.alone
         /\ Sent(q).retries = q.retries + 1 /\ Sent(q).asked = q.asked \cup {nsnext}
<1> DEFINE e == Sent(q)
<1>1. q.retries \in 0 .. 5 /\ Due(q)
  BY DEF Sendable, Spent, Query, Tries
<1>2. nsnext \in Server /\ sinceduty \in 0 .. Cap
  BY DEF TypedQueries
<1>3. /\ e \in Query /\ e.id = q.id /\ e.name = q.name /\ e.inherited = q.inherited /\ e.alone = q.alone
      /\ e.retries = q.retries + 1 /\ e.asked = q.asked \cup {nsnext}
      /\ e.sent /\ e.age = 0 /\ e.life = q.life
  <2> DEFINE k == q.retries + 1
             A == q.asked \cup {nsnext}
  <2>1. k \in 0 .. Tries /\ A \in SUBSET Server
    BY <1>1, <1>2 DEF Tries, Query
  <2>2. e = [q EXCEPT !.sent = TRUE, !.age = 0, !.retries = k, !.asked = A]
    BY DEF Sent
  <2> HIDE DEF e, k, A
  <2>3. /\ e \in Query /\ e.id = q.id /\ e.name = q.name /\ e.inherited = q.inherited /\ e.alone = q.alone
        /\ e.retries = k /\ e.asked = A /\ e.sent /\ e.age = 0 /\ e.life = q.life
    <3>1. PICK a \in 0 .. Cap : a = 0
      BY DEF Cap
    <3>2. e = [q EXCEPT !.sent = TRUE, !.age = a, !.retries = k, !.asked = A]
      BY <2>2, <3>1
    <3>3. /\ e \in Query /\ e.id = q.id /\ e.name = q.name /\ e.inherited = q.inherited /\ e.alone = q.alone
          /\ e.retries = k /\ e.asked = A /\ e.sent /\ e.age = a /\ e.life = q.life
      BY <2>1, <3>2 DEF Query
    <3> QED BY <3>1, <3>3, Zenon
  <2> QED BY <2>3 DEF k, A
<1> HIDE DEF e
<1>4. InTime(q, TRUE, sinceduty) => InTime(e, TRUE, sinceduty)
  BY <1>1, <1>2, <1>3, ResolverAssumption DEF InTime, ToLive, Lag, Due, Query, Tries, Cap
<1> QED BY <1>3, <1>4 DEF e

Aged(q) == [q EXCEPT !.age = IF @ < Cap THEN @ + 1 ELSE @,
                     !.life = IF @ <= LifeBound THEN @ + 1 ELSE @]

\* A second of life is a second less to live, while POLLOUT is not wanted.
LEMMA AgedIs ==
  ASSUME NEW q \in Query, NEW s \in 0 .. Cap - 1
  PROVE  /\ Aged(q) \in Query /\ (InTime(q, FALSE, s) => InTime(Aged(q), FALSE, s + 1))
         /\ Aged(q).id = q.id /\ Aged(q).name = q.name /\ Aged(q).inherited = q.inherited /\ Aged(q).alone = q.alone
         /\ Aged(q).retries = q.retries /\ Aged(q).asked = q.asked
<1> DEFINE e == Aged(q)
<1>1. /\ e \in Query /\ e.id = q.id /\ e.name = q.name /\ e.inherited = q.inherited /\ e.alone = q.alone
      /\ e.retries = q.retries /\ e.asked = q.asked /\ e.sent = q.sent
      /\ e.age = (IF q.age < Cap THEN q.age + 1 ELSE q.age)
      /\ e.life \in q.life .. q.life + 1
  <2> DEFINE a == IF q.age < Cap THEN q.age + 1 ELSE q.age
             k == IF q.life <= LifeBound THEN q.life + 1 ELSE q.life
  <2>1. a \in 0 .. Cap /\ k \in Nat /\ k \in q.life .. q.life + 1
    BY ResolverAssumption DEF Cap, Query
  <2>2. e = [q EXCEPT !.age = a, !.life = k]
    BY DEF Aged
  <2> HIDE DEF e, a, k
  <2>3. /\ e \in Query /\ e.id = q.id /\ e.name = q.name /\ e.inherited = q.inherited /\ e.alone = q.alone
        /\ e.retries = q.retries /\ e.asked = q.asked /\ e.sent = q.sent
        /\ e.age = a /\ e.life = k
    BY <2>1, <2>2 DEF Query
  <2> QED BY <2>1, <2>3 DEF a
<1> HIDE DEF e
<1>2. InTime(q, FALSE, s) => InTime(e, FALSE, s + 1)
  BY <1>1, ResolverAssumption DEF InTime, ToLive, Lag, Due, Query, Tries, Cap
<1> QED BY <1>1, <1>2 DEF e

\* No query has outlived its time.
LEMMA StillAlive ==
  ASSUME NEW q \in Query, NEW w \in BOOLEAN, NEW s \in 0 .. Cap, InTime(q, w, s)
  PROVE  q.life <= LifeBound
BY ResolverAssumption DEF InTime, ToLive, Lag, Due, Query, Tries, Cap

\* Queries that leave the list, and answers that are lost, harm none of the others.
LEMMA FewerLeft ==
  ASSUME Inv, queries' \in Seq(Query), Len(queries') <= Len(queries), From(queries', queries),
         flight' \in SUBSET flight, UNCHANGED <<want, nsnext, sinceduty>>
  PROVE  Inv'
<1> DEFINE r == queries'
<1>1. r \in Seq(Query) /\ Len(r) <= Len(queries) /\ From(r, queries)
  OBVIOUS
<1> HIDE DEF r
<1>2. /\ LifeBound >= 27 => AllInTime(r, want, sinceduty)
      /\ AllInTurn(r, nsnext) /\ IdsTell(r, flight)
  <2>1. queries \in Seq(Query)
    BY DEF Inv, TypedQueries
  <2> QED BY <1>1, <2>1, FewerKeep DEF Inv
<1>3. IdsTell(r, flight')
  BY <1>2 DEF IdsTell
<1>4. TypedQueries'
  BY <1>1 DEF Inv, TypedQueries, r
<1> QED BY <1>1, <1>2, <1>3, <1>4 DEF Inv, r

\* The first of some positions.
LEMMA FirstIs ==
  ASSUME NEW N, NEW I, I \subseteq 1 .. N, NEW n, n = IF I # {} THEN Min(I) ELSE 0
  PROVE  (n = 0 /\ I = {}) \/ n \in I
<1>1. I \subseteq Nat
  OBVIOUS
<1> QED BY <1>1, MinIs, Zenon

\* dns_findid finds the first query with an answer's id, if there is one.
LEMMA TakenForIs ==
  ASSUME NEW a
  PROVE  \/ TakenFor(a) = 0
         \/ TakenFor(a) \in 1 .. Len(queries) /\ queries[TakenFor(a)].id = a.id
<1> DEFINE I == {i \in 1 .. Len(queries) : queries[i].id = a.id}
<1>1. TakenFor(a) = IF I # {} THEN Min(I) ELSE 0
  BY DEF TakenFor, SelectInSeq
<1>2. TakenFor(a) = 0 \/ TakenFor(a) \in I
  BY <1>1, FirstIs
<1> QED BY <1>2

\* dns_canread: the query that is answered leaves the list.
LEMMA CanReadKeeps ==
  ASSUME Inv, NEW a, CanRead(a)
  PROVE  Inv'
<1> DEFINE n == TakenFor(a)
<1>1. /\ flight' = flight \ {a} /\ UNCHANGED <<want, nsnext, sinceduty>>
      /\ queries' = IF n = 0 THEN queries ELSE RemoveAt(queries, n)
  BY DEF CanRead
<1>2. queries \in Seq(Query) /\ Len(queries) \in Nat
  BY LenProperties DEF Inv, TypedQueries
<1>3. n = 0 \/ n \in 1 .. Len(queries)
  BY TakenForIs
<1> HIDE DEF n
<1>4. queries' \in Seq(Query) /\ Len(queries') <= Len(queries) /\ From(queries', queries)
  <2>1. CASE n = 0
    BY <1>1, <1>2, <2>1 DEF From
  <2>2. CASE n # 0
    BY <1>1, <1>2, <1>3, <2>2, RemovedIs
  <2> QED BY <2>1, <2>2
<1> QED BY <1>1, <1>4, FewerLeft

\* dns_cancel
LEMMA CancelKeeps ==
  ASSUME Inv, NEW who, Cancel(who)
  PROVE  Inv'
<1> DEFINE I == {i \in 1 .. Len(queries) : queries[i].who = who}
           n == SelectInSeq(queries, LAMBDA q : q.who = who)
<1>1. n = IF I # {} THEN Min(I) ELSE 0
  BY DEF SelectInSeq
<1>2. /\ n # 0 /\ queries' = RemoveAt(queries, n)
      /\ UNCHANGED <<flight, want, nsnext, sinceduty>>
  BY DEF Cancel
<1> HIDE DEF n
<1>3. n \in I
  BY <1>1, <1>2, FirstIs
<1>4. queries \in Seq(Query)
  BY DEF Inv, TypedQueries
<1>5. queries' \in Seq(Query) /\ Len(queries') <= Len(queries) /\ From(queries', queries)
  BY <1>2, <1>3, <1>4, RemovedIs
<1> QED BY <1>2, <1>5, FewerLeft

\* A datagram that is lost, and a step of something else.
LEMMA LoseKeeps ==
  ASSUME Inv, flight' \in SUBSET flight, UNCHANGED <<queries, want, nsnext, sinceduty>>
  PROVE  Inv'
<1>1. /\ queries' \in Seq(Query) /\ Len(queries') <= Len(queries) /\ From(queries', queries)
  BY LenProperties DEF From, Inv, TypedQueries
<1> QED BY <1>1, FewerLeft

\* A query as dns_query makes it.
LEMMA NewIs ==
  ASSUME NEW who \in Requester, NEW name \in Name, NEW id \in Id, NEW b \in BOOLEAN,
         NEW B \in SUBSET Name, NEW q,
         q = [id |-> id, who |-> who, name |-> name, sent |-> FALSE, retries |-> 0,
              age |-> 0, life |-> 0, asked |-> {}, alone |-> b, inherited |-> B]
  PROVE  /\ q \in Query /\ q.id = id /\ q.name = name /\ q.inherited = B /\ ~q.sent /\ q.retries = 0
         /\ q.life = 0 /\ q.asked = {} /\ (q.alone <=> b)
<1>1. /\ q.id = id /\ q.name = name /\ q.inherited = B /\ q.sent = FALSE /\ q.retries = 0 /\ q.age = 0
      /\ q.life = 0 /\ q.asked = {} /\ q.alone = b
  OBVIOUS
<1>2. 0 \in 0 .. Tries /\ 0 \in 0 .. Cap /\ 0 \in Nat /\ {} \in SUBSET Server
  BY DEF Tries, Cap
<1>3. q \in Query
  <2>1. PICK k \in 0 .. Tries : k = 0
    BY <1>2
  <2>2. PICK a \in 0 .. Cap : a = 0
    BY <1>2
  <2>3. PICK l \in Nat : l = 0
    BY <1>2
  <2>4. PICK A \in SUBSET Server : A = {}
    BY <1>2
  <2>5. q = [id |-> id, who |-> who, name |-> name, sent |-> FALSE, retries |-> k,
             age |-> a, life |-> l, asked |-> A, alone |-> b, inherited |-> B]
    BY <2>1, <2>2, <2>3, <2>4
  <2> QED BY ONLY <2>5, who \in Requester, name \in Name, B \in SUBSET Name, id \in Id, b \in BOOLEAN, k \in 0 .. Tries,
                  a \in 0 .. Cap, l \in Nat, A \in SUBSET Server DEF Query
<1> QED BY <1>1, <1>3

\* dns_query: an id that no query has, and the answers under way that have it.
LEMMA AskKeeps ==
  ASSUME Inv, NEW who \in Requester, NEW name \in Name, NEW id \in Id, Ask(who, name, id)
  PROVE  Inv'
<1> DEFINE met == Answered(id) \ {name}
           new == [id |-> id, who |-> who, name |-> name, sent |-> FALSE, retries |-> 0,
                   age |-> 0, life |-> 0, asked |-> {}, alone |-> queries = <<>>,
                   inherited |-> met]
           old == Accompanied(queries)
           N == Len(queries)
           r == <<new>> \o old
<1>1. /\ FreeId(id) /\ queries' = r /\ want' = TRUE
      /\ UNCHANGED <<flight, nsnext, sinceduty>>
  BY DEF Ask
<1>2. queries \in Seq(Query) /\ N \in Nat /\ nsnext \in Server /\ sinceduty \in 0 .. Cap
  BY LenProperties DEF Inv, TypedQueries
<1>2a. met \in SUBSET Name /\ \A x \in flight : x.id = id => x.name = name \/ x.name \in met
  BY DEF Answered, Inv, TypedQueries
<1> HIDE DEF met
<1>3. /\ new \in Query /\ new.id = id /\ new.name = name /\ new.inherited = met /\ ~new.sent /\ new.retries = 0
      /\ new.life = 0 /\ new.asked = {} /\ (new.alone <=> queries = <<>>)
  <2>1. PICK b \in BOOLEAN : b <=> queries = <<>>
    OBVIOUS
  <2>2. new = [id |-> id, who |-> who, name |-> name, sent |-> FALSE, retries |-> 0,
               age |-> 0, life |-> 0, asked |-> {}, alone |-> b, inherited |-> met]
    BY <2>1
  <2> HIDE DEF new
  <2> QED BY <1>2a, <2>1, <2>2, NewIs
<1>4. /\ old \in Seq(Query) /\ Len(old) = N
      /\ \A i \in 1 .. N : /\ queries[i] \in Query /\ old[i] \in Query
                          /\ ~old[i].alone /\ old[i].id = queries[i].id
                          /\ old[i].name = queries[i].name
                          /\ old[i].inherited = queries[i].inherited
                          /\ \A w, s : InTime(old[i], w, s) <=> InTime(queries[i], w, s)
  <2>1. ASSUME NEW i \in 1 .. N
        PROVE  /\ queries[i] \in Query /\ old[i] = [queries[i] EXCEPT !.alone = FALSE]
    BY <1>2, ElementOfSeq DEF Accompanied
  <2>2. old = [i \in 1 .. N |-> old[i]]
    BY DEF Accompanied
  <2> HIDE DEF old
  <2>3. ASSUME NEW i \in 1 .. N
        PROVE  /\ old[i] \in Query /\ ~old[i].alone /\ old[i].id = queries[i].id
               /\ old[i].name = queries[i].name /\ old[i].inherited = queries[i].inherited
               /\ old[i].sent = queries[i].sent
               /\ old[i].age = queries[i].age /\ old[i].life = queries[i].life
               /\ old[i].retries = queries[i].retries
    <3> DEFINE q == queries[i]
               e == old[i]
    <3>1. q \in Query /\ e = [q EXCEPT !.alone = FALSE]
      BY <2>1
    <3> HIDE DEF q, e
    <3>2. /\ e \in Query /\ ~e.alone /\ e.id = q.id /\ e.name = q.name /\ e.inherited = q.inherited /\ e.sent = q.sent
          /\ e.age = q.age /\ e.life = q.life /\ e.retries = q.retries
      BY <3>1 DEF Query
    <3> QED BY <3>2 DEF q, e
  <2>4. old \in Seq(Query) /\ Len(old) = N
    <3>1. old \in [1 .. N -> Query]
      BY <2>2, <2>3
    <3> QED BY <1>2, <3>1
  <2>5. ASSUME NEW i \in 1 .. N, NEW w, NEW s
        PROVE  InTime(old[i], w, s) <=> InTime(queries[i], w, s)
    BY <2>3, Zenon DEF InTime, ToLive, Lag, Due
  <2> QED BY <2>1, <2>3, <2>4, <2>5
<1> HIDE DEF new, old, N
<1>5. /\ r \in Seq(Query) /\ Len(r) = N + 1 /\ r[1] = new
      /\ \A i \in 1 .. N + 1 : i = 1 \/ (i - 1 \in 1 .. N /\ r[i] = old[i - 1])
  BY <1>2, <1>3, <1>4
<1> HIDE DEF r
<1>6. TypedQueries'
  BY <1>1, <1>5 DEF Inv, TypedQueries
<1>7. ASSUME LifeBound >= 27, NEW i \in 1 .. N + 1 PROVE InTime(r[i], TRUE, sinceduty)
  <2>1. CASE i = 1
    BY <1>2, <1>3, <1>5, <1>7, <2>1, NewInTime
  <2>2. CASE i # 1
    <3> DEFINE j == i - 1
    <3>1. j \in 1 .. N /\ r[i] = old[j]
      BY <1>5, <2>2
    <3> HIDE DEF j
    <3>2. InTime(queries[j], want, sinceduty) /\ want \in BOOLEAN /\ queries[j] \in Query
      BY <1>4, <1>7, <3>1 DEF Inv, AllInTime, TypedQueries, N
    <3>3. InTime(queries[j], TRUE, sinceduty)
      BY <1>2, <3>2, WantedInTime
    <3> QED BY <1>4, <3>1, <3>3
  <2> QED BY <2>1, <2>2
<1>8. ASSUME NEW i \in 1 .. N + 1 PROVE InTurn(r[i], nsnext, N + 1)
  <2>1. CASE i = 1 /\ queries = <<>>
    <3>1. N = 0
      BY <2>1 DEF N
    <3>2. Recent(0, nsnext) = {}
      BY <1>2, ResolverAssumption DEF Recent, Back, Server
    <3>3. r[i].asked = Recent(r[i].retries, nsnext)
      BY <1>3, <1>5, <2>1, <3>2, Zenon
    <3>4. N + 1 = 1
      BY <3>1
    <3> QED BY <3>3, <3>4, Zenon DEF InTurn
  <2>2. CASE i = 1 /\ queries # <<>>
    BY <1>3, <1>5, <2>2 DEF InTurn
  <2>3. CASE i # 1
    BY <1>4, <1>5, <2>3 DEF InTurn
  <2> QED BY <2>1, <2>2, <2>3
<1>9. IdsTell(r, flight)
  <2>1. \A i \in 1 .. N : old[i].id # id
    BY <1>1, <1>4 DEF FreeId, Ids, N
  <2>2. /\ \A i, j \in 1 .. N : old[i].id = old[j].id => old[i].name = old[j].name
        /\ \A x \in flight : \A i \in 1 .. N : old[i].id = x.id => Tells(old[i], x)
    BY <1>4 DEF Inv, IdsTell, Tells, N
  <2>3. ASSUME NEW i \in 1 .. Len(r) PROVE \/ r[i].id = id /\ r[i] = new
                                          \/ \E k \in 1 .. N : r[i] = old[k]
    BY <1>3, <1>5
  <2>4. ASSUME NEW i \in 1 .. Len(r), NEW j \in 1 .. Len(r), r[i].id = r[j].id
        PROVE  r[i].name = r[j].name
    <3>1. CASE r[i].id = id
      <4>1. r[i] = new /\ r[j] = new
        BY <2>1, <2>3, <2>4, <3>1, Zenon
      <4> QED BY <4>1
    <3>2. CASE r[i].id # id
      <4>1. PICK k \in 1 .. N : r[i] = old[k]
        BY <2>3, <3>2
      <4>2. PICK m \in 1 .. N : r[j] = old[m]
        BY <2>3, <2>4, <3>2
      <4>3. old[k].id = old[m].id
        BY <2>4, <4>1, <4>2
      <4>4. old[k].name = old[m].name
        BY <2>2, <4>3
      <4> QED BY <4>1, <4>2, <4>4
    <3> QED BY <3>1, <3>2
  <2>5. ASSUME NEW x \in flight, NEW i \in 1 .. Len(r), r[i].id = x.id PROVE Tells(r[i], x)
    <3>1. CASE r[i] = new
      BY <1>2a, <1>3, <2>5, <3>1 DEF Tells
    <3>2. CASE r[i] # new
      <4>1. PICK k \in 1 .. N : r[i] = old[k]
        BY <2>3, <3>2
      <4>2. old[k].id = x.id
        BY <2>5, <4>1
      <4>3. Tells(old[k], x)
        BY <2>2, <4>2
      <4> QED BY <4>1, <4>3
    <3> QED BY <3>1, <3>2
  <2> QED BY <2>4, <2>5, Zenon DEF IdsTell
<1>10. /\ LifeBound >= 27 => AllInTime(r, TRUE, sinceduty)
       /\ AllInTurn(r, nsnext)
  BY <1>5, <1>7, <1>8 DEF AllInTime, AllInTurn
<1> QED BY <1>1, <1>6, <1>9, <1>10 DEF Inv

\* dns_duty
LEMMA DutyKeeps ==
  ASSUME Inv, Duty
  PROVE  Inv'
<1>1. /\ sinceduty > 3 /\ want' = (queries # <<>>) /\ sinceduty' = 0
      /\ UNCHANGED <<queries, flight, nsnext>>
  BY DEF Duty
<1>2. queries \in Seq(Query) /\ sinceduty = Cap /\ want \in BOOLEAN
  BY <1>1 DEF Inv, TypedQueries, Cap
<1>3. TypedQueries'
  BY <1>1 DEF Inv, TypedQueries, Cap
<1>4. ASSUME LifeBound >= 27, NEW i \in 1 .. Len(queries)
      PROVE  InTime(queries[i], want', sinceduty')
  <2>1. want' = TRUE
    <3>1. queries # <<>>
      BY <1>2, <1>4
    <3> QED BY <1>1, <3>1, Zenon
  <2>2. InTime(queries[i], want, Cap) /\ queries[i] \in Query
    BY <1>2, <1>4, ElementOfSeq DEF Inv, AllInTime
  <2>3. InTime(queries[i], TRUE, 0)
    BY <1>2, <2>2, DutyInTime
  <2> QED BY <1>1, <2>1, <2>3
<1>5. LifeBound >= 27 => AllInTime(queries, want', sinceduty')
  BY <1>4 DEF AllInTime
<1> QED BY <1>1, <1>3, <1>5, Zenon DEF Inv

\* A name server answers a query that is pending.
LEMMA AnswerKeeps ==
  ASSUME Inv, NEW i \in 1 .. Len(queries), Answer(i)
  PROVE  Inv'
<1> DEFINE x == [id |-> queries[i].id, name |-> queries[i].name]
<1>1. flight' = flight \cup {x} /\ UNCHANGED <<queries, want, nsnext, sinceduty>>
  BY DEF Answer
<1>2. queries[i] \in Query
  BY ElementOfSeq DEF Inv, TypedQueries
<1>3. x \in [id : Id, name : Name] /\ x.id = queries[i].id /\ x.name = queries[i].name
  BY <1>2 DEF Query
<1> HIDE DEF x
<1>4. IdsTell(queries, flight \cup {x})
  BY <1>3 DEF Inv, IdsTell, Tells
<1>5. TypedQueries'
  BY <1>1, <1>3 DEF Inv, TypedQueries
<1> QED BY <1>1, <1>4, <1>5 DEF Inv

\* A second.
LEMMA TickKeeps ==
  ASSUME Inv, Tick
  PROVE  Inv'
<1> DEFINE N == Len(queries)
           r == [i \in 1 .. N |-> Aged(queries[i])]
           s == sinceduty
<1>1. /\ ~want /\ s < Cap /\ sinceduty' = s + 1
      /\ queries' = r /\ UNCHANGED <<flight, want, nsnext>>
  BY DEF Tick, Aged
<1>2. /\ queries \in Seq(Query) /\ N \in Nat /\ s \in 0 .. Cap - 1 /\ want = FALSE
      /\ s + 1 \in 0 .. Cap
  BY <1>1, LenProperties DEF Inv, TypedQueries, Cap
<1>3. ASSUME NEW i \in 1 .. N
      PROVE  /\ r[i] \in Query /\ (InTime(queries[i], FALSE, s) => InTime(r[i], FALSE, s + 1))
             /\ r[i].id = queries[i].id /\ r[i].name = queries[i].name
             /\ r[i].inherited = queries[i].inherited
             /\ r[i].alone = queries[i].alone /\ r[i].retries = queries[i].retries
             /\ r[i].asked = queries[i].asked
  <2> DEFINE q == queries[i]
  <2>1. q \in Query /\ r[i] = Aged(q)
    BY <1>2, ElementOfSeq
  <2> HIDE DEF q, r
  <2>2. /\ r[i] \in Query /\ (InTime(q, FALSE, s) => InTime(r[i], FALSE, s + 1))
        /\ r[i].id = q.id /\ r[i].name = q.name /\ r[i].inherited = q.inherited
        /\ r[i].alone = q.alone
        /\ r[i].retries = q.retries /\ r[i].asked = q.asked
    BY <1>2, <2>1, AgedIs
  <2> QED BY <2>2 DEF q
<1>4. r \in Seq(Query) /\ Len(r) = N
  <2>1. r \in [1 .. N -> Query]
    BY <1>3
  <2> QED BY <1>2, <2>1
<1> HIDE DEF r, s
<1>5. LifeBound >= 27 => AllInTime(r, FALSE, s + 1)
  BY <1>2, <1>3, <1>4 DEF Inv, AllInTime, s
<1>6. AllInTurn(r, nsnext)
  <2> SUFFICES ASSUME NEW i \in 1 .. N, r[i].alone PROVE N = 1 /\ r[i].asked = Recent(r[i].retries, nsnext)
    BY <1>4 DEF AllInTurn, InTurn
  <2>1. queries[i].alone
    BY <1>3
  <2>2. N = 1 /\ queries[i].asked = Recent(queries[i].retries, nsnext)
    BY <2>1, AloneIs DEF Inv
  <2> QED BY <1>3, <2>2
<1>7. IdsTell(r, flight)
  <2>1. /\ \A i, j \in 1 .. N : queries[i].id = queries[j].id => queries[i].name = queries[j].name
        /\ \A x \in flight : \A i \in 1 .. N : queries[i].id = x.id => Tells(queries[i], x)
    BY DEF Inv, IdsTell
  <2>2. \A i \in 1 .. N : /\ r[i].id = queries[i].id /\ r[i].name = queries[i].name
                         /\ r[i].inherited = queries[i].inherited
    BY <1>3
  <2>3. /\ \A i, j \in 1 .. N : r[i].id = r[j].id => r[i].name = r[j].name
        /\ \A x \in flight : \A i \in 1 .. N : r[i].id = x.id => Tells(r[i], x)
    BY <2>1, <2>2 DEF Tells
  <2> QED BY <1>4, <2>3, Zenon DEF IdsTell
<1>8. TypedQueries'
  BY <1>1, <1>2, <1>4 DEF Inv, TypedQueries
<1> QED BY <1>1, <1>2, <1>5, <1>6, <1>7, <1>8 DEF Inv

\* dns_canwrite: one datagram for the first query that can be sent, or none.
LEMMA CanWriteKeeps ==
  ASSUME Inv, CanWrite
  PROVE  Inv'
<1> DEFINE N == Len(queries)
           I == {i \in 1 .. N : Sendable(queries[i])}
           n == SelectInSeq(queries, Sendable)
<1>1. n = IF I # {} THEN Min(I) ELSE 0
  BY DEF SelectInSeq
<1>2. /\ want /\ UNCHANGED <<flight, sinceduty>>
      /\ n = 0 => queries' = Kept(queries) /\ want' = FALSE /\ UNCHANGED nsnext
      /\ n # 0 => /\ queries' = (Kept(SubSeq(queries, 1, n - 1)) \o <<Sent(queries[n])>>)
                                \o SubSeq(queries, n + 1, N)
                  /\ nsnext' = NextNs(nsnext)
                  /\ UNCHANGED want
  BY DEF CanWrite
<1> HIDE DEF n
<1>3. /\ queries \in Seq(Query) /\ N \in Nat /\ want = TRUE
      /\ nsnext \in Server /\ sinceduty \in 0 .. Cap
      /\ \A i \in 1 .. N : queries[i] \in Query
  BY <1>2, LenProperties, ElementOfSeq DEF Inv, TypedQueries
<1>4. CASE n = 0
  <2> DEFINE r == Kept(queries)
  <2>1. /\ r \in Seq(Query) /\ Len(r) <= N /\ From(r, queries)
        /\ \A i \in 1 .. Len(r) : ~Due(r[i])
    BY <1>3, KeptIs
  <2>2. queries' = r /\ want' = FALSE /\ nsnext' = nsnext
    BY <1>2, <1>4
  <2> HIDE DEF r
  <2>3. /\ LifeBound >= 27 => AllInTime(r, TRUE, sinceduty)
        /\ AllInTurn(r, nsnext) /\ IdsTell(r, flight)
    BY <1>3, <2>1, FewerKeep DEF Inv
  <2>4. ASSUME LifeBound >= 27, NEW i \in 1 .. Len(r) PROVE InTime(r[i], FALSE, sinceduty)
    <3>1. r[i] \in Query /\ InTime(r[i], TRUE, sinceduty) /\ ~Due(r[i])
      BY <2>1, <2>3, <2>4, ElementOfSeq DEF AllInTime
    <3> QED BY <1>3, <3>1, RestsInTime
  <2>5. TypedQueries'
    BY <1>2, <2>1, <2>2 DEF Inv, TypedQueries
  <2>6. LifeBound >= 27 => AllInTime(r, FALSE, sinceduty)
    BY <2>4 DEF AllInTime
  <2> QED BY <1>2, <2>2, <2>3, <2>5, <2>6 DEF Inv
<1>5. CASE n # 0
  <2> DEFINE q == queries[n]
             e == Sent(q)
             head == SubSeq(queries, 1, n - 1)
             k == Kept(head)
             t == SubSeq(queries, n + 1, N)
             r == (k \o <<e>>) \o t
             K == Len(k)
  <2>1. n \in 1 .. N /\ Sendable(q)
    <3>1. n \in I
      BY <1>1, <1>5, FirstIs
    <3> QED BY <3>1
  <2>2. /\ q \in Query /\ e \in Query
        /\ InTime(q, TRUE, sinceduty) => InTime(e, TRUE, sinceduty)
        /\ e.id = q.id /\ e.name = q.name /\ e.inherited = q.inherited /\ e.alone = q.alone
        /\ e.retries = q.retries + 1 /\ e.asked = q.asked \cup {nsnext}
    BY <1>3, <2>1, SentIs DEF Inv
  <2>3. /\ head \in Seq(Query) /\ Len(head) = n - 1 /\ \A i \in 1 .. n - 1 : head[i] = queries[i]
        /\ t \in Seq(Query) /\ Len(t) = N - n /\ \A i \in 1 .. Len(t) : t[i] = queries[n + i]
    BY <1>3, <2>1, PartsAre
  <2>4. queries' = r /\ want' = want /\ nsnext' = NextNs(nsnext)
    BY <1>2, <1>5
  <2> HIDE DEF q, e, head, t
  <2>5. k \in Seq(Query) /\ K <= n - 1 /\ From(k, head) /\ K \in Nat
    BY <2>3, KeptIs, LenProperties
  <2> HIDE DEF k, K
  <2>6. /\ r \in Seq(Query) /\ Len(r) = K + 1 + (N - n)
        /\ \A i \in 1 .. Len(r) : \/ i \in 1 .. K /\ r[i] = k[i]
                                  \/ i = K + 1 /\ r[i] = e
                                  \/ i - (K + 1) \in 1 .. Len(t) /\ r[i] = t[i - (K + 1)]
    <3>1. r = (k \o <<e>>) \o t
      OBVIOUS
    <3> HIDE DEF r
    <3>2. /\ r \in Seq(Query) /\ Len(r) = Len(k) + 1 + Len(t)
          /\ \A i \in 1 .. Len(r) :
               \/ i \in 1 .. Len(k) /\ r[i] = k[i]
               \/ i = Len(k) + 1 /\ r[i] = e
               \/ i - (Len(k) + 1) \in 1 .. Len(t) /\ r[i] = t[i - (Len(k) + 1)]
      <4>1. k \in Seq(Query) /\ e \in Query /\ t \in Seq(Query)
        BY <2>2, <2>3, <2>5
      <4> QED BY ONLY <3>1, <4>1, BetweenIs
    <3> QED BY <2>3, <3>2, Zenon DEF K
  <2> HIDE DEF r
  <2>7. ASSUME NEW i \in 1 .. Len(r)
        PROVE  r[i] = e \/ \E j \in 1 .. N : r[i] = queries[j]
    <3>1. CASE i \in 1 .. K /\ r[i] = k[i]
      <4>1. PICK j \in 1 .. Len(head) : k[i] = head[j]
        BY <2>5, <2>6, <3>1 DEF From, K
      <4>2. j \in 1 .. N /\ k[i] = queries[j]
        BY <1>3, <2>1, <2>3, <4>1
      <4> QED BY <3>1, <4>2
    <3>2. CASE i - (K + 1) \in 1 .. Len(t) /\ r[i] = t[i - (K + 1)]
      <4>1. PICK j \in 1 .. Len(t) : j = i - (K + 1) /\ r[i] = t[j]
        BY <3>2
      <4>2. t[j] = queries[n + j] /\ Len(t) = N - n
        BY <2>3
      <4>3. n + j \in 1 .. N
        BY <1>3, <2>1, <4>2
      <4> QED BY <4>1, <4>2, <4>3
    <3> QED BY <2>6, <3>1, <3>2
  <2>8. ASSUME LifeBound >= 27, NEW i \in 1 .. Len(r) PROVE InTime(r[i], TRUE, sinceduty)
    <3>1. \A j \in 1 .. N : InTime(queries[j], TRUE, sinceduty)
      BY <1>3, <2>8 DEF Inv, AllInTime
    <3>2. InTime(e, TRUE, sinceduty)
      BY <2>1, <2>2, <3>1 DEF q
    <3> QED BY <2>7, <3>1, <3>2
  <2>9. ASSUME NEW i \in 1 .. Len(r), r[i].alone
        PROVE  Len(r) = 1 /\ r[i].asked = Recent(r[i].retries, NextNs(nsnext))
    <3>1. N = 1
      <4>1. CASE r[i] = e
        BY <2>1, <2>2, <2>9, <4>1, AloneIs DEF Inv, q
      <4>2. CASE \E j \in 1 .. N : r[i] = queries[j]
        BY <2>9, <4>2, AloneIs DEF Inv
      <4> QED BY <2>7, <4>1, <4>2
    <3>2. n = 1 /\ K = 0 /\ Len(r) = 1
      BY <1>3, <2>1, <2>5, <2>6, <3>1
    <3>3. r[i] = e
      BY <2>6, <3>1, <3>2
    <3>4. q.asked = Recent(q.retries, nsnext) /\ q.retries \in Nat
      BY <2>1, <2>2, <2>9, <3>3, AloneIs DEF Inv, q, Query
    <3>5. e.asked = Recent(e.retries, NextNs(nsnext))
      BY <1>3, <2>2, <3>4, NextIsLast
    <3> QED BY <3>2, <3>3, <3>5
  <2>10. IdsTell(r, flight)
    <3>1. ASSUME NEW i \in 1 .. Len(r)
          PROVE  \E j \in 1 .. N : /\ r[i].id = queries[j].id /\ r[i].name = queries[j].name
                                   /\ r[i].inherited = queries[j].inherited
      BY <2>1, <2>2, <2>7 DEF q
    <3>2. ASSUME NEW i \in 1 .. Len(r), NEW j \in 1 .. Len(r), r[i].id = r[j].id
          PROVE  r[i].name = r[j].name
      <4>1. PICK u \in 1 .. N : r[i].id = queries[u].id /\ r[i].name = queries[u].name
        BY <3>1
      <4>2. PICK w \in 1 .. N : r[j].id = queries[w].id /\ r[j].name = queries[w].name
        BY <3>1
      <4> QED BY <3>2, <4>1, <4>2 DEF Inv, IdsTell
    <3>3. ASSUME NEW x \in flight, NEW i \in 1 .. Len(r), r[i].id = x.id PROVE Tells(r[i], x)
      <4>1. PICK u \in 1 .. N : /\ r[i].id = queries[u].id /\ r[i].name = queries[u].name
                                /\ r[i].inherited = queries[u].inherited
        BY <3>1
      <4>2. Tells(queries[u], x)
        BY <3>3, <4>1 DEF Inv, IdsTell
      <4> QED BY <4>1, <4>2 DEF Tells
    <3> QED BY <3>2, <3>3, Zenon DEF IdsTell
  <2>11. NextNs(nsnext) \in Server
    BY <1>3, NextIsLast
  <2>12. TypedQueries'
    BY <1>2, <2>4, <2>6, <2>11 DEF Inv, TypedQueries
  <2>13. /\ LifeBound >= 27 => AllInTime(r, TRUE, sinceduty)
         /\ AllInTurn(r, NextNs(nsnext))
    BY <2>8, <2>9 DEF AllInTime, AllInTurn, InTurn
  <2> QED BY <1>2, <1>3, <2>4, <2>10, <2>12, <2>13 DEF Inv
<1> QED BY <1>4, <1>5

-----------------------------------------------------------------------------
\* Before the first query.
LEMMA InitInv == Init => Inv
<1> SUFFICES ASSUME Init PROVE Inv
  OBVIOUS
<1>1. /\ queries = <<>> /\ Len(queries) = 0 /\ flight = {} /\ want = FALSE /\ nsnext = 0
      /\ sinceduty = 0
  BY DEF Init
<1>2. 0 \in Server
  BY ResolverAssumption DEF Server
<1>3. TypedQueries
  <2>1. queries \in Seq(Query)
    BY <1>1
  <2>2. flight \in SUBSET [id : Id, name : Name]
    BY <1>1
  <2>3. want \in BOOLEAN /\ nsnext \in Server
    BY <1>1, <1>2, Zenon
  <2>4. sinceduty \in 0 .. Cap
    BY <1>1 DEF Cap
  <2> QED BY <2>1, <2>2, <2>3, <2>4, Zenon DEF TypedQueries
<1>5. AllInTime(queries, want, sinceduty) /\ AllInTurn(queries, nsnext) /\ IdsTell(queries, flight)
  BY <1>1 DEF AllInTime, AllInTurn, IdsTell
<1> QED BY <1>3, <1>5 DEF Inv

\* Every step keeps the invariant.
LEMMA NextKeeps == Inv /\ [Next]_vars => Inv'
<1> SUFFICES ASSUME Inv, [Next]_vars PROVE Inv'
  OBVIOUS
<1>1. ASSUME NEW who \in Requester, NEW name \in Name, NEW id \in Id, Ask(who, name, id) PROVE Inv'
  BY <1>1, AskKeeps
<1>2. CASE CanWrite
  BY <1>2, CanWriteKeeps
<1>3. CASE Duty
  BY <1>3, DutyKeeps
<1>4. ASSUME NEW a \in flight, CanRead(a) PROVE Inv'
  BY <1>4, CanReadKeeps
<1>5. ASSUME NEW a \in flight, Lose(a) PROVE Inv'
  BY <1>5, LoseKeeps DEF Lose
<1>6. ASSUME NEW who \in Requester, Cancel(who) PROVE Inv'
  BY <1>6, CancelKeeps
<1>7. ASSUME NEW i \in 1 .. Len(queries), Answer(i) PROVE Inv'
  BY <1>7, AnswerKeeps
<1>8. CASE Tick
  BY <1>8, TickKeeps
<1>9. CASE UNCHANGED vars
  BY <1>9, LoseKeeps DEF vars
<1> QED BY <1>1, <1>2, <1>3, <1>4, <1>5, <1>6, <1>7, <1>8, <1>9 DEF Next

\* The invariant holds in every state.
LEMMA InvHolds == Spec => []Inv
BY InitInv, NextKeeps, PTL DEF Spec

\* However late, often or seldom answers come, and whoever has cancelled or asked again since,
\* the answer that is given to a requester is about the name it asked for, or was under way to a
\* former query already when the requester's drew the same id (dns.c:118).
THEOREM ResolverRightAnswer == Spec => []RightAnswer
<1>1. ASSUME Inv, NEW a \in flight, TakenFor(a) # 0
      PROVE  Tells(queries[TakenFor(a)], a)
  <2>1. TakenFor(a) \in 1 .. Len(queries) /\ queries[TakenFor(a)].id = a.id
    BY <1>1, TakenForIs
  <2> QED BY <1>1, <2>1 DEF Inv, IdsTell
<1>2. Inv => RightAnswer
  BY <1>1 DEF RightAnswer, Tells
<1> QED BY <1>2, InvHolds, PTL

\* With any number of requesters, name servers and pending queries, none lives longer than 27
\* seconds, and one that had the resolver for itself has met a name server more with every
\* try, as long as there are any (dns.c:220-256).
THEOREM ResolverEveryNameServerAsked ==
  ASSUME LifeBound >= 27
  PROVE  Spec => []EveryNameServerAsked
<1>1. Inv => EveryNameServerAsked
  <2> SUFFICES ASSUME Inv, NEW i \in 1 .. Len(queries)
               PROVE  /\ queries[i].life <= LifeBound
                      /\ queries[i].alone /\ queries[i].retries = Tries =>
                           Cardinality(queries[i].asked) = IF NsCount < Tries THEN NsCount ELSE Tries
    BY DEF EveryNameServerAsked, LifeBounded
  <2>1. /\ queries[i] \in Query /\ want \in BOOLEAN /\ sinceduty \in 0 .. Cap /\ nsnext \in Server
        /\ InTime(queries[i], want, sinceduty)
    BY ElementOfSeq DEF Inv, TypedQueries, AllInTime
  <2>2. queries[i].life <= LifeBound
    BY <2>1, StillAlive
  <2>3. ASSUME queries[i].alone, queries[i].retries = Tries
        PROVE  Cardinality(queries[i].asked) = IF NsCount < Tries THEN NsCount ELSE Tries
    <3>1. queries[i].asked = Recent(Tries, nsnext)
      BY <2>3, AloneIs DEF Inv
    <3> QED BY <2>1, <3>1, RecentAre DEF Tries
  <2> QED BY <2>2, <2>3
<1> QED BY <1>1, InvHolds, PTL

-----------------------------------------------------------------------------
(* LineReader                                                               *)

Bytes == Seq(Nat)

\* A line as the server sends it, and the lines that it has sent after the first g.
LineOf(k, n) == Append(Line(k, n), EOL)

LinesFrom(g, ls) == [k \in 1 .. Len(ls) - g |-> LineOf(g + k, ls[g + k])]

\* What a plugin gets of a line.
Whole(k, n) == Line(k, IF n < LineMax THEN n ELSE LineMax)

\* The lines of the stream up to now have been handed over, and what waits are the others.
Handed(g, ls, waiting) ==
  /\ Len(g) <= Len(ls)
  /\ \A k \in 1 .. Len(g) : g[k] = Whole(k, ls[k])
  /\ waiting = FlattenSeq(LinesFrom(Len(g), ls))

ReaderInv ==
  /\ lens \in Seq(Nat) /\ net \in Seq(Nat) /\ recvbuf \in Seq(Nat) /\ got \in Seq(Seq(Nat))
  /\ peak \in BOOLEAN /\ overrun \in BOOLEAN
  /\ Len(recvbuf) <= Size
  /\ Len(recvbuf) + Len(net) >= Size => peak
  /\ overrun => peak
  /\ ~overrun => Handed(got, lens, recvbuf \o net)

\* A line is as many bytes of its number as it is long, and an EOL.
LEMMA LineIs ==
  ASSUME NEW k \in Nat, NEW n \in Nat
  PROVE  /\ Line(k, n) \in Seq(Nat) /\ Len(Line(k, n)) = n
         /\ LineOf(k, n) \in Seq(Nat) /\ Len(LineOf(k, n)) = n + 1
         /\ \A i \in 1 .. n : LineOf(k, n)[i] = k
         /\ LineOf(k, n)[n + 1] = 0
<1>1. Line(k, n) \in [1 .. n -> Nat] /\ \A i \in 1 .. n : Line(k, n)[i] = k
  BY DEF Line
<1> DEFINE s == Line(k, n)
<1>2. s \in Seq(Nat) /\ Len(s) = n /\ \A i \in 1 .. n : s[i] = k
  BY <1>1
<1> HIDE DEF s
<1>3. /\ Append(s, 0) \in Seq(Nat) /\ Len(Append(s, 0)) = n + 1
      /\ \A i \in 1 .. n : Append(s, 0)[i] = k
      /\ Append(s, 0)[n + 1] = 0
  BY <1>2, AppendProperties
<1>4. LineOf(k, n) = Append(s, 0)
  BY DEF LineOf, EOL, s
<1> QED BY <1>2, <1>3, <1>4 DEF s

\* The lines that the server has sent after the first g.
LEMMA LinesAre ==
  ASSUME NEW ls \in Seq(Nat), NEW g \in Nat, g <= Len(ls)
  PROVE  /\ LinesFrom(g, ls) \in Seq(Seq(Nat)) /\ Len(LinesFrom(g, ls)) = Len(ls) - g
         /\ \A k \in 1 .. Len(ls) - g : LinesFrom(g, ls)[k] = LineOf(g + k, ls[g + k])
<1> DEFINE N == Len(ls) - g
           L == LinesFrom(g, ls)
<1>1. N \in Nat
  BY LenProperties
<1>2. ASSUME NEW k \in 1 .. N PROVE L[k] = LineOf(g + k, ls[g + k]) /\ L[k] \in Seq(Nat)
  <2>1. g + k \in 1 .. Len(ls) /\ g + k \in Nat
    BY <1>1, LenProperties
  <2>2. L[k] = LineOf(g + k, ls[g + k])
    BY DEF LinesFrom
  <2>3. PICK j \in Nat : j = g + k
    BY <2>1
  <2>4. ls[j] \in Nat
    BY <2>1, <2>3, ElementOfSeq
  <2>5. LineOf(j, ls[j]) \in Seq(Nat)
    BY <2>4, LineIs
  <2> QED BY <2>2, <2>3, <2>5, Zenon
<1>3. L = [k \in 1 .. N |-> L[k]]
  BY DEF LinesFrom
<1> HIDE DEF L, N
<1>4. L \in Seq(Seq(Nat)) /\ Len(L) = N
  <2>1. L \in [1 .. N -> Seq(Nat)]
    BY <1>2, <1>3
  <2> QED BY <1>1, <2>1
<1> QED BY <1>2, <1>4 DEF L, N

\* Lossless, with the names used here.
LEMMA LosslessIs ==
  Lossless <=> IF overrun THEN peak ELSE Handed(got, lens, recvbuf \o net)
BY DEF Lossless, Handed, Whole, LinesFrom, LineOf

\* A line that is sent waits behind the others.
LEMMA OneMoreSent ==
  ASSUME NEW g \in Seq(Seq(Nat)), NEW ls \in Seq(Nat), NEW n \in Nat,
         NEW w \in Seq(Nat), Handed(g, ls, w)
  PROVE  Handed(g, Append(ls, n), w \o LineOf(Len(ls) + 1, n))
<1> DEFINE more == Append(ls, n)
           G == Len(g)
           N == Len(ls)
           L == LinesFrom(G, ls)
           M == LinesFrom(G, more)
           l == LineOf(N + 1, n)
<1>1. /\ G \in Nat /\ N \in Nat /\ G <= N /\ l \in Seq(Nat)
      /\ more \in Seq(Nat) /\ Len(more) = N + 1 /\ more[N + 1] = n
      /\ \A k \in 1 .. N : more[k] = ls[k]
  <2>1. G \in Nat /\ N \in Nat /\ G <= N /\ N + 1 \in Nat
    BY LenProperties DEF Handed
  <2>2. l \in Seq(Nat)
    BY <2>1, LineIs
  <2>3. /\ more \in Seq(Nat) /\ Len(more) = N + 1 /\ more[N + 1] = n
        /\ \A k \in 1 .. N : more[k] = ls[k]
    BY AppendProperties
  <2> QED BY <2>1, <2>2, <2>3
<1> HIDE DEF more, l
<1>2. /\ L \in Seq(Seq(Nat)) /\ Len(L) = N - G
      /\ \A k \in 1 .. N - G : L[k] = LineOf(G + k, ls[G + k])
      /\ M \in Seq(Seq(Nat)) /\ Len(M) = N + 1 - G
      /\ \A k \in 1 .. N + 1 - G : M[k] = LineOf(G + k, more[G + k])
  <2>1. G <= Len(more) /\ G <= Len(ls)
    BY <1>1
  <2>2. /\ L \in Seq(Seq(Nat)) /\ Len(L) = N - G
        /\ \A k \in 1 .. N - G : L[k] = LineOf(G + k, ls[G + k])
    BY <1>1, <2>1, LinesAre
  <2>3. /\ M \in Seq(Seq(Nat)) /\ Len(M) = Len(more) - G
        /\ \A k \in 1 .. Len(more) - G : M[k] = LineOf(G + k, more[G + k])
    BY <1>1, <2>1, LinesAre
  <2>4. Len(more) - G = N + 1 - G
    BY <1>1
  <2>5. /\ Len(M) = N + 1 - G
        /\ \A k \in 1 .. N + 1 - G : M[k] = LineOf(G + k, more[G + k])
    BY ONLY <2>3, <2>4, Zenon
  <2> QED BY ONLY <2>2, <2>3, <2>5, Zenon
<1> HIDE DEF L, M
<1>3. M = Append(L, l)
  <2>1. /\ Append(L, l) \in Seq(Seq(Nat)) /\ Len(Append(L, l)) = N + 1 - G
        /\ Append(L, l)[N + 1 - G] = l
        /\ \A k \in 1 .. N - G : Append(L, l)[k] = L[k]
    BY <1>1, <1>2, AppendProperties
  <2>2. ASSUME NEW k \in 1 .. N + 1 - G PROVE M[k] = Append(L, l)[k]
    <3>1. CASE k = N + 1 - G
      <4>1. G + k = N + 1
        BY <1>1, <3>1
      <4> QED BY <1>1, <1>2, <2>1, <3>1, <4>1 DEF l
    <3>2. CASE k # N + 1 - G
      <4>1. k \in 1 .. N - G /\ G + k \in 1 .. N
        BY <1>1, <3>2
      <4> QED BY <1>1, <1>2, <2>1, <4>1
    <3> QED BY <3>1, <3>2
  <2> DEFINE A == Append(L, l)
  <2>3. A \in Seq(Seq(Nat)) /\ Len(M) = Len(A) /\ \A k \in 1 .. Len(M) : M[k] = A[k]
    BY <1>2, <2>1, <2>2
  <2> HIDE DEF A
  <2>4. M = A
    BY <1>2, <2>3, SeqEqual
  <2> QED BY <2>4 DEF A
<1>4. FlattenSeq(M) = FlattenSeq(L) \o l
  BY <1>1, <1>2, <1>3, FlattenAppend
<1>5. w = FlattenSeq(L)
  BY DEF Handed, L, G
<1>6. \A k \in 1 .. G : g[k] = Whole(k, more[k])
  <2>1. \A k \in 1 .. G : g[k] = Whole(k, ls[k]) /\ k \in 1 .. N
    BY <1>1 DEF Handed, G
  <2> QED BY <1>1, <2>1, Zenon
<1> QED BY <1>1, <1>4, <1>5, <1>6 DEF Handed, M, G, more, l, N

\* The elements of two sequences one behind the other.
LEMMA ConcatAt ==
  ASSUME NEW S, NEW s \in Seq(S), NEW t \in Seq(S)
  PROVE  /\ s \o t \in Seq(S) /\ Len(s) \in Nat /\ Len(t) \in Nat /\ Len(s \o t) = Len(s) + Len(t)
         /\ \A i \in 1 .. Len(s) : (s \o t)[i] = s[i]
         /\ \A i \in 1 .. Len(t) : (s \o t)[Len(s) + i] = t[i]
<1> DEFINE a == s \o t
           K == Len(s)
           N == Len(t)
<1>1. a \in Seq(S) /\ Len(a) = K + N /\ \A i \in 1 .. K + N : a[i] = IF i <= K THEN s[i] ELSE t[i - K]
  BY ConcatProperties
<1>2. K \in Nat /\ N \in Nat
  BY LenProperties
<1> HIDE DEF a, K, N
<1>3. \A i \in 1 .. K : a[i] = s[i]
  BY <1>1, <1>2
<1>4. \A i \in 1 .. N : a[K + i] = t[i]
  <2> SUFFICES ASSUME NEW i \in 1 .. N PROVE a[K + i] = t[i]
    OBVIOUS
  <2>1. K + i \in 1 .. K + N /\ ~(K + i <= K) /\ (K + i) - K = i
    BY <1>2
  <2> QED BY <1>1, <2>1
<1> QED BY <1>1, <1>2, <1>3, <1>4 DEF a, K, N

\* Three sequences one behind the other.
LEMMA Regroup ==
  ASSUME NEW s \in Bytes, NEW t \in Bytes, NEW u \in Bytes
  PROVE  (s \o t) \o u = s \o (t \o u)
<1>1. s \in Seq(Nat) /\ t \in Seq(Nat) /\ u \in Seq(Nat)
  BY DEF Bytes
<1> QED BY <1>1, ConcatAssociative, SMTT(30)

\* What follows the same sequence is the same.
LEMMA CancelLeft ==
  ASSUME NEW S, NEW s \in Seq(S), NEW t \in Seq(S), NEW u \in Seq(S), s \o t = s \o u
  PROVE  t = u
<1> DEFINE a == s \o t
           c == s \o u
<1>1. /\ Len(s) \in Nat /\ Len(t) \in Nat /\ Len(a) = Len(s) + Len(t)
      /\ \A i \in 1 .. Len(t) : a[Len(s) + i] = t[i]
  BY ConcatAt
<1>2. /\ Len(u) \in Nat /\ Len(c) = Len(s) + Len(u)
      /\ \A i \in 1 .. Len(u) : c[Len(s) + i] = u[i]
  BY ConcatAt
<1>3. a = c
  OBVIOUS
<1> HIDE DEF a, c
<1>4. Len(t) = Len(u)
  BY <1>1, <1>2, <1>3
<1>5. \A i \in 1 .. Len(t) : t[i] = u[i]
  BY <1>1, <1>2, <1>3, <1>4
<1> QED BY <1>4, <1>5, SeqEqual

FirstEolAt(p, b) == p \in 1 .. Len(b) /\ b[p] = 0 /\ \A i \in 1 .. p - 1 : b[i] # 0

\* The bytes up to the first EOL in what waits are the first of the lines that wait.
LEMMA FirstLineIs ==
  ASSUME NEW b \in Bytes, NEW w \in Bytes, NEW l \in Bytes, NEW f \in Bytes, b \o w = l \o f,
         FirstEolAt(Len(l), l), NEW p, FirstEolAt(p, b)
  PROVE  p = Len(l) /\ SubSeq(b, 1, p) = l /\ SubSeq(b, p + 1, Len(b)) \o w = f
<1> DEFINE n == Len(l)
           a == b \o w
           u == SubSeq(b, 1, p)
           v == SubSeq(b, p + 1, Len(b))
<1> p \in 1 .. Len(b) /\ b[p] = 0 /\ \A i \in 1 .. p - 1 : b[i] # 0
  BY DEF FirstEolAt
<1> b \in Seq(Nat) /\ w \in Seq(Nat) /\ f \in Seq(Nat) /\ l \in Seq(Nat)
  BY DEF Bytes
<1>1. n \in Nat /\ n \in 1 .. n /\ l[n] = 0 /\ \A i \in 1 .. n - 1 : l[i] # 0
  BY LenProperties DEF FirstEolAt
<1>2. a = l \o f
  OBVIOUS
<1>3. Len(b) \in Nat /\ \A i \in 1 .. Len(b) : a[i] = b[i]
  <2>1. b \in Seq(Nat) /\ w \in Seq(Nat)
    OBVIOUS
  <2>2. Len(b) \in Nat /\ \A i \in 1 .. Len(b) : (b \o w)[i] = b[i]
    BY ONLY <2>1, ConcatAt
  <2> QED BY <2>2
<1>4. \A i \in 1 .. n : a[i] = l[i]
  <2>1. \A i \in 1 .. Len(l) : (l \o f)[i] = l[i]
    BY ConcatAt
  <2> HIDE DEF a
  <2> QED BY <1>2, <2>1
<1> HIDE DEF a, n
<1>5. \A i \in 1 .. Len(b) : i <= n => b[i] = l[i]
  <2> SUFFICES ASSUME NEW i \in 1 .. Len(b), i <= n PROVE b[i] = l[i]
    OBVIOUS
  <2>1. i \in 1 .. n
    BY <1>1, <1>3
  <2>2. a[i] = b[i] /\ a[i] = l[i]
    BY <1>3, <1>4, <2>1
  <2> QED BY <2>2
<1>6. p = n
  <2>1. ~(p < n)
    <3>1. ASSUME p < n PROVE FALSE
      <4>1. p \in 1 .. n - 1 /\ b[p] = l[p]
        BY <1>1, <1>3, <1>5, <3>1
      <4> QED BY <1>1, <4>1
    <3> QED BY <3>1
  <2>2. ~(p > n)
    <3>1. ASSUME p > n PROVE FALSE
      <4>1. n \in 1 .. p - 1 /\ n \in 1 .. Len(b)
        BY <1>1, <1>3, <3>1
      <4>2. b[n] = 0
        BY <1>1, <1>5, <4>1
      <4> QED BY <4>1, <4>2
    <3> QED BY <3>1
  <2> QED BY <1>1, <1>3, <2>1, <2>2
<1>8. /\ u \in Seq(Nat) /\ Len(u) = p /\ \A i \in 1 .. p : u[i] = b[i]
      /\ v \in Seq(Nat) /\ b = u \o v
  <2>1. /\ u \in Seq(Nat) /\ Len(u) = p /\ (\A i \in 1 .. p : u[i] = b[i])
        /\ v \in Seq(Nat)
    BY <1>3, SubSeqProperties, SMTT(30)
  <2>2. u \o v = SubSeq(b, 1, Len(b))
    BY <1>3, ConcatAdjacentSubSeq
  <2>3. SubSeq(b, 1, Len(b)) = b
    BY SubSeqFull
  <2> QED BY <2>1, <2>2, <2>3
<1> HIDE DEF u, v
<1>9. u = l
  <2>1. \A i \in 1 .. p : u[i] = l[i]
    <3> SUFFICES ASSUME NEW i \in 1 .. p PROVE u[i] = l[i]
      OBVIOUS
    <3>1. i \in 1 .. Len(b) /\ i <= n
      BY <1>3, <1>6
    <3> QED BY <1>5, <1>8, <3>1
  <2>2. Len(u) = Len(l) /\ \A i \in 1 .. Len(u) : u[i] = l[i]
    BY <1>6, <1>8, <2>1 DEF n
  <2> QED BY <1>1, <1>8, <2>2, SeqEqual
<1>10. v \o w = f
  <2> DEFINE x == v \o w
  <2>1. x \in Seq(Nat)
    BY <1>8, ConcatAt
  <2>2. a = (u \o v) \o w
    BY <1>8 DEF a
  <2>3. (u \o v) \o w = u \o x
    <3>1. u \in Bytes /\ v \in Bytes /\ w \in Bytes
      BY <1>8 DEF Bytes
    <3>2. (u \o v) \o w = u \o (v \o w)
      BY ONLY <3>1, Regroup, SMTT(30)
    <3> QED BY <3>2
  <2> HIDE DEF x
  <2>4. u \o x = u \o f
    BY <1>2, <1>9, <2>2, <2>3
  <2>5. x = f
    BY ONLY <1>8, <2>1, <2>4, f \in Seq(Nat), CancelLeft
  <2> QED BY <2>5 DEF x
<1> QED BY <1>6, <1>9, <1>10 DEF u, v, n

\* A line that is taken out of recvbuf is the next one, and the others stay.
LEMMA OneMoreHanded ==
  ASSUME NEW g \in Seq(Seq(Nat)), NEW ls \in Seq(Nat), NEW b \in Seq(Nat), NEW w \in Seq(Nat),
         Handed(g, ls, b \o w),
         NEW p, FirstEolAt(p, b)
  PROVE  Handed(Append(g, SubSeq(b, 1, Cut(p))), ls, SubSeq(b, p + 1, Len(b)) \o w)
<1> DEFINE G == Len(g)
           N == Len(ls)
           L == LinesFrom(G, ls)
           M == LinesFrom(G + 1, ls)
           f == FlattenSeq(Tail(L))
           k == G + 1
           n == ls[k]
           c == Cut(p)
           x == SubSeq(b, 1, c)
<1> p \in 1 .. Len(b)
  BY DEF FirstEolAt
<1>1. /\ G \in Nat /\ N \in Nat /\ G <= N /\ Len(b) \in Nat /\ Len(w) \in Nat /\ k \in Nat
      /\ b \o w = FlattenSeq(L) /\ \A i \in 1 .. G : g[i] = Whole(i, ls[i])
  BY LenProperties DEF Handed
<1>2. /\ L \in Seq(Seq(Nat)) /\ Len(L) = N - G
      /\ \A i \in 1 .. N - G : L[i] = LineOf(G + i, ls[G + i])
  BY <1>1, LinesAre
<1> HIDE DEF L
<1>3. G + 1 <= N
  <2>1. ASSUME N = G PROVE FALSE
    <3>1. Len(L) = 0
      BY <1>1, <1>2, <2>1
    <3>2. b \o w = <<>>
      BY <1>1, <1>2, <3>1, FlattenedIs
    <3>3. Len(b \o w) = Len(b) + Len(w)
      BY ConcatProperties
    <3> QED BY <1>1, <3>2, <3>3
  <2> QED BY <1>1, <2>1
<1>4. /\ L # <<>> /\ Head(L) = LineOf(k, n) /\ Tail(L) \in Seq(Seq(Nat)) /\ n \in Nat
      /\ Len(Tail(L)) = N - (G + 1) /\ \A i \in 1 .. N - (G + 1) : Tail(L)[i] = L[i + 1]
  <2>1. L # <<>> /\ Len(L) >= 1 /\ 1 \in 1 .. N - G
    BY <1>1, <1>2, <1>3
  <2>2. Head(L) = L[1] /\ L[1] = LineOf(k, n)
    BY <1>2, <2>1
  <2>3. n \in Nat
    BY <1>1, <1>3, ElementOfSeq
  <2>4. /\ Tail(L) \in Seq(Seq(Nat)) /\ Len(Tail(L)) = N - (G + 1)
        /\ \A i \in 1 .. N - (G + 1) : Tail(L)[i] = L[i + 1]
    BY <1>1, <1>2, <2>1
  <2> QED BY <2>1, <2>2, <2>3, <2>4
<1>5. /\ M \in Seq(Seq(Nat)) /\ Len(M) = N - (G + 1)
      /\ \A i \in 1 .. N - (G + 1) : M[i] = LineOf(G + 1 + i, ls[G + 1 + i])
  BY <1>1, <1>3, LinesAre
<1> HIDE DEF M, n
<1>6. Tail(L) = M
  <2>1. ASSUME NEW i \in 1 .. Len(Tail(L)) PROVE Tail(L)[i] = M[i]
    <3>1. i + 1 \in 1 .. N - G /\ G + (i + 1) = G + 1 + i
      BY <1>1, <1>4
    <3>2. L[i + 1] = LineOf(G + 1 + i, ls[G + 1 + i])
      BY <1>2, <3>1
    <3> QED BY <1>4, <1>5, <3>2
  <2> DEFINE t == Tail(L)
  <2>2. t \in Seq(Seq(Nat)) /\ Len(t) = Len(M) /\ \A i \in 1 .. Len(t) : t[i] = M[i]
    BY <1>4, <1>5, <2>1
  <2> HIDE DEF t
  <2>3. t = M
    BY <1>5, <2>2, SeqEqual
  <2> QED BY <2>3 DEF t
<1>7. f \in Seq(Nat) /\ b \o w = LineOf(k, n) \o f
  <2>1. FlattenSeq(L) = Head(L) \o f
    BY <1>2, <1>4, FlattenHeadTail
  <2>2. f \in Seq(Nat)
    BY <1>4, FlattenType
  <2> QED BY <1>1, <1>4, <2>1, <2>2
<1> HIDE DEF f, k
<1>8. /\ p = n + 1 /\ \A i \in 1 .. n : b[i] = k
      /\ SubSeq(b, p + 1, Len(b)) \o w = f
  <2> DEFINE l == LineOf(k, n)
             u == SubSeq(b, 1, p)
  <2>1. k # 0 /\ k \in Nat
    BY <1>1 DEF k
  <2>2. l \in Bytes /\ Len(l) = n + 1 /\ l[n + 1] = 0 /\ \A i \in 1 .. n : l[i] = k
    BY <1>4, <2>1, LineIs DEF Bytes
  <2>3. b \in Bytes /\ w \in Bytes /\ f \in Bytes /\ b \o w = l \o f
    BY <1>7 DEF Bytes
  <2> HIDE DEF l
  <2>4. FirstEolAt(Len(l), l)
    BY <1>4, <2>1, <2>2 DEF FirstEolAt
  <2>5. p = Len(l) /\ u = l /\ SubSeq(b, p + 1, Len(b)) \o w = f
    <3>1. b \in Bytes /\ w \in Bytes /\ l \in Bytes /\ f \in Bytes
      BY <2>2, <2>3
    <3>2. b \o w = l \o f /\ FirstEolAt(Len(l), l) /\ FirstEolAt(p, b)
      BY <2>3, <2>4
    <3>3. p = Len(l) /\ SubSeq(b, 1, p) = l /\ SubSeq(b, p + 1, Len(b)) \o w = f
      BY ONLY <3>1, <3>2, FirstLineIs
    <3> QED BY <3>3
  <2>6. \A i \in 1 .. p : u[i] = b[i]
    BY SubSeqProperties, LenProperties
  <2> HIDE DEF u
  <2>7. \A i \in 1 .. n : b[i] = k
    <3> SUFFICES ASSUME NEW i \in 1 .. n PROVE b[i] = k
      OBVIOUS
    <3>1. i \in 1 .. p
      BY <1>4, <2>2, <2>5
    <3> QED BY <2>2, <2>5, <2>6, <3>1
  <2> QED BY <2>2, <2>5, <2>7
<1>9. x = Whole(k, n) /\ x \in Seq(Nat)
  <2>1. c \in Nat /\ c <= n /\ c = IF n < LineMax THEN n ELSE LineMax
    BY <1>4, <1>8, LineReaderAssumption DEF Cut
  <2>2. PICK e \in Nat : e = c
    BY <2>1
  <2>3. e <= n /\ x = SubSeq(b, 1, e)
    BY <2>1, <2>2
  <2> HIDE DEF c, x
  <2>4. e <= Len(b)
    BY <1>1, <1>4, <1>8, <2>3
  <2> DEFINE y == SubSeq(b, 1, e)
  <2>5. y \in Seq(Nat) /\ Len(y) = e /\ \A i \in 1 .. e : y[i] = b[i]
    BY <2>4, SubSeqProperties
  <2> HIDE DEF y
  <2>6. \A i \in 1 .. e : y[i] = k
    <3> SUFFICES ASSUME NEW i \in 1 .. e PROVE y[i] = k
      OBVIOUS
    <3>1. i \in 1 .. n
      BY <1>4, <2>3
    <3>2. b[i] = k
      BY <1>8, <3>1
    <3> QED BY <2>5, <3>2
  <2>7. y = [i \in 1 .. e |-> k]
    BY <2>5, <2>6
  <2>8. x = y
    BY <2>3 DEF y
  <2>9. Whole(k, n) = [i \in 1 .. e |-> k]
    BY <2>1, <2>2 DEF Whole, Line
  <2> QED BY <2>5, <2>7, <2>8, <2>9
<1> HIDE DEF x
<1>10. /\ Append(g, x) \in Seq(Seq(Nat)) /\ Len(Append(g, x)) = G + 1
       /\ Append(g, x)[G + 1] = x /\ \A i \in 1 .. G : Append(g, x)[i] = g[i]
  BY <1>9, AppendProperties
<1> HIDE DEF G, N
<1>11. \A i \in 1 .. G + 1 : Append(g, x)[i] = Whole(i, ls[i])
  <2> SUFFICES ASSUME NEW i \in 1 .. G + 1 PROVE Append(g, x)[i] = Whole(i, ls[i])
    OBVIOUS
  <2>1. CASE i = G + 1
    BY <1>9, <1>10, <2>1 DEF k, n
  <2>2. CASE i # G + 1
    <3>1. i \in 1 .. G
      BY <1>1, <2>2
    <3> QED BY <1>1, <1>10, <3>1
  <2> QED BY <2>1, <2>2
<1>12. SubSeq(b, p + 1, Len(b)) \o w = FlattenSeq(M)
  BY <1>6, <1>8 DEF f
<1> QED BY <1>1, <1>3, <1>10, <1>11, <1>12 DEF Handed, M, x, N, G, c

\* bufsock_findchr finds the first EOL.
LEMMA FirstEolIs ==
  ASSUME recvbuf \in Seq(Nat), FirstEol # 0
  PROVE  FirstEolAt(FirstEol, recvbuf)
<1> DEFINE I == {i \in 1 .. Len(recvbuf) : recvbuf[i] = 0}
           p == Min(I)
<1>1. FirstEol = IF I # {} THEN p ELSE 0
  BY DEF FirstEol, EOL, SelectInSeq, Min, Min
<1>2. I # {} /\ I \subseteq Nat
  BY <1>1
<1>3. p \in I /\ \A j \in I : p <= j
  BY <1>2, MinIs
<1> HIDE DEF p
<1>4. p \in 1 .. Len(recvbuf) /\ recvbuf[p] = 0 /\ \A i \in 1 .. p - 1 : recvbuf[i] # 0
  <2>1. Len(recvbuf) \in Nat
    BY LenProperties
  <2> QED BY <1>3, <2>1
<1> QED BY <1>1, <1>2, <1>4 DEF FirstEolAt

\* A line is sent.
LEMMA ServerSendsKeeps ==
  ASSUME ReaderInv, NEW len \in Lengths, ServerSends(len)
  PROVE  ReaderInv'
<1>1. /\ lens \in Seq(Nat) /\ net \in Seq(Nat) /\ recvbuf \in Seq(Nat) /\ got \in Seq(Seq(Nat))
      /\ peak \in BOOLEAN /\ overrun \in BOOLEAN /\ len \in Nat /\ Size \in Nat
  BY LineReaderAssumption DEF ReaderInv
<1> DEFINE N == Len(lens)
           l == LineOf(N + 1, len)
           more == net \o l
           w == recvbuf \o net
<1>2. l \in Seq(Nat) /\ Len(l) = len + 1
  <2>1. N + 1 \in Nat
    BY <1>1, LenProperties
  <2> QED BY <1>1, <2>1, LineIs
<1>3. /\ lens' = Append(lens, len) /\ net' = more
      /\ peak' = (peak \/ Len(more) + Len(recvbuf) >= Size)
      /\ recvbuf' = recvbuf /\ got' = got /\ overrun' = overrun
  BY DEF ServerSends, LineOf
<1> HIDE DEF l
<1>4. more \in Seq(Nat) /\ Len(more) \in Nat /\ Append(lens, len) \in Seq(Nat)
  BY <1>1, <1>2, ConcatAt, AppendProperties, LenProperties
<1>5. Len(recvbuf) \in Nat /\ Len(net) \in Nat
  BY <1>1, LenProperties
<1>6. w \in Seq(Nat) /\ w \o l = recvbuf \o more
  <2>1. recvbuf \in Bytes /\ net \in Bytes /\ l \in Bytes
    BY <1>1, <1>2 DEF Bytes
  <2>2. (recvbuf \o net) \o l = recvbuf \o (net \o l)
    BY <2>1, Regroup
  <2> QED BY <1>1, <2>2, ConcatAt
<1> HIDE DEF more, w
<1>7. ~overrun => Handed(got, Append(lens, len), recvbuf \o more)
  <2>1. ASSUME ~overrun PROVE Handed(got, lens, w)
    BY <2>1 DEF ReaderInv, w
  <2>2. ASSUME ~overrun PROVE Handed(got, Append(lens, len), w \o l)
    BY <1>1, <1>6, <2>1, <2>2, OneMoreSent DEF l, N
  <2> QED BY <1>6, <2>2
<1>8. (overrun => peak') /\ peak' \in BOOLEAN
  BY <1>3, Zenon DEF ReaderInv
<1>9. Len(recvbuf) + Len(more) >= Size => peak'
  <2>1. Len(recvbuf) + Len(more) = Len(more) + Len(recvbuf)
    BY <1>4, <1>5
  <2> QED BY <1>3, <2>1, Zenon
<1>10. Len(recvbuf) <= Size
  BY DEF ReaderInv
<1>11. net' \in Seq(Nat) /\ lens' \in Seq(Nat) /\ recvbuf' \in Seq(Nat) /\ got' \in Seq(Seq(Nat)) /\ overrun' \in BOOLEAN
  BY <1>1, <1>3, <1>4
<1>12. ~overrun' => Handed(got', lens', recvbuf' \o net')
  BY <1>3, <1>7, Zenon
<1>13. Len(recvbuf') <= Size /\ (Len(recvbuf') + Len(net') >= Size => peak') /\ (overrun' => peak')
  BY <1>3, <1>8, <1>9, <1>10, Zenon
<1> QED BY <1>8, <1>11, <1>12, <1>13, Zenon DEF ReaderInv

\* recv brings a chunk into recvbuf, or it is lost.
LEMMA RecvKeeps ==
  ASSUME ReaderInv, NEW c \in 1 .. Len(net), Recv(c)
  PROVE  ReaderInv'
<1>1. /\ lens \in Seq(Nat) /\ net \in Seq(Nat) /\ recvbuf \in Seq(Nat) /\ got \in Seq(Seq(Nat))
      /\ peak \in BOOLEAN /\ overrun \in BOOLEAN /\ Size \in Nat
      /\ Len(recvbuf) <= Size /\ Len(recvbuf) \in Nat /\ Len(net) \in Nat
  BY LenProperties, LineReaderAssumption DEF ReaderInv
<1> DEFINE chunk == SubSeq(net, 1, c)
           left == SubSeq(net, c + 1, Len(net))
           fits == Len(recvbuf) < Size /\ Len(recvbuf) + Len(chunk) <= Size
<1>2. /\ chunk \in Seq(Nat) /\ Len(chunk) = c /\ left \in Seq(Nat) /\ Len(left) = Len(net) - c
      /\ chunk \o left = net
  <2>1. chunk \o left = SubSeq(net, 1, Len(net))
    BY <1>1, ConcatAdjacentSubSeq
  <2>2. SubSeq(net, 1, Len(net)) = net
    BY <1>1, SubSeqFull
  <2>3. chunk \in Seq(Nat) /\ Len(chunk) = c
    BY <1>1, SubSeqProperties
  <2>4. PICK d \in 1 .. Len(net) + 1 : d = c + 1
    BY <1>1
  <2> DEFINE e == SubSeq(net, d, Len(net))
  <2>5. e \in Seq(Nat) /\ Len(e) = Len(net) + 1 - d
    <3>1. d \in Int /\ Len(net) \in Int /\ \A i \in d .. Len(net) : net[i] \in Nat
      BY <1>1, SMTT(30)
    <3>2. e \in Seq(Nat) /\ Len(e) = IF d <= Len(net) THEN Len(net) - d + 1 ELSE 0
      BY <3>1, SubSeqProperties
    <3> HIDE DEF e
    <3>3. Len(net) \in Nat
      BY <1>1
    <3>4. Len(e) = Len(net) + 1 - d
      BY ONLY <3>2, <3>3, d \in 1 .. Len(net) + 1
    <3> QED BY <3>2, <3>4, Zenon
  <2>6. e = left
    BY <2>4
  <2> HIDE DEF e
  <2>7. left \in Seq(Nat) /\ Len(left) = Len(net) - c
    BY <1>1, <2>4, <2>5, <2>6
  <2> QED BY <2>1, <2>2, <2>3, <2>7
<1>3. /\ IF fits THEN recvbuf' = recvbuf \o chunk /\ overrun' = overrun
                  ELSE overrun' = TRUE /\ recvbuf' = recvbuf
      /\ net' = left /\ lens' = lens /\ got' = got /\ peak' = peak
  BY DEF Recv, Fits, Ring!Fits
<1>4. Len(recvbuf) + Len(net) >= Size => peak
  BY DEF ReaderInv
<1> HIDE DEF chunk, left
<1>5. CASE fits
  <2> DEFINE r == recvbuf \o chunk
  <2>1. r \in Seq(Nat) /\ Len(r) = Len(recvbuf) + c
    BY <1>1, <1>2, ConcatAt
  <2>2. r \o left = recvbuf \o net
    <3>1. recvbuf \in Bytes /\ chunk \in Bytes /\ left \in Bytes
      BY <1>1, <1>2 DEF Bytes
    <3>2. (recvbuf \o chunk) \o left = recvbuf \o (chunk \o left)
      BY <3>1, Regroup
    <3> QED BY <1>2, <3>2
  <2>3. recvbuf' = r /\ overrun' = overrun
    BY <1>3, <1>5
  <2> HIDE DEF r
  <2>4. Len(r) <= Size /\ (Len(r) + Len(left) >= Size => peak)
    BY <1>1, <1>2, <1>4, <1>5, <2>1
  <2>5. /\ overrun => peak
        /\ ~overrun => Handed(got, lens, r \o left)
    BY <2>2 DEF ReaderInv
  <2>6. /\ lens' \in Seq(Nat) /\ net' \in Seq(Nat) /\ recvbuf' \in Seq(Nat) /\ got' \in Seq(Seq(Nat))
        /\ peak' \in BOOLEAN /\ overrun' \in BOOLEAN
    BY <1>1, <1>2, <1>3, <2>1, <2>3
  <2>7. /\ Len(recvbuf') <= Size /\ (Len(recvbuf') + Len(net') >= Size => peak') /\ (overrun' => peak')
        /\ ~overrun' => Handed(got', lens', recvbuf' \o net')
    BY <1>3, <2>3, <2>4, <2>5, Zenon
  <2> QED BY <2>6, <2>7, Zenon DEF ReaderInv
<1>6. CASE ~fits
  <2>1. peak
    BY <1>1, <1>2, <1>4, <1>6, SMTT(30)
  <2>2. /\ lens' \in Seq(Nat) /\ net' \in Seq(Nat) /\ recvbuf' \in Seq(Nat) /\ got' \in Seq(Seq(Nat))
        /\ peak' \in BOOLEAN /\ overrun' \in BOOLEAN /\ overrun' /\ peak' /\ Len(recvbuf') <= Size
    BY <1>1, <1>2, <1>3, <1>6, <2>1
  <2> QED BY <2>2 DEF ReaderInv
<1> QED BY <1>5, <1>6

\* bufsock_get of the first bytes of a line and bufsock_delete of the others take
\* the whole line out of recvbuf, or clear a full buffer.
LEMMA RestIs ==
  ASSUME recvbuf \in Seq(Nat), Size \in Nat, Len(recvbuf) <= Size,
         NEW p \in 1 .. Len(recvbuf), NEW c \in 0 .. p - 1
  PROVE  /\ Rest(p, c) \in {<<>>, SubSeq(recvbuf, p + 1, Len(recvbuf))}
         /\ Len(recvbuf) # Size => Rest(p, c) = SubSeq(recvbuf, p + 1, Len(recvbuf))
<1> DEFINE K == Len(recvbuf)
           v == SubSeq(recvbuf, p + 1, K)
           y == SubSeq(recvbuf, c + 1, K)
           Left(s, n) == IF n <= 0 THEN s
                         ELSE IF Len(s) = Size \/ n >= Len(s) THEN <<>>
                         ELSE SubSeq(s, n + 1, Len(s))
<1>1. Rest(p, c) = Left(Left(recvbuf, c), p - c)
  BY DEF Rest, Ring!Without, Ring!Remaining
<1>2. K \in Nat /\ c \in Nat /\ c < p /\ p <= K
  BY LenProperties
<1>3. p = K => v = <<>>
  <2> SUFFICES ASSUME p = K PROVE v = <<>>
    OBVIOUS
  <2>1. PICK d \in Int : d = p + 1
    BY <1>2
  <2>2. SubSeq(recvbuf, d, K) = <<>>
    BY <1>2, <2>1, SubSeqEmpty
  <2> QED BY <2>1, <2>2
<1>4. CASE c = 0
  BY <1>1, <1>2, <1>3, <1>4
<1>5. CASE c # 0 /\ K = Size
  <2>1. Left(recvbuf, c) = <<>>
    BY <1>2, <1>5
  <2>2. Left(<<>>, p - c) = <<>>
    BY <1>2
  <2> QED BY <1>1, <1>5, <2>1, <2>2
<1>6. CASE c # 0 /\ K # Size
  <2>1. Left(recvbuf, c) = y
    BY <1>2, <1>6
  <2>2. Len(y) = K - c
    <3>1. PICK d \in 1 .. K : d = c + 1
      BY <1>2
    <3>2. Len(SubSeq(recvbuf, d, K)) = K - d + 1
      BY <1>2, SubSeqProperties
    <3> QED BY <1>2, <3>1, <3>2
  <2>3. CASE p = K
    <3>1. Left(y, p - c) = <<>>
      <4> HIDE DEF y
      <4> QED BY <1>2, <2>2, <2>3
    <3> QED BY <1>1, <1>3, <2>1, <2>3, <3>1
  <2>4. CASE p # K
    <3>1. Left(y, p - c) = SubSeq(y, p - c + 1, K - c)
      <4> HIDE DEF y
      <4> QED BY <1>2, <1>6, <2>2, <2>4
    <3>2. SubSeq(y, p - c + 1, K - c) = v
      <4>1. PICK i \in 1 .. K, m \in 1 .. K - c, n \in 1 .. K - c :
              i = c + 1 /\ m = p - c + 1 /\ n = K - c
        <5>1. c + 1 \in 1 .. K /\ p - c + 1 \in 1 .. K - c /\ K - c \in 1 .. K - c
          BY <1>2, <2>4
        <5> HIDE DEF K
        <5> QED BY <5>1, Zenon
      <4>2. K - i + 1 = K - c /\ i + m - 1 = p + 1 /\ i + n - 1 = K /\ K \in 1 .. K
        BY <1>2, <4>1
      <4>3. m \in 1 .. K - i + 1 /\ n \in 1 .. K - i + 1
        BY <4>2
      <4>4. SubSeq(SubSeq(recvbuf, i, K), m, n) = SubSeq(recvbuf, i + m - 1, i + n - 1)
        BY <4>2, <4>3, SubSeqOfSubSeq
      <4> QED BY <4>1, <4>2, <4>4, Zenon
    <3>3. Rest(p, c) = Left(y, p - c)
      BY <1>1, <2>1
    <3>4. Rest(p, c) = v
      BY <3>1, <3>2, <3>3, Zenon
    <3> QED BY <3>4
  <2> QED BY <2>3, <2>4
<1> QED BY <1>4, <1>5, <1>6

\* A line is handed to the plugins.
LEMMA TakeLineKeeps ==
  ASSUME ReaderInv, TakeLine
  PROVE  ReaderInv'
<1> DEFINE p == FirstEol
           c == Cut(p)
           x == SubSeq(recvbuf, 1, c)
           v == SubSeq(recvbuf, p + 1, Len(recvbuf))
<1>1. /\ lens \in Seq(Nat) /\ net \in Seq(Nat) /\ recvbuf \in Seq(Nat) /\ got \in Seq(Seq(Nat))
      /\ peak \in BOOLEAN /\ overrun \in BOOLEAN /\ Size \in Nat /\ LineMax \in Nat
      /\ Len(recvbuf) <= Size /\ Len(recvbuf) \in Nat /\ Len(net) \in Nat
  BY LenProperties, LineReaderAssumption DEF ReaderInv
<1>2. /\ p # 0 /\ got' = Append(got, x) /\ recvbuf' = Rest(p, c)
      /\ overrun' = (overrun \/ Len(recvbuf) = Size)
      /\ lens' = lens /\ net' = net /\ peak' = peak
  BY DEF TakeLine
<1>3. FirstEolAt(p, recvbuf)
  BY <1>1, <1>2, FirstEolIs
<1> HIDE DEF p
<1>4. p \in 1 .. Len(recvbuf)
  BY <1>3 DEF FirstEolAt
<1>5. c \in Nat /\ c < p /\ x \in Seq(Nat)
  <2>1. c \in Nat /\ c < p
    BY <1>1, <1>4 DEF Cut
  <2> HIDE DEF c
  <2> QED BY <1>1, <1>4, <2>1, SubSeqProperties
<1>6. v \in Seq(Nat) /\ Len(v) = Len(recvbuf) - p
  BY <1>1, <1>4, SubSeqProperties
<1>7. /\ Rest(p, c) \in {<<>>, v}
      /\ Len(recvbuf) # Size => Rest(p, c) = v
  <2>1. PICK d \in 0 .. p - 1 : d = c
    BY <1>4, <1>5
  <2>2. PICK q \in 1 .. Len(recvbuf) : q = p
    BY <1>4
  <2>3. /\ Rest(q, d) \in {<<>>, SubSeq(recvbuf, q + 1, Len(recvbuf))}
        /\ Len(recvbuf) # Size => Rest(q, d) = SubSeq(recvbuf, q + 1, Len(recvbuf))
    BY <1>1, <2>1, <2>2, RestIs
  <2> QED BY <2>1, <2>2, <2>3
<1> HIDE DEF v
<1>8. recvbuf' \in Seq(Nat) /\ Len(recvbuf') \in Nat /\ Len(recvbuf') <= Len(recvbuf)
  <2>1. recvbuf' = <<>> \/ recvbuf' = v
    BY <1>2, <1>7
  <2>2. CASE recvbuf' = <<>>
    BY <1>1, <2>2
  <2>3. CASE recvbuf' = v
    BY <1>1, <1>4, <1>6, <2>3
  <2> QED BY <2>1, <2>2, <2>3
<1>9. (Len(recvbuf) + Len(net) >= Size => peak) /\ (overrun => peak)
  BY DEF ReaderInv
<1>10. Append(got, x) \in Seq(Seq(Nat))
  BY <1>1, <1>5, AppendProperties
<1>11. ~overrun' => Handed(Append(got, x), lens, v \o net)
  <2>1. ASSUME ~overrun' PROVE Handed(got, lens, recvbuf \o net)
    BY <1>2, <2>1 DEF ReaderInv
  <2>2. ASSUME ~overrun' PROVE Handed(Append(got, x), lens, v \o net)
    BY <1>1, <1>3, <2>1, <2>2, OneMoreHanded DEF v
  <2> QED BY <2>2
<1> HIDE DEF c, x
<1>12. ~overrun' => Handed(got', lens', recvbuf' \o net')
  <2>1. ASSUME ~overrun' PROVE recvbuf' = v
    BY <1>2, <1>7, <2>1
  <2> QED BY <1>2, <1>11, <2>1, Zenon
<1>13. /\ lens' \in Seq(Nat) /\ net' \in Seq(Nat) /\ got' \in Seq(Seq(Nat))
       /\ peak' \in BOOLEAN /\ overrun' \in BOOLEAN
  BY <1>1, <1>2, <1>10
<1>14. Len(recvbuf') <= Size /\ (Len(recvbuf') + Len(net') >= Size => peak')
  BY <1>1, <1>2, <1>8, <1>9
<1>15. overrun' => peak'
  <2>1. Len(recvbuf) = Size => peak
    BY <1>1, <1>9
  <2> QED BY <1>2, <1>9, <2>1, Zenon
<1> QED BY <1>8, <1>12, <1>13, <1>14, <1>15, Zenon DEF ReaderInv

\* Without lines nothing waits.
LEMMA NothingHanded ==
  /\ Handed(<<>>, <<>>, <<>> \o <<>>)
  /\ <<>> \in Seq(Nat) /\ <<>> \in Seq(Seq(Nat)) /\ Len(<<>>) = 0
<1>1. <<>> \in Seq(Nat) /\ <<>> \in Seq(Seq(Nat)) /\ Len(<<>>) = 0 /\ 0 \in Nat
  OBVIOUS
<1> DEFINE L == LinesFrom(0, <<>>)
<1>2. L \in Seq(Seq(Nat)) /\ Len(L) = 0
  <2>1. PICK e \in Seq(Nat) : e = <<>>
    BY <1>1
  <2>2. PICK z \in Nat : z = 0
    BY <1>1
  <2>3. Len(e) = z /\ z <= Len(e)
    BY <2>1, <2>2
  <2> DEFINE M == LinesFrom(z, e)
  <2>4. M \in Seq(Seq(Nat)) /\ Len(M) = Len(e) - z
    BY <2>3, LinesAre
  <2>5. L = M
    BY <2>1, <2>2
  <2> HIDE DEF M, L
  <2> QED BY <2>2, <2>3, <2>4, <2>5
<1> HIDE DEF L
<1>3. FlattenSeq(L) = <<>>
  BY <1>2, FlattenedIs
<1>4. <<>> \o <<>> = <<>>
  OBVIOUS
<1> QED BY <1>1, <1>3, <1>4 DEF Handed, L

\* The server has closed the connection, and a new one begins.
LEMMA RecvEofKeeps ==
  ASSUME ReaderInv, RecvEof
  PROVE  ReaderInv'
<1>1. /\ net = <<>> /\ net' = <<>> /\ lens' = <<>> /\ recvbuf' = <<>> /\ got' = <<>>
      /\ peak' = FALSE /\ overrun' = FALSE
  BY DEF RecvEof
<1>2. Size \in Nat \ {0}
  BY LineReaderAssumption
<1>3. Handed(<<>>, <<>>, <<>> \o <<>>) /\ <<>> \in Seq(Nat) /\ <<>> \in Seq(Seq(Nat)) /\ Len(<<>>) = 0
  BY NothingHanded
<1>4. /\ lens' \in Seq(Nat) /\ net' \in Seq(Nat) /\ recvbuf' \in Seq(Nat) /\ got' \in Seq(Seq(Nat))
      /\ Handed(got', lens', recvbuf' \o net')
  BY <1>1, <1>3, Zenon
<1>5. Len(recvbuf') <= Size /\ ~(Len(recvbuf') + Len(net') >= Size)
  <2>1. Len(recvbuf') = 0 /\ Len(net') = 0
    BY <1>1
  <2> QED BY <1>2, <2>1
<1>6. peak' \in BOOLEAN /\ overrun' \in BOOLEAN /\ ~overrun'
  BY <1>1, Zenon
<1> QED BY <1>4, <1>5, <1>6, Zenon DEF ReaderInv

\* Before the first line.
LEMMA ReaderStarts ==
  ASSUME ReaderInit
  PROVE  ReaderInv
<1>1. /\ net = <<>> /\ lens = <<>> /\ recvbuf = <<>> /\ got = <<>>
      /\ peak = FALSE /\ overrun = FALSE
  BY DEF ReaderInit
<1>2. Size \in Nat \ {0}
  BY LineReaderAssumption
<1>3. Handed(<<>>, <<>>, <<>> \o <<>>) /\ <<>> \in Seq(Nat) /\ <<>> \in Seq(Seq(Nat)) /\ Len(<<>>) = 0
  BY NothingHanded
<1>4. /\ lens \in Seq(Nat) /\ net \in Seq(Nat) /\ recvbuf \in Seq(Nat) /\ got \in Seq(Seq(Nat))
      /\ Handed(got, lens, recvbuf \o net)
  BY <1>1, <1>3, Zenon
<1>5. Len(recvbuf) <= Size /\ ~(Len(recvbuf) + Len(net) >= Size)
  <2>1. Len(recvbuf) = 0 /\ Len(net) = 0
    BY <1>1
  <2> QED BY <1>2, <2>1
<1>6. peak \in BOOLEAN /\ overrun \in BOOLEAN /\ ~overrun
  BY <1>1, Zenon
<1> QED BY <1>4, <1>5, <1>6, Zenon DEF ReaderInv

\* The other steps leave the bytes and the lines alone.
LEMMA ReaderNextKeeps ==
  ASSUME ReaderInv, [ReaderNext]_readerVars
  PROVE  ReaderInv'
<1> DEFINE Same == UNCHANGED <<lens, net, recvbuf, got, peak, overrun>>
<1>1. CASE \E len \in Lengths : ServerSends(len)
  BY <1>1, ServerSendsKeeps
<1>2. CASE \E c \in 1 .. Len(net) : Recv(c)
  BY <1>2, RecvKeeps
<1>3. CASE TakeLine
  BY <1>3, TakeLineKeeps
<1>4. CASE RecvEof
  BY <1>4, RecvEofKeeps
<1>5. ASSUME Same PROVE ReaderInv'
  BY <1>5, Zenon DEF ReaderInv, Handed
<1>6. CASE ServerCloses \/ PollIn \/ RecvAgain \/ LinesDone
  <2>1. Same
    BY <1>6 DEF ServerCloses, PollIn, RecvAgain, LinesDone
  <2> QED BY <1>5, <2>1
<1>7. CASE UNCHANGED readerVars
  <2>1. Same
    BY <1>7 DEF readerVars
  <2> QED BY <1>5, <2>1
<1> QED BY <1>1, <1>2, <1>3, <1>4, <1>6, <1>7, Zenon DEF ReaderNext

\* As long as fewer than Size bytes wait in the kernel and in recvbuf together, every
\* line of the server reaches the plugins once, in order and whole up to LineMax,
\* wherever recv splits the stream (sock.c:115, irc.c:391-394).
THEOREM LineReaderLossless ==
  ReaderSpec => []Lossless
<1>1. ReaderInit => ReaderInv
  BY ReaderStarts
<1>2. ReaderInv /\ [ReaderNext]_readerVars => ReaderInv'
  BY ReaderNextKeeps
<1>3. ReaderInv => Lossless
  BY LosslessIs, Zenon DEF ReaderInv
<1> QED BY <1>1, <1>2, <1>3, PTL DEF ReaderSpec
=============================================================================
