----------------------------- MODULE ListProofs -----------------------------
(***************************************************************************)
(* Lemmas about lists that the proofs of several modules need: induction   *)
(* over positions, lines put behind one another, and the entries that a    *)
(* deleting walk leaves.                                                   *)
(***************************************************************************)
EXTENDS Lists, SequencesExt, SequenceTheorems, FiniteSetTheorems, WellFoundedInduction, TLAPS

\* Induction over numbers, as a fact about the set of those that have been shown.
LEMMA Inductive ==
  ASSUME NEW T, 0 \in T, \A n \in Nat : n \in T => n + 1 \in T
  PROVE  Nat \subseteq T
<1> SUFFICES ASSUME Nat \ T # {} PROVE FALSE
  OBVIOUS
<1>1. PICK i \in Nat \ T : \A j \in Nat \ T : ~ (<<j, i>> \in OpToRel(<, Nat))
  <2>1. Nat \ T \subseteq Nat
    OBVIOUS
  <2> QED BY <2>1, NatLessThanWellFounded, WFMin, Zenon
<1>2. i # 0 /\ i - 1 \in Nat
  OBVIOUS
<1>3. i - 1 \in T
  <2>1. ASSUME i - 1 \notin T PROVE FALSE
    <3>1. i - 1 \in Nat \ T
      BY <1>2, <2>1
    <3>2. ~ (<<i - 1, i>> \in {ss \in Nat \X Nat : ss[1] < ss[2]})
      BY <1>1, <3>1 DEF OpToRel
    <3> QED BY <1>2, <3>2
  <2> QED BY <2>1
<1> QED BY <1>2, <1>3

\* The same for the numbers up to the length of a list.
LEMMA InductiveUpTo ==
  ASSUME NEW N \in Nat, NEW T, 0 \in T, \A n \in 0 .. N - 1 : n \in T => n + 1 \in T
  PROVE  0 .. N \subseteq T
<1> DEFINE U == {n \in Nat : n <= N => n \in T}
<1>1. 0 \in U
  OBVIOUS
<1>2. ASSUME NEW n \in Nat, n \in U PROVE n + 1 \in U
  BY <1>2
<1> HIDE DEF U
<1>3. Nat \subseteq U
  BY <1>1, <1>2, Inductive
<1> QED BY <1>3 DEF U

\* Every set of numbers that is not empty has a least one.
LEMMA LeastIn ==
  ASSUME NEW I, I \subseteq Nat, I # {}
  PROVE  \E i \in I : \A j \in I : i <= j
<1>1. PICK i \in I : \A j \in I : ~ (<<j, i>> \in OpToRel(<, Nat))
  BY NatLessThanWellFounded, WFMin, Zenon
<1>2. ASSUME NEW j \in I PROVE i <= j
  <2>1. ~ (<<j, i>> \in {ss \in Nat \X Nat : ss[1] < ss[2]})
    BY <1>1 DEF OpToRel
  <2> QED BY <2>1
<1> QED BY <1>2

\* The least of the positions where something is found.
LEMMA MinIs ==
  ASSUME NEW I, I \subseteq Nat, I # {}
  PROVE  Min(I) \in I /\ \A j \in I : Min(I) <= j
<1>1. \E i \in I : \A j \in I : i <= j
  BY LeastIn
<1> QED BY <1>1, Zenon DEF Min

\* The greatest of them.
LEMMA MaxIs ==
  ASSUME NEW N \in Nat, NEW I, I \subseteq 1 .. N, I # {}
  PROVE  Max(I) \in I /\ \A j \in I : Max(I) >= j
<1> DEFINE J == {N - i : i \in I}
<1>1. J \subseteq Nat /\ J # {}
  <2>1. ASSUME NEW j \in J PROVE j \in Nat
    <3>1. PICK i \in I : j = N - i
      OBVIOUS
    <3>2. i \in 1 .. N
      OBVIOUS
    <3> QED BY <3>1, <3>2
  <2>2. PICK i \in I : TRUE
    OBVIOUS
  <2>3. N - i \in J
    OBVIOUS
  <2> HIDE DEF J
  <2> QED BY <2>1, <2>3
<1> HIDE DEF J
<1>2. PICK k \in J : \A j \in J : k <= j
  BY <1>1, LeastIn
<1>3. PICK i \in I : k = N - i
  BY DEF J
<1>4. \A j \in I : i >= j
  <2> TAKE j \in I
  <2>1. k <= N - j
    BY <1>2 DEF J
  <2> QED BY <1>3, <2>1
<1>5. \E m \in I : \A j \in I : m >= j
  BY <1>4
<1> QED BY <1>5, Zenon DEF Max

\* A list that names every member of a set once is as long as the set is large.
LEMMA CountIs ==
  ASSUME NEW N \in Nat, NEW K, NEW key \in [1 .. N -> K],
         \A i, j \in 1 .. N : key[i] = key[j] => i = j,
         \A x \in K : \E i \in 1 .. N : key[i] = x
  PROVE  IsFiniteSet(K) /\ Cardinality(K) = N
<1>1. IsFiniteSet(1 .. N) /\ Cardinality(1 .. N) = N
  BY FS_Interval
<1>2. key \in Bijection(1 .. N, K)
  <2>1. key \in Injection(1 .. N, K)
    BY DEF Injection, IsInjective
  <2>2. key \in Surjection(1 .. N, K)
    BY DEF Surjection
  <2> QED BY <2>1, <2>2, Zenon DEF Bijection
<1>3. ExistsBijection(1 .. N, K)
  BY <1>2, Zenon DEF ExistsBijection
<1> QED BY <1>1, <1>3, FS_Bijection

-----------------------------------------------------------------------------
(* Walks over a list that carry a value from entry to entry.                *)

\* The values along the walk: f[n] is the value behind the first n entries.
Walk(N, x, step, f) == f = [n \in 0 .. N |-> IF n = 0 THEN x ELSE step[<<n, f[n - 1]>>]]

\* A walk ends, whatever its step computes.
LEMMA WalkExists ==
  ASSUME NEW N \in Nat, NEW x, NEW step
  PROVE  \E f : Walk(N, x, step, f)
<1> DEFINE T == {n \in Nat : \E f : Walk(n, x, step, f)}
<1>1. 0 \in T
  <2> DEFINE g == [n \in 0 .. 0 |-> x]
  <2>1. \A n \in 0 .. 0 : n = 0
    OBVIOUS
  <2>2. g = [n \in 0 .. 0 |-> IF n = 0 THEN x ELSE step[<<n, g[n - 1]>>]]
    BY <2>1
  <2> HIDE DEF g
  <2>3. Walk(0, x, step, g)
    BY <2>2, Zenon DEF Walk
  <2> QED BY <2>3
<1>2. ASSUME NEW n \in Nat, n \in T PROVE n + 1 \in T
  <2>1. PICK f : Walk(n, x, step, f)
    BY <1>2
  <2> DEFINE a == n + 1
             last == step[<<a, f[n]>>]
             g == [i \in 0 .. a |-> IF i = a THEN last ELSE f[i]]
  <2>2. /\ \A i \in 0 .. a : i # a => i \in 0 .. n
        /\ \A i \in 0 .. a : i # 0 => i - 1 \in 0 .. a /\ i - 1 # a
        /\ a \in 0 .. a /\ a - 1 = n /\ a \in Nat /\ a # 0
    OBVIOUS
  <2>3. \A i \in 0 .. n : f[i] = IF i = 0 THEN x ELSE step[<<i, f[i - 1]>>]
    BY <2>1, Zenon DEF Walk
  <2>4. last = step[<<a, f[n]>>]
    OBVIOUS
  <2> HIDE DEF a, last
  <2>5. g = [i \in 0 .. a |-> IF i = a THEN last ELSE f[i]]
    OBVIOUS
  <2>6. \A i \in 0 .. a : g[i] = IF i = a THEN last ELSE f[i]
    BY <2>5, Zenon
  <2> HIDE DEF g
  <2>7. ASSUME NEW i \in 0 .. a
        PROVE  g[i] = IF i = 0 THEN x ELSE step[<<i, g[i - 1]>>]
    <3>1. CASE i # a
      <4>1. i \in 0 .. n /\ (i # 0 => i - 1 \in 0 .. a /\ i - 1 # a)
        BY <2>2, <3>1
      <4>2. g[i] = f[i] /\ (i # 0 => g[i - 1] = f[i - 1])
        BY <2>6, <3>1, <4>1, Zenon
      <4>3. f[i] = IF i = 0 THEN x ELSE step[<<i, f[i - 1]>>]
        BY <2>3, <4>1, Zenon
      <4> QED BY <4>2, <4>3, Zenon
    <3>2. CASE i = a
      <4>1. g[a] = last /\ g[a - 1] = f[n]
        BY <2>2, <2>6, Zenon
      <4> QED BY <2>2, <2>4, <3>2, <4>1, Zenon
    <3> QED BY <3>1, <3>2
  <2>8. g = [i \in 0 .. a |-> IF i = 0 THEN x ELSE step[<<i, g[i - 1]>>]]
    <3> DEFINE h == [i \in 0 .. a |-> IF i = 0 THEN x ELSE step[<<i, g[i - 1]>>]]
    <3>1. \A i \in 0 .. a : g[i] = h[i]
      BY <2>7, Zenon
    <3>2. g = [i \in 0 .. a |-> g[i]] /\ h = [i \in 0 .. a |-> h[i]]
      BY <2>5
    <3> HIDE DEF h
    <3>3. [i \in 0 .. a |-> g[i]] = [i \in 0 .. a |-> h[i]]
      BY <3>1
    <3>4. g = h
      BY <3>2, <3>3, Zenon
    <3> QED BY <3>4 DEF h
  <2>9. Walk(a, x, step, g)
    BY <2>8, Zenon DEF Walk
  <2>10. a \in T
    BY <2>2, <2>9
  <2> QED BY <2>10 DEF a
<1> HIDE DEF T
<1>3. Nat \subseteq T
  BY <1>1, <1>2, Inductive
<1> QED BY <1>3 DEF T

\* What a walk makes of a value is what its last step makes of it.
LEMMA ThroughIs ==
  ASSUME NEW N \in Nat, NEW x, NEW step
  PROVE  \E f : /\ f[0] = x /\ Through(N, x, step) = f[N]
                /\ \A n \in 1 .. N : f[n] = step[<<n, f[n - 1]>>]
<1> DEFINE Up(f) == f = [n \in 0 .. N |-> IF n = 0 THEN x ELSE step[<<n, f[n - 1]>>]]
           u == CHOOSE f : Up(f)
<1>1. Through(N, x, step) = u[N]
  BY Zenon DEF Through
<1>2. \E f : Up(f)
  <2>1. PICK f : Walk(N, x, step, f)
    BY WalkExists
  <2>2. Up(f)
    BY <2>1, Zenon DEF Walk
  <2> QED BY <2>2
<1>3. Up(u)
  BY <1>2, Zenon
<1> HIDE DEF u
<1>4. \A n \in 0 .. N : u[n] = IF n = 0 THEN x ELSE step[<<n, u[n - 1]>>]
  BY <1>3, Zenon
<1>5. 0 \in 0 .. N /\ \A n \in 1 .. N : n \in 0 .. N /\ n # 0
  OBVIOUS
<1>6. u[0] = x /\ \A n \in 1 .. N : u[n] = step[<<n, u[n - 1]>>]
  BY <1>4, <1>5, Zenon
<1> QED BY <1>1, <1>6, Zenon

-----------------------------------------------------------------------------
(* Sublist: what a deleting walk leaves.                                    *)

\* at says where the entries of r stand in s: in their order, at the positions
\* up to n that are in I, at all of them.
Stands(s, I, n, r, at) ==
  /\ at \in [1 .. Len(r) -> 1 .. n]
  /\ \A k \in 1 .. Len(r) : at[k] \in I /\ r[k] = s[at[k]]
  /\ \A k, m \in 1 .. Len(r) : k < m => at[k] < at[m]
  /\ \A i \in 1 .. n : i \in I => \E k \in 1 .. Len(r) : at[k] = i

\* An entry more that stays comes last.
LEMMA StandsOneMore ==
  ASSUME NEW S, NEW s \in Seq(S), NEW I, NEW n \in Nat, n + 1 <= Len(s),
         NEW r \in Seq(S), NEW at, Stands(s, I, n, r, at), n + 1 \in I
  PROVE  Append(r, s[n + 1]) \in Seq(S) /\ \E new : Stands(s, I, n + 1, Append(r, s[n + 1]), new)
<1> DEFINE a == n + 1
           e == s[a]
           q == Append(r, e)
           K == Len(r)
           L == Len(q)
<1>1. /\ a \in Nat /\ a \in I /\ a = n + 1 /\ a \in 1 .. a
      /\ e \in S /\ e = s[a]
  BY ElementOfSeq, LenProperties
<1>2. /\ q \in Seq(S) /\ L = K + 1 /\ K \in Nat /\ q[L] = e
      /\ \A k \in 1 .. K : q[k] = r[k]
  BY <1>1, AppendProperties, LenProperties
<1>3. /\ at \in [1 .. K -> 1 .. n]
      /\ \A k \in 1 .. K : at[k] \in I /\ r[k] = s[at[k]]
      /\ \A k, m \in 1 .. K : k < m => at[k] < at[m]
      /\ \A i \in 1 .. n : i \in I => \E k \in 1 .. K : at[k] = i
  BY DEF Stands
<1> HIDE DEF a, e, q, K, L
<1> DEFINE new == [k \in 1 .. L |-> IF k = L THEN a ELSE at[k]]
<1>4. /\ new \in [1 .. L -> 1 .. a] /\ new[L] = a
      /\ \A k \in 1 .. K : k \in 1 .. L /\ new[k] = at[k] /\ at[k] \in 1 .. n /\ at[k] < a
      /\ \A k \in 1 .. L : k = L \/ k \in 1 .. K
      /\ L \in 1 .. L
  BY <1>1, <1>2, <1>3
<1> HIDE DEF new
<1>5. \A k \in 1 .. L : new[k] \in I /\ q[k] = s[new[k]]
  BY <1>1, <1>2, <1>3, <1>4, Zenon
<1>6. ASSUME NEW k \in 1 .. L, NEW m \in 1 .. L, k < m PROVE new[k] < new[m]
  <2>1. k \in 1 .. K /\ k # L
    BY <1>2, <1>6
  <2>2. CASE m = L
    BY <1>4, <2>1, <2>2
  <2>3. CASE m # L
    BY <1>3, <1>4, <1>6, <2>1, <2>3
  <2> QED BY <2>2, <2>3
<1>7. ASSUME NEW i \in 1 .. a, i \in I PROVE \E k \in 1 .. L : new[k] = i
  <2>1. CASE i = a
    BY <1>4, <2>1
  <2>2. CASE i # a
    <3>1. i \in 1 .. n
      BY <1>1, <2>2
    <3> QED BY <1>3, <1>4, <1>7, <3>1, Zenon
  <2> QED BY <2>1, <2>2
<1>8. Stands(s, I, a, q, new)
  BY <1>4, <1>5, <1>6, <1>7 DEF Stands, L
<1> QED BY <1>2, <1>8 DEF a, e, q

\* A deleting walk leaves the entries at the positions I, each once, in their order.
LEMMA SublistIs ==
  ASSUME NEW S, NEW s \in Seq(S), NEW I
  PROVE  /\ Sublist(s, I) \in Seq(S)
         /\ \E at : Stands(s, I, Len(s), Sublist(s, I), at)
<1> DEFINE N == Len(s)
           step == [p \in (1 .. N) \X Seq(S) |-> IF p[1] \in I THEN Append(p[2], s[p[1]]) ELSE p[2]]
           Up(f) == f = [n \in 0 .. N |-> IF n = 0 THEN <<>>
                                          ELSE IF n \in I THEN Append(f[n - 1], s[n]) ELSE f[n - 1]]
           u == CHOOSE f : Up(f)
<1>1. N \in Nat /\ \A n \in 1 .. N : s[n] \in S
  BY LenProperties, ElementOfSeq
<1>2. Sublist(s, I) = u[N]
  BY Zenon DEF Sublist
<1>3. \E f : Up(f)
  <2>1. PICK f : Walk(N, <<>>, step, f)
    BY <1>1, WalkExists, Zenon
  <2>2. /\ f = [n \in 0 .. N |-> IF n = 0 THEN <<>> ELSE step[<<n, f[n - 1]>>]]
        /\ \A n \in 0 .. N : f[n] = IF n = 0 THEN <<>> ELSE step[<<n, f[n - 1]>>]
    BY <2>1, Zenon DEF Walk
  <2>3. ASSUME NEW n \in 1 .. N, NEW v \in Seq(S)
        PROVE  step[<<n, v>>] = (IF n \in I THEN Append(v, s[n]) ELSE v) /\ step[<<n, v>>] \in Seq(S)
    <3>1. <<n, v>> \in (1 .. N) \X Seq(S)
      OBVIOUS
    <3>2. step[<<n, v>>] = IF n \in I THEN Append(v, s[n]) ELSE v
      BY <3>1
    <3>3. Append(v, s[n]) \in Seq(S)
      BY <1>1, AppendProperties
    <3> HIDE DEF step
    <3> QED BY <3>2, <3>3, Zenon
  <2> HIDE DEF N, step
  <2> DEFINE T == {n \in 0 .. N : f[n] \in Seq(S)}
  <2>4. 0 \in T
    <3>1. 0 \in 0 .. N /\ f[0] = <<>>
      BY <1>1, <2>2
    <3> QED BY <3>1, EmptySeq
  <2>5. ASSUME NEW n \in 0 .. N - 1, n \in T PROVE n + 1 \in T
    <3> DEFINE a == n + 1
    <3>1. a \in 1 .. N /\ a - 1 = n /\ a \in 0 .. N /\ a # 0 /\ f[n] \in Seq(S)
      BY <1>1, <2>5
    <3> HIDE DEF a, T
    <3>2. f[a] \in Seq(S)
      BY <2>2, <2>3, <3>1, Zenon
    <3>3. a \in T
      BY <3>1, <3>2 DEF T
    <3> QED BY <3>3 DEF a
  <2> HIDE DEF T
  <2>6. 0 .. N \subseteq T
    BY <1>1, <2>4, <2>5, InductiveUpTo
  <2>7. ASSUME NEW n \in 0 .. N
        PROVE  f[n] = IF n = 0 THEN <<>> ELSE IF n \in I THEN Append(f[n - 1], s[n]) ELSE f[n - 1]
    <3>1. CASE n = 0
      BY <2>2, <3>1
    <3>2. CASE n # 0
      <4>1. n \in 1 .. N /\ n - 1 \in 0 .. N
        BY <1>1, <3>2
      <4>2. f[n - 1] \in Seq(S)
        BY <2>6, <4>1 DEF T
      <4> QED BY <2>2, <2>3, <3>2, <4>1, <4>2, Zenon
    <3> QED BY <3>1, <3>2
  <2>8. Up(f)
    <3> DEFINE h == [n \in 0 .. N |-> IF n = 0 THEN <<>>
                                      ELSE IF n \in I THEN Append(f[n - 1], s[n]) ELSE f[n - 1]]
    <3>1. \A n \in 0 .. N : f[n] = h[n]
      BY <2>7, Zenon
    <3>2. f = [n \in 0 .. N |-> f[n]] /\ h = [n \in 0 .. N |-> h[n]]
      BY <2>2, Zenon
    <3> HIDE DEF h
    <3>3. [n \in 0 .. N |-> f[n]] = [n \in 0 .. N |-> h[n]]
      BY <3>1
    <3>4. f = h
      BY <3>2, <3>3, Zenon
    <3> QED BY <3>4, Zenon DEF h
  <2> QED BY <2>8, Zenon DEF N
<1>4. Up(u)
  BY <1>3, Zenon
<1>5. \A n \in 0 .. N : u[n] = IF n = 0 THEN <<>>
                               ELSE IF n \in I THEN Append(u[n - 1], s[n]) ELSE u[n - 1]
  BY <1>4, Zenon
<1> HIDE DEF N, u
<1> DEFINE T == {n \in 0 .. N : u[n] \in Seq(S) /\ \E at : Stands(s, I, n, u[n], at)}
<1>6. 0 \in T
  <2>1. u[0] = <<>> /\ 0 \in 0 .. N
    BY <1>1, <1>5
  <2>2. Stands(s, I, 0, <<>>, <<>>)
    BY DEF Stands
  <2> QED BY <2>1, <2>2, EmptySeq
<1>7. ASSUME NEW n \in 0 .. N - 1, n \in T PROVE n + 1 \in T
  <2> DEFINE a == n + 1
  <2>1. /\ a \in 0 .. N /\ a # 0 /\ a - 1 = n /\ n \in Nat /\ a <= N
    BY <1>1
  <2>2. u[n] \in Seq(S)
    BY <1>7
  <2>3. PICK at : Stands(s, I, n, u[n], at)
    BY <1>7
  <2> DEFINE r == u[n]
  <2> HIDE DEF T
  <2>4. CASE a \in I
    <3>1. u[a] = Append(r, s[a])
      <4> HIDE DEF a
      <4> QED BY <1>5, <2>1, <2>4, Zenon
    <3> HIDE DEF r
    <3>2. r \in Seq(S) /\ Stands(s, I, n, r, at) /\ n + 1 <= Len(s) /\ n + 1 \in I
      BY <2>1, <2>2, <2>3, <2>4 DEF r, N
    <3>3. Append(r, s[n + 1]) \in Seq(S) /\ \E new : Stands(s, I, n + 1, Append(r, s[n + 1]), new)
      BY <2>1, <3>2, StandsOneMore
    <3> QED BY <2>1, <3>1, <3>3 DEF T
  <2>5. CASE a \notin I
    <3>1. u[a] = r
      <4> HIDE DEF a
      <4> QED BY <1>5, <2>1, <2>5, Zenon
    <3> HIDE DEF r
    <3>2. r \in Seq(S) /\ Stands(s, I, n, r, at)
      BY <2>2, <2>3 DEF r
    <3>3. Stands(s, I, a, r, at)
      <4>1. \A i \in 1 .. a : i = a \/ i \in 1 .. n
        BY <2>1
      <4>2. \A i \in 1 .. n : i \in 1 .. a
        BY <2>1
      <4> HIDE DEF a
      <4>3. at \in [1 .. Len(r) -> 1 .. a]
        BY <3>2, <4>2 DEF Stands
      <4>4. \A i \in 1 .. a : i \in I => \E k \in 1 .. Len(r) : at[k] = i
        BY <2>5, <3>2, <4>1, Zenon DEF Stands
      <4> QED BY <3>2, <4>3, <4>4 DEF Stands
    <3> QED BY <2>1, <3>1, <3>2, <3>3 DEF T
  <2> QED BY <2>4, <2>5
<1> HIDE DEF T
<1>8. 0 .. N \subseteq T
  BY <1>1, <1>6, <1>7, InductiveUpTo
<1>9. N \in T
  BY <1>1, <1>8
<1> QED BY <1>2, <1>9 DEF T, N

\* It leaves no more entries than there are.
LEMMA NotLonger ==
  ASSUME NEW K \in Nat, NEW N \in Nat, NEW at \in [1 .. K -> 1 .. N],
         \A k, m \in 1 .. K : k < m => at[k] < at[m]
  PROVE  K <= N
<1> DEFINE T == {k \in 0 .. K : k # 0 => at[k] >= k}
<1>1. 0 \in T
  OBVIOUS
<1>2. ASSUME NEW k \in 0 .. K - 1, k \in T PROVE k + 1 \in T
  <2>1. k + 1 \in 1 .. K /\ at[k + 1] \in 1 .. N
    OBVIOUS
  <2>2. CASE k = 0
    BY <2>1, <2>2
  <2>3. CASE k # 0
    <3>1. k \in 1 .. K /\ at[k] \in 1 .. N /\ at[k] >= k /\ at[k] < at[k + 1]
      BY <1>2, <2>1, <2>3
    <3> QED BY <2>1, <3>1
  <2> QED BY <2>2, <2>3
<1> HIDE DEF T
<1>3. 0 .. K \subseteq T
  BY <1>1, <1>2, InductiveUpTo
<1>4. K \in T
  BY <1>3
<1> QED BY <1>4 DEF T

\* What it leaves are the entries at the positions I.
LEMMA SublistEntries ==
  ASSUME NEW S, NEW s \in Seq(S), NEW I
  PROVE  /\ \A k \in 1 .. Len(Sublist(s, I)) : \E i \in 1 .. Len(s) : i \in I /\ Sublist(s, I)[k] = s[i]
         /\ \A i \in 1 .. Len(s) : i \in I => \E k \in 1 .. Len(Sublist(s, I)) : Sublist(s, I)[k] = s[i]
<1> DEFINE r == Sublist(s, I)
<1>1. PICK at : Stands(s, I, Len(s), r, at)
  BY SublistIs
<1> HIDE DEF r
<1>2. ASSUME NEW k \in 1 .. Len(r) PROVE \E i \in 1 .. Len(s) : i \in I /\ r[k] = s[i]
  <2>1. at[k] \in 1 .. Len(s) /\ at[k] \in I /\ r[k] = s[at[k]]
    BY <1>1 DEF Stands
  <2> QED BY <2>1
<1>3. ASSUME NEW i \in 1 .. Len(s), i \in I PROVE \E k \in 1 .. Len(r) : r[k] = s[i]
  <2>1. PICK k \in 1 .. Len(r) : at[k] = i
    BY <1>1, <1>3, Zenon DEF Stands
  <2>2. r[k] = s[at[k]]
    BY <1>1 DEF Stands
  <2> QED BY <2>1, <2>2
<1> QED BY <1>2, <1>3 DEF r

\* It is as many entries shorter as are deleted.
LEMMA SublistLength ==
  ASSUME NEW S, NEW s \in Seq(S), NEW D, D \subseteq 1 .. Len(s)
  PROVE  Cardinality(D) \in Nat /\ Len(Sublist(s, (1 .. Len(s)) \ D)) = Len(s) - Cardinality(D)
<1> DEFINE N == Len(s)
           I == (1 .. N) \ D
           r == Sublist(s, I)
<1>1. PICK at : Stands(s, I, N, r, at)
  BY SublistIs
<1>2. r \in Seq(S)
  BY SublistIs
<1>3. N \in Nat /\ Len(r) \in Nat
  BY <1>2, LenProperties
<1> HIDE DEF r
<1>4. at \in [1 .. Len(r) -> I]
  BY <1>1 DEF Stands
<1>5. ASSUME NEW k \in 1 .. Len(r), NEW m \in 1 .. Len(r), at[k] = at[m] PROVE k = m
  <2>1. (k < m => at[k] < at[m]) /\ (m < k => at[m] < at[k]) /\ at[k] \in 1 .. N /\ at[m] \in 1 .. N
    BY <1>1 DEF Stands
  <2> QED BY <1>3, <1>5, <2>1
<1>6. \A i \in I : \E k \in 1 .. Len(r) : at[k] = i
  BY <1>1, Zenon DEF Stands, I
<1> HIDE DEF I
<1>7. Cardinality(I) = Len(r)
  BY <1>3, <1>4, <1>5, <1>6, CountIs
<1>8. IsFiniteSet(1 .. N) /\ Cardinality(1 .. N) = N
  <2> HIDE DEF N
  <2>1. 1 \in Int /\ N \in Int
    BY <1>3
  <2>2. IsFiniteSet(1 .. N) /\ Cardinality(1 .. N) = IF 1 > N THEN 0 ELSE N - 1 + 1
    BY ONLY <2>1, FS_Interval
  <2> QED BY <1>3, <2>2
<1>9. Cardinality(I) = N - Cardinality((1 .. N) \cap D)
  BY <1>8, FS_Difference DEF I
<1>10. (1 .. N) \cap D = D
  OBVIOUS
<1>11. IsFiniteSet(D)
  BY <1>8, FS_Subset
<1>12. Cardinality(D) \in Nat
  BY <1>11, FS_CardinalityType
<1> QED BY <1>3, <1>7, <1>9, <1>10, <1>12 DEF r, I

-----------------------------------------------------------------------------
(* FlattenSeq: the lines put behind one another.                            *)

\* f is the function by which FlattenSeq is defined.
Flattening(seqs, f) ==
  f = [i \in 1 .. Len(seqs) |-> IF i = 1 THEN seqs[i] ELSE f[i - 1] \o seqs[i]]

\* The recursion by which FlattenSeq is defined has a solution.
LEMMA FlatteningExists ==
  ASSUME NEW S, NEW seqs \in Seq(S)
  PROVE  \E f : Flattening(seqs, f)
<1> DEFINE Good(n, f) == f = [i \in 1 .. n |-> IF i = 1 THEN seqs[i] ELSE f[i - 1] \o seqs[i]]
           T == {n \in Nat : \E f : Good(n, f)}
<1>1. 0 \in T
  <2>1. Good(0, <<>>)
    OBVIOUS
  <2> QED BY <2>1
<1>2. ASSUME NEW n \in Nat, n \in T PROVE n + 1 \in T
  <2>1. PICK f : Good(n, f)
    BY <1>2
  <2> DEFINE a == n + 1
             last == IF a = 1 THEN seqs[a] ELSE f[n] \o seqs[a]
             g == [i \in 1 .. a |-> IF i = a THEN last ELSE f[i]]
  <2>2. /\ \A i \in 1 .. a : i # a => i \in 1 .. n
        /\ \A i \in 1 .. a : i # 1 => i - 1 \in 1 .. a /\ i - 1 # a
        /\ a \in 1 .. a /\ a - 1 = n /\ a \in Nat
    OBVIOUS
  <2>3. \A i \in 1 .. n : f[i] = IF i = 1 THEN seqs[i] ELSE f[i - 1] \o seqs[i]
    BY <2>1, Zenon
  <2>4. last = IF a = 1 THEN seqs[a] ELSE f[n] \o seqs[a]
    OBVIOUS
  <2> HIDE DEF a, last, Good
  <2>5. g = [i \in 1 .. a |-> IF i = a THEN last ELSE f[i]]
    OBVIOUS
  <2>6. \A i \in 1 .. a : g[i] = IF i = a THEN last ELSE f[i]
    BY <2>5, Zenon
  <2> HIDE DEF g
  <2>7. ASSUME NEW i \in 1 .. a
        PROVE  g[i] = IF i = 1 THEN seqs[i] ELSE g[i - 1] \o seqs[i]
    <3>1. CASE i # a
      <4>1. i \in 1 .. n /\ (i # 1 => i - 1 \in 1 .. a /\ i - 1 # a)
        BY <2>2, <3>1
      <4>2. g[i] = f[i] /\ (i # 1 => g[i - 1] = f[i - 1])
        BY <2>6, <3>1, <4>1, Zenon
      <4>3. f[i] = IF i = 1 THEN seqs[i] ELSE f[i - 1] \o seqs[i]
        BY <2>3, <4>1, Zenon
      <4> QED BY <4>2, <4>3, Zenon
    <3>2. CASE i = a
      <4>1. g[a] = last /\ (a # 1 => g[a - 1] = f[n])
        BY <2>2, <2>6, Zenon
      <4> QED BY <2>4, <3>2, <4>1, Zenon
    <3> QED BY <3>1, <3>2
  <2>8. g = [i \in 1 .. a |-> IF i = 1 THEN seqs[i] ELSE g[i - 1] \o seqs[i]]
    <3> DEFINE h == [i \in 1 .. a |-> IF i = 1 THEN seqs[i] ELSE g[i - 1] \o seqs[i]]
    <3>1. \A i \in 1 .. a : g[i] = h[i]
      BY <2>7, Zenon
    <3>2. g = [i \in 1 .. a |-> g[i]] /\ h = [i \in 1 .. a |-> h[i]]
      BY <2>5
    <3> HIDE DEF h
    <3>3. [i \in 1 .. a |-> g[i]] = [i \in 1 .. a |-> h[i]]
      BY <3>1
    <3>4. g = h
      BY <3>2, <3>3, Zenon
    <3> QED BY <3>4 DEF h
  <2>9. Good(a, g)
    BY <2>8 DEF Good
  <2>10. a \in T
    BY <2>2, <2>9
  <2> QED BY <2>10 DEF a
<1> HIDE DEF T
<1>3. Nat \subseteq T
  BY <1>1, <1>2, Inductive
<1>4. Len(seqs) \in Nat
  BY LenProperties
<1> QED BY <1>3, <1>4 DEF T, Flattening

\* The function by which FlattenSeq is defined, for a given list.
Flattened(seqs) == CHOOSE f : Flattening(seqs, f)

\* What FlattenSeq is, step by step from the left.
LEMMA FlattenedIs ==
  ASSUME NEW S, NEW seqs \in Seq(S)
  PROVE  /\ Len(seqs) = 0 => FlattenSeq(seqs) = <<>>
         /\ Len(seqs) # 0 => FlattenSeq(seqs) = Flattened(seqs)[Len(seqs)]
         /\ \A i \in 1 .. Len(seqs) : Flattened(seqs)[i] =
              IF i = 1 THEN seqs[i] ELSE Flattened(seqs)[i - 1] \o seqs[i]
<1>1. Flattening(seqs, Flattened(seqs))
  BY FlatteningExists, Zenon DEF Flattened
<1>2. Len(seqs) # 0 => FlattenSeq(seqs) = Flattened(seqs)[Len(seqs)]
  BY Zenon DEF FlattenSeq, Flattened, Flattening
<1>3. Len(seqs) = 0 => FlattenSeq(seqs) = <<>>
  BY EmptySeq DEF FlattenSeq
<1> DEFINE f == Flattened(seqs)
<1>4. f = [i \in 1 .. Len(seqs) |-> IF i = 1 THEN seqs[i] ELSE f[i - 1] \o seqs[i]]
  BY <1>1 DEF Flattening
<1> HIDE DEF f
<1>5. \A i \in 1 .. Len(seqs) : f[i] = IF i = 1 THEN seqs[i] ELSE f[i - 1] \o seqs[i]
  BY <1>4, Zenon
<1> QED BY <1>2, <1>3, <1>5 DEF f

\* Flattening a list of lines gives a line.
LEMMA FlattenType ==
  ASSUME NEW A, NEW seqs \in Seq(Seq(A))
  PROVE  /\ FlattenSeq(seqs) \in Seq(A)
         /\ \A i \in 1 .. Len(seqs) : Flattened(seqs)[i] \in Seq(A)
<1> DEFINE f == Flattened(seqs)
           N == Len(seqs)
           T == {n \in 0 .. N : n # 0 => f[n] \in Seq(A)}
<1>1. /\ N = 0 => FlattenSeq(seqs) = <<>>
      /\ N # 0 => FlattenSeq(seqs) = f[N]
      /\ \A i \in 1 .. N : f[i] = IF i = 1 THEN seqs[i] ELSE f[i - 1] \o seqs[i]
  BY FlattenedIs
<1>2. N \in Nat /\ \A i \in 1 .. N : seqs[i] \in Seq(A)
  BY LenProperties, ElementOfSeq
<1> HIDE DEF f, N
<1>3. 0 \in T
  BY <1>2
<1>4. ASSUME NEW n \in 0 .. N - 1, n \in T PROVE n + 1 \in T
  <2>1. CASE n = 0
    <3>1. f[1] = seqs[1] /\ seqs[1] \in Seq(A)
      BY <1>1, <1>2
    <3> QED BY <1>2, <2>1, <3>1
  <2>2. CASE n # 0
    <3>1. n + 1 \in 1 .. N /\ n + 1 # 1 /\ n + 1 - 1 = n
      BY <1>2, <2>2
    <3> DEFINE a == n + 1
    <3>2. f[n] \in Seq(A) /\ a \in 1 .. N /\ a # 1 /\ a - 1 = n /\ a \in 0 .. N
      BY <1>2, <1>4, <2>2, <3>1
    <3> HIDE DEF a, T
    <3>3. f[a] = f[n] \o seqs[a]
      BY <1>1, <3>2, Zenon
    <3>4. seqs[a] \in Seq(A)
      BY <1>2, <3>2
    <3>5. f[a] \in Seq(A)
      BY <3>2, <3>3, <3>4, ConcatProperties
    <3>6. a \in T
      BY <3>2, <3>5 DEF T
    <3> QED BY <3>6 DEF a
  <2> QED BY <2>1, <2>2
<1> HIDE DEF T
<1>5. 0 .. N \subseteq T
  BY <1>2, <1>3, <1>4, InductiveUpTo
<1>6. \A i \in 1 .. N : f[i] \in Seq(A)
  BY <1>2, <1>5 DEF T
<1>7. FlattenSeq(seqs) \in Seq(A)
  <2>1. CASE N = 0
    BY <1>1, <2>1, EmptySeq
  <2>2. CASE N # 0
    <3>1. N \in 1 .. N
      BY <1>2, <2>2
    <3> QED BY <1>1, <1>6, <2>2, <3>1
  <2> QED BY <2>1, <2>2
<1> QED BY <1>6, <1>7 DEF f, N

\* Lists that agree up to a position are flattened alike up to there.
LEMMA FlattenAgree ==
  ASSUME NEW S, NEW s \in Seq(S), NEW t \in Seq(S), NEW N \in Nat,
         N <= Len(s), N <= Len(t), \A i \in 1 .. N : s[i] = t[i]
  PROVE  \A i \in 1 .. N : Flattened(s)[i] = Flattened(t)[i]
<1> DEFINE f == Flattened(s)
           g == Flattened(t)
           T == {n \in 0 .. N : n # 0 => f[n] = g[n]}
           K == Len(s)
           M == Len(t)
<1>1. /\ K \in Nat /\ M \in Nat /\ N <= K /\ N <= M
      /\ \A i \in 1 .. K : f[i] = IF i = 1 THEN s[i] ELSE f[i - 1] \o s[i]
      /\ \A i \in 1 .. M : g[i] = IF i = 1 THEN t[i] ELSE g[i - 1] \o t[i]
  BY FlattenedIs, LenProperties
<1> HIDE DEF f, g, K, M
<1>2. 0 \in T
  OBVIOUS
<1>3. ASSUME NEW n \in 0 .. N - 1, n \in T PROVE n + 1 \in T
  <2> DEFINE a == n + 1
  <2>1. /\ a \in 1 .. K /\ a \in 1 .. M /\ a \in 1 .. N /\ a \in 0 .. N /\ a - 1 = n
        /\ (n # 0 => a # 1)
        /\ s[a] = t[a] /\ (n = 0 => a = 1)
    BY <1>1
  <2>2. n # 0 => f[n] = g[n]
    BY <1>3
  <2> HIDE DEF a
  <2>3. f[a] = g[a]
    <3>1. CASE n = 0
      BY <1>1, <2>1, <3>1
    <3>2. CASE n # 0
      <4>1. f[a] = f[n] \o s[a] /\ g[a] = g[n] \o t[a]
        BY <1>1, <2>1, <3>2, Zenon
      <4> QED BY <2>1, <2>2, <3>2, <4>1, Zenon
    <3> QED BY <3>1, <3>2
  <2>4. a \in T
    BY <2>1, <2>3
  <2> QED BY <2>4 DEF a
<1> HIDE DEF T
<1>4. 0 .. N \subseteq T
  BY <1>2, <1>3, InductiveUpTo
<1> QED BY <1>4 DEF T, f, g

\* A line more comes last.
LEMMA FlattenAppend ==
  ASSUME NEW A, NEW seqs \in Seq(Seq(A)), NEW t \in Seq(A)
  PROVE  FlattenSeq(Append(seqs, t)) = FlattenSeq(seqs) \o t
<1> DEFINE more == Append(seqs, t)
           N == Len(seqs)
           M == Len(more)
           f == Flattened(seqs)
           g == Flattened(more)
           all == FlattenSeq(seqs)
           now == FlattenSeq(more)
<1>1. /\ more \in Seq(Seq(A)) /\ M = N + 1 /\ more[N + 1] = t
      /\ \A i \in 1 .. N : more[i] = seqs[i]
      /\ N \in Nat
  BY AppendProperties, LenProperties
<1>2. /\ M # 0 => now = g[M]
      /\ \A i \in 1 .. M : g[i] = IF i = 1 THEN more[i] ELSE g[i - 1] \o more[i]
  <2>1. more \in Seq(Seq(A))
    BY <1>1
  <2> HIDE DEF more
  <2> QED BY <2>1, FlattenedIs
<1>3. \A i \in 1 .. N : g[i] = f[i]
  <2>1. /\ N <= Len(more) /\ N <= Len(seqs) /\ more \in Seq(Seq(A))
        /\ \A i \in 1 .. N : more[i] = seqs[i]
    BY <1>1
  <2> HIDE DEF more, N
  <2> QED BY <1>1, <2>1, FlattenAgree
<1>4. /\ N = 0 => all = <<>>
      /\ N # 0 => all = f[N]
  BY FlattenedIs
<1> HIDE DEF more, N, M, f, g, all, now
<1>5. M \in 1 .. M /\ M # 0 /\ more[M] = t /\ M - 1 = N
  BY <1>1
<1>6. now = g[M] /\ g[M] = IF M = 1 THEN t ELSE g[N] \o t
  BY <1>2, <1>5, Zenon
<1>7. CASE N = 0
  <2>1. now = t /\ all = <<>>
    BY <1>1, <1>4, <1>6, <1>7
  <2>2. now = all \o t
    BY <2>1, ConcatEmptySeq
  <2> QED BY <2>2 DEF now, all, more
<1>8. CASE N # 0
  <2>1. g[N] = f[N] /\ all = f[N] /\ M # 1
    BY <1>1, <1>3, <1>4, <1>8
  <2>2. now = all \o t
    BY <1>6, <2>1, Zenon
  <2> QED BY <2>2 DEF now, all, more
<1> QED BY <1>7, <1>8

\* A line taken from the front was the first.
LEMMA FlattenHeadTail ==
  ASSUME NEW A, NEW seqs \in Seq(Seq(A)), seqs # <<>>
  PROVE  FlattenSeq(seqs) = Head(seqs) \o FlattenSeq(Tail(seqs))
<1> DEFINE rest == Tail(seqs)
           M == Len(seqs)
           N == Len(rest)
           f == Flattened(seqs)
           g == Flattened(rest)
           h == Head(seqs)
           all == FlattenSeq(seqs)
           behind == FlattenSeq(rest)
<1>1. /\ rest \in Seq(Seq(A)) /\ N \in Nat /\ M = N + 1
      /\ \A i \in 1 .. N : rest[i] = seqs[i + 1]
      /\ h = seqs[1] /\ M \in Nat
  BY EmptySeq, LenProperties, HeadTailProperties
<1>2. /\ M # 0 => all = f[M]
      /\ \A i \in 1 .. M : f[i] = IF i = 1 THEN seqs[i] ELSE f[i - 1] \o seqs[i]
      /\ \A i \in 1 .. M : seqs[i] \in Seq(A)
  BY FlattenedIs, ElementOfSeq
<1>3. /\ N = 0 => behind = <<>>
      /\ N # 0 => behind = g[N]
      /\ \A i \in 1 .. N : g[i] = IF i = 1 THEN rest[i] ELSE g[i - 1] \o rest[i]
      /\ \A i \in 1 .. N : g[i] \in Seq(A) /\ rest[i] \in Seq(A)
  <2>1. rest \in Seq(Seq(A))
    BY <1>1
  <2> HIDE DEF rest
  <2> QED BY <2>1, FlattenedIs, FlattenType, ElementOfSeq
<1> HIDE DEF rest, M, N, f, g, h, all, behind
<1> DEFINE T == {n \in 0 .. N : f[n + 1] = h \o (IF n = 0 THEN <<>> ELSE g[n])}
<1>4. h \in Seq(A) /\ h \o <<>> = h /\ f[1] = h
  <2>1. 1 \in 1 .. M
    BY <1>1
  <2>2. h \in Seq(A) /\ f[1] = h
    BY <1>1, <1>2, <2>1, Zenon
  <2> QED BY <2>2, ConcatEmptySeq
<1>5. 0 \in T
  BY <1>1, <1>4
<1>6. ASSUME NEW n \in 0 .. N - 1, n \in T PROVE n + 1 \in T
  <2> DEFINE a == n + 1
             b == n + 2
  <2>1. /\ b \in 1 .. M /\ b # 1 /\ b - 1 = a /\ a \in 1 .. N /\ a \in 0 .. N /\ a # 0
        /\ a + 1 = b /\ a - 1 = n /\ (n # 0 => a # 1 /\ n \in 1 .. N) /\ (n = 0 => a = 1)
    BY <1>1
  <2>2. f[a] = h \o (IF n = 0 THEN <<>> ELSE g[n])
    BY <1>6
  <2> HIDE DEF a, b, T
  <2>3. f[b] = f[a] \o rest[a]
    <3>1. f[b] = f[a] \o seqs[b]
      BY <1>2, <2>1, Zenon
    <3>2. rest[a] = seqs[b]
      BY <1>1, <2>1, Zenon
    <3> QED BY <3>1, <3>2
  <2>4. f[b] = h \o g[a]
    <3>1. CASE n = 0
      <4>1. g[a] = rest[a] /\ f[a] = h
        BY <1>3, <1>4, <2>1, <2>2, <3>1
      <4> QED BY <2>3, <4>1, Zenon
    <3>2. CASE n # 0
      <4>1. g[a] = g[n] \o rest[a]
        BY <1>3, <2>1, <3>2, Zenon
      <4>2. f[a] = h \o g[n]
        BY <2>2, <3>2
      <4>3. g[n] \in Seq(A) /\ rest[a] \in Seq(A)
        BY <1>3, <2>1, <3>2, Zenon
      <4>4. (h \o g[n]) \o rest[a] = h \o (g[n] \o rest[a])
        <5> DEFINE x == g[n]
                   y == rest[a]
        <5>1. x \in Seq(A) /\ y \in Seq(A) /\ h \in Seq(A)
          BY <1>4, <4>3
        <5> HIDE DEF x, y
        <5>2. (h \o x) \o y = h \o (x \o y)
          BY ONLY <5>1, ConcatAssociative
        <5> QED BY <5>2 DEF x, y
      <4> QED BY <2>3, <4>1, <4>2, <4>4, Zenon
    <3> QED BY <3>1, <3>2
  <2>5. f[a + 1] = h \o (IF a = 0 THEN <<>> ELSE g[a])
    BY <2>1, <2>4
  <2>6. a \in T
    BY <2>1, <2>5, Zenon DEF T
  <2> QED BY <2>6 DEF a
<1> HIDE DEF T
<1>7. 0 .. N \subseteq T
  BY <1>1, <1>5, <1>6, InductiveUpTo
<1>8. f[N + 1] = h \o (IF N = 0 THEN <<>> ELSE g[N])
  <2>1. N \in 0 .. N
    BY <1>1
  <2> QED BY <1>7, <2>1 DEF T
<1>9. all = h \o behind
  <2>1. M # 0 /\ all = f[N + 1]
    BY <1>1, <1>2
  <2>2. CASE N = 0
    BY <1>3, <1>8, <2>1, <2>2
  <2>3. CASE N # 0
    BY <1>3, <1>8, <2>1, <2>3
  <2> QED BY <2>2, <2>3
<1> QED BY <1>9 DEF all, h, behind, rest
=============================================================================
