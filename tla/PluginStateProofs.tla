------------------------- MODULE PluginStateProofs -------------------------
(***************************************************************************)
(* Proofs about the plugins that keep state, for any values of their       *)
(* parameters.  UserDb: the database survives the process, and no level    *)
(* without a password.  Nick: the bot knows its nick.  Reminder: the right *)
(* person is reminded.  Eliza: who has left is spoken with no more.  Yx:   *)
(* the bot keeps its hours again a day after the machine slept.            *)
(* MessageInfo: a plugin gets the text and the arguments of its line.      *)
(***************************************************************************)
EXTENDS PluginState, ListProofs

\* A change of every entry leaves as many.
LEMMA Mapped ==
  ASSUME NEW S, NEW T, NEW rs \in Seq(S), NEW f \in [S -> T]
  PROVE  LET ts == [i \in DOMAIN rs |-> f[rs[i]]]
         IN  ts \in Seq(T) /\ Len(ts) = Len(rs) /\ DOMAIN ts = DOMAIN rs
             /\ \A i \in DOMAIN rs : ts[i] = f[rs[i]] /\ rs[i] \in S
<1> DEFINE K == Len(rs)
           ts == [i \in 1 .. K |-> f[rs[i]]]
<1>1. K \in Nat /\ DOMAIN rs = 1 .. K /\ \A i \in 1 .. K : rs[i] \in S
  BY LenProperties, ElementOfSeq
<1>2. \A i \in 1 .. K : f[rs[i]] \in T
  BY <1>1
<1>3. ts \in Seq(T) /\ Len(ts) = K /\ DOMAIN ts = 1 .. K
  BY <1>1, <1>2
<1> QED
  BY <1>1, <1>3

-----------------------------------------------------------------------------
(* UserDb *)

\* What is said of memory: the ident is what malloc found, empty, or the sender who gave the password
\* last; logins are those of the first user of a name.
FirstNamed(i) == \A j \in DOMAIN users : j < i => users[j].name # users[i].name

Earned ==
  \A i \in DOMAIN users :
    \/ users[i].found \/ users[i].ident = NoIdent
    \/ users[i].ident = session[users[i].name] /\ FirstNamed(i)

\* What is said of the disk: the new file is the beginning of the list until it takes the old one's place.
Beginning == Len(tmp) <= Len(users) /\ \A i \in 1 .. Len(tmp) : tmp[i] = Records(users)[i]

Survives ==
  /\ whole = "file" => file = saved
  /\ whole = "tmp" => tmp = saved /\ file = Absent

Written ==
  /\ store \in {"write", "closed", "unlinked"} => tmp \in Seq(Record) /\ Beginning
  /\ store \in {"write", "closed"} => whole # "tmp"
  /\ Survives

Inv == TypeOK /\ Earned /\ Written

-----------------------------------------------------------------------------
\* The records of a list of users are as many as the users, and each is the user's (auth.c:103).
LEMMA RecordsTyped ==
  ASSUME NEW us \in Seq(User)
  PROVE  /\ Records(us) \in Seq(Record) /\ Len(Records(us)) = Len(us)
         /\ \A i \in 1 .. Len(us) : Records(us)[i] = [name |-> us[i].name, level |-> us[i].level]
<1> DEFINE rec(i) == [name |-> us[i].name, level |-> us[i].level]
<1>1. Len(us) \in Nat /\ DOMAIN us = 1 .. Len(us)
  BY LenProperties
<1>2. ASSUME NEW i \in 1 .. Len(us) PROVE rec(i) \in Record
  <2>1. us[i] \in User
    BY ElementOfSeq
  <2> QED
    BY <2>1 DEF User, Record
<1>3. Records(us) = [i \in 1 .. Len(us) |-> rec(i)]
  BY <1>1 DEF Records
<1> QED
  BY <1>1, <1>2, <1>3

\* The first user of a set of positions is in it, and before the others (auth.c:44-63).
LEMMA FirstIn ==
  ASSUME NEW is, is \subseteq Nat, is # {}
  PROVE  First(is) \in is /\ \A j \in is : First(is) <= j
<1>1. PICK i \in is : \A j \in is : ~ (<<j, i>> \in OpToRel(<, Nat))
  BY NatLessThanWellFounded, WFMin, Zenon
<1>2. ASSUME NEW j \in is PROVE i <= j
  <2>1. ~ (<<j, i>> \in {ss \in Nat \X Nat : ss[1] < ss[2]})
    BY <1>1 DEF OpToRel
  <2> QED
    BY <2>1
<1> QED
  BY <1>2 DEF First

\* A list as it is loaded has the records of the file, and idents that nobody has asked for
\* (auth.c:66, 270).
LEMMA LoadedTyped ==
  ASSUME NEW rs \in Seq(Record), NEW us \in Loaded(rs)
  PROVE  us \in Seq(User) /\ \A i \in DOMAIN us : us[i].found
<1>1. PICK g \in [DOMAIN rs -> Garbage] :
        us = [i \in DOMAIN rs |->
               [name |-> rs[i].name, level |-> rs[i].level, ident |-> g[i], found |-> TRUE]]
  BY DEF Loaded
<1>2. Len(rs) \in Nat /\ DOMAIN rs = 1 .. Len(rs)
  BY LenProperties
<1> DEFINE usr(i) == [name |-> rs[i].name, level |-> rs[i].level, ident |-> g[i], found |-> TRUE]
<1>3. ASSUME NEW i \in 1 .. Len(rs) PROVE usr(i) \in User
  <2>1. rs[i] \in Record
    BY ElementOfSeq
  <2>2. g[i] \in Sender \cup {NoIdent}
    BY <1>1, <1>2 DEF Garbage
  <2> QED
    BY <2>1, <2>2 DEF User, Record
<1>4. us = [i \in 1 .. Len(rs) |-> usr(i)]
  BY <1>1, <1>2
<1>5. us \in Seq(User)
  BY <1>2, <1>3, <1>4
<1>6. \A i \in DOMAIN us : us[i].found
  BY <1>4
<1> QED
  BY <1>5, <1>6

-----------------------------------------------------------------------------
\* A login or a new level changes one user of the list (auth.c:173, 191, 205, 219, 233).
LEMMA OneUser ==
  ASSUME users \in Seq(User), NEW i \in DOMAIN users, NEW u \in User, users' = [users EXCEPT ![i] = u]
  PROVE  /\ users' \in Seq(User) /\ DOMAIN users' = DOMAIN users
         /\ \A j \in DOMAIN users : users'[j] = IF j = i THEN u ELSE users[j]
<1>1. DOMAIN users = 1 .. Len(users) /\ Len(users) \in Nat
  BY LenProperties
<1> QED
  BY <1>1, ExceptSeq, LenProperties

\* What finduser and findauth return is in the list, before the others of that name or sender.
LEMMA FoundUser ==
  ASSUME users \in Seq(User)
  PROVE  /\ \A n : Named(n) # {} =>
              /\ First(Named(n)) \in DOMAIN users /\ users[First(Named(n))].name = n
              /\ \A j \in DOMAIN users : users[j].name = n => First(Named(n)) <= j
         /\ \A s : From(s) # {} =>
              /\ First(From(s)) \in DOMAIN users /\ users[First(From(s))].ident = s
              /\ \A j \in DOMAIN users : users[j].ident = s => First(From(s)) <= j
<1>1. DOMAIN users \subseteq Nat
  BY LenProperties
<1>2. ASSUME NEW n, Named(n) # {}
      PROVE  First(Named(n)) \in Named(n) /\ \A j \in Named(n) : First(Named(n)) <= j
  BY <1>1, <1>2, FirstIn DEF Named
<1>3. ASSUME NEW s, From(s) # {}
      PROVE  First(From(s)) \in From(s) /\ \A j \in From(s) : First(From(s)) <= j
  BY <1>1, <1>3, FirstIn DEF From
<1> QED
  BY <1>2, <1>3 DEF Named, From

\* Nothing of the disk is at stake while storedb does not run and the disk stays as it is.
LEMMA DiskKept ==
  ASSUME Written, store = "no", store' \in {"no", "open"}, UNCHANGED disk
  PROVE  Written'
BY DEF Written, Survives, disk

\* register: a new user has no level.
LEMMA RegisterStep ==
  ASSUME Inv, NEW s \in Sender, NEW n \in Name, Register(s, n)
  PROVE  Inv'
<1> DEFINE u == [name |-> n, level |-> Nobody, ident |-> s, found |-> FALSE]
<1>1. u \in User
  BY DEF User, Nobody, Master
<1>2. /\ users' \in Seq(User) /\ Len(users') = Len(users) + 1 /\ users'[Len(users) + 1] = u
      /\ \A i \in 1 .. Len(users) : users'[i] = users[i]
  BY <1>1, AppendProperties DEF Inv, TypeOK, Register
<1>3. DOMAIN users = 1 .. Len(users) /\ DOMAIN users' = 1 .. Len(users) + 1 /\ Len(users) \in Nat
  BY <1>2, LenProperties DEF Inv, TypeOK
<1>4. TypeOK'
  BY <1>2 DEF Inv, TypeOK, Register, disk, counts
<1>5. Earned'
  <2>1. session'[n] = s /\ \A m \in Name : m # n => session'[m] = session[m]
    BY DEF Inv, TypeOK, Register
  <2>2. ASSUME NEW j \in 1 .. Len(users) PROVE users[j].name # n /\ users[j].name \in Name
    <3>1. users[j] \in User
      BY ElementOfSeq DEF Inv, TypeOK
    <3> QED
      BY <1>3, <3>1 DEF Register, Named, User
  <2>3. ASSUME NEW j \in 1 .. Len(users)
        PROVE  \/ users'[j].found \/ users'[j].ident = NoIdent
               \/ users'[j].ident = session'[users'[j].name] /\ FirstNamed(j)'
    <3>1. users'[j] = users[j] /\ session'[users[j].name] = session[users[j].name]
      BY <1>2, <2>1, <2>2
    <3>2. ASSUME FirstNamed(j) PROVE FirstNamed(j)'
      BY <1>2, <1>3, <3>2 DEF FirstNamed
    <3> QED
      BY <1>3, <3>1, <3>2 DEF Inv, Earned
  <2>4. ASSUME NEW j \in DOMAIN users', j \notin 1 .. Len(users)
        PROVE  users'[j].ident = session'[users'[j].name] /\ FirstNamed(j)'
    <3>1. j = Len(users) + 1 /\ users'[j].ident = s /\ users'[j].name = n
      BY <1>2, <1>3, <2>4
    <3>2. FirstNamed(j)'
      BY <1>2, <1>3, <2>2, <3>1 DEF FirstNamed
    <3> QED
      BY <2>1, <3>1, <3>2
  <2> QED
    BY <1>3, <2>3, <2>4 DEF Earned
<1>6. Written'
  BY DiskKept DEF Inv, Register, Serving
<1> QED
  BY <1>4, <1>5, <1>6 DEF Inv

\* login: with the right password only.
LEMMA AuthStep ==
  ASSUME Inv, NEW s \in Sender, NEW n \in Name, NEW right \in BOOLEAN, Auth(s, n, right)
  PROVE  Inv'
<1> DEFINE i == First(Named(n))
           u == [users[i] EXCEPT !.ident = s, !.found = FALSE]
<1>1. /\ i \in DOMAIN users /\ DOMAIN users = 1 .. Len(users) /\ users[i].name = n
      /\ \A j \in DOMAIN users : users[j].name = n => i <= j
  BY FoundUser, LenProperties DEF Inv, TypeOK, Auth
<1>2. users[i] \in User
  BY <1>1, ElementOfSeq DEF Inv, TypeOK
<1>3. u \in User /\ u.ident = s /\ u.name = users[i].name
  BY <1>2 DEF User
<1>4. users' = [users EXCEPT ![i] = u]
  BY DEF Auth, LogIn
<1>5. users' \in Seq(User) /\ DOMAIN users' = DOMAIN users
      /\ \A j \in DOMAIN users : users'[j] = IF j = i THEN u ELSE users[j]
  BY <1>1, <1>3, <1>4, OneUser DEF Inv, TypeOK
<1>6. TypeOK'
  BY <1>5 DEF Inv, TypeOK, Auth, disk, counts
<1>7. Earned'
  <2>1. session'[n] = s /\ \A m \in Name : m # n => session'[m] = session[m]
    BY DEF Inv, TypeOK, Auth
  <2>2. ASSUME NEW j \in DOMAIN users
        PROVE  users[j].name \in Name /\ users'[j].name = users[j].name /\ j \in Nat
    <3>1. users[j] \in User /\ j \in Nat
      BY <1>1, ElementOfSeq DEF Inv, TypeOK
    <3>2. (users'[j] = u /\ j = i) \/ users'[j] = users[j]
      BY <1>5
    <3>3. users'[j].name = users[j].name
      BY <1>3, <3>2, Zenon
    <3> QED
      BY <3>1, <3>3 DEF User
  <2>3. \A j \in DOMAIN users : FirstNamed(j)' <=> FirstNamed(j)
    BY <1>5, <2>2 DEF FirstNamed
  <2>4. ASSUME NEW j \in DOMAIN users
        PROVE  \/ users'[j].found \/ users'[j].ident = NoIdent
               \/ users'[j].ident = session'[users'[j].name] /\ FirstNamed(j)'
    <3>1. CASE j = i
      <4>1. FirstNamed(j)
        BY <1>1, <2>2, <3>1 DEF FirstNamed
      <4>2. users'[j].ident = s /\ users'[j].name = n
        BY <1>1, <1>3, <1>5, <3>1
      <4> QED
        BY <2>1, <2>3, <4>1, <4>2
    <3>2. CASE j # i /\ users[j].name = n
      <4>1. i < j
        BY <1>1, <2>2, <3>2
      <4>2. ~FirstNamed(j) /\ users'[j] = users[j]
        BY <1>1, <1>5, <3>2, <4>1 DEF FirstNamed
      <4> QED
        BY <4>2 DEF Inv, Earned
    <3>3. CASE j # i /\ users[j].name # n
      <4>1. users'[j] = users[j] /\ session'[users[j].name] = session[users[j].name]
        BY <1>5, <2>1, <2>2, <3>3
      <4>2. \/ users[j].found \/ users[j].ident = NoIdent
            \/ users[j].ident = session[users[j].name] /\ FirstNamed(j)
        BY DEF Inv, Earned
      <4> QED
        BY <2>3, <4>1, <4>2
    <3> QED
      BY <3>1, <3>2, <3>3
  <2> QED
    BY <1>5, <2>4 DEF Earned
<1>8. Written'
  BY DiskKept DEF Inv, Auth, Serving
<1> QED
  BY <1>6, <1>7, <1>8 DEF Inv

\* logout: the ident of the user is cleared.
LEMMA LogoutStep ==
  ASSUME Inv, NEW s \in Sender, Logout(s)
  PROVE  Inv'
<1> DEFINE i == First(From(s))
           u == [users[i] EXCEPT !.ident = NoIdent, !.found = FALSE]
<1>1. /\ i \in DOMAIN users /\ DOMAIN users = 1 .. Len(users) /\ users[i].ident = s
      /\ \A j \in DOMAIN users : users[j].ident = s => i <= j
  BY FoundUser, LenProperties DEF Inv, TypeOK, Logout
<1>2. users[i] \in User
  BY <1>1, ElementOfSeq DEF Inv, TypeOK
<1>3. u \in User /\ u.ident = NoIdent /\ u.name = users[i].name
  BY <1>2 DEF User
<1>4. users' = [users EXCEPT ![i] = u]
  BY DEF Logout
<1>5. users' \in Seq(User) /\ DOMAIN users' = DOMAIN users
      /\ \A j \in DOMAIN users : users'[j] = IF j = i THEN u ELSE users[j]
  BY <1>1, <1>3, <1>4, OneUser DEF Inv, TypeOK
<1>6. TypeOK'
  <2>1. session' \in [Name -> Sender \cup {NoIdent}]
    BY DEF Inv, TypeOK, Logout
  <2> QED
    BY <1>5, <2>1 DEF Inv, TypeOK, Logout, disk, counts
<1>7. Earned'
  <2>1. /\ \A m \in Name : m # users[i].name => session'[m] = session[m]
        /\ \A m \in Name : session[m] # s => session'[m] = session[m]
    BY DEF Inv, TypeOK, Logout
  <2>2. ASSUME NEW j \in DOMAIN users
        PROVE  users[j].name \in Name /\ users'[j].name = users[j].name /\ j \in Nat
    <3>1. users[j] \in User /\ j \in Nat
      BY <1>1, ElementOfSeq DEF Inv, TypeOK
    <3>2. (users'[j] = u /\ j = i) \/ users'[j] = users[j]
      BY <1>5
    <3>3. users'[j].name = users[j].name
      BY <1>3, <3>2, Zenon
    <3> QED
      BY <3>1, <3>3 DEF User
  <2>3. \A j \in DOMAIN users : FirstNamed(j)' <=> FirstNamed(j)
    BY <1>5, <2>2 DEF FirstNamed
  <2>4. ASSUME NEW j \in DOMAIN users, j # i
        PROVE  \/ users'[j].found \/ users'[j].ident = NoIdent
               \/ users'[j].ident = session'[users'[j].name] /\ FirstNamed(j)'
    <3>1. users'[j] = users[j]
      BY <1>5, <2>4
    <3>2. CASE users[j].name = users[i].name /\ users[j].ident = s
      <4>1. i < j
        BY <1>1, <2>2, <2>4, <3>2
      <4>2. ~FirstNamed(j)
        BY <1>1, <3>2, <4>1 DEF FirstNamed
      <4> QED
        BY <3>1, <4>2 DEF Inv, Earned
    <3>3. CASE users[j].name # users[i].name \/ users[j].ident # s
      <4>1. \/ users[j].found \/ users[j].ident = NoIdent
            \/ users[j].ident = session[users[j].name] /\ FirstNamed(j)
        BY DEF Inv, Earned
      <4>2. CASE session[users[j].name] = users[j].ident
        <5>1. session'[users[j].name] = session[users[j].name]
          BY <2>1, <2>2, <3>3, <4>2
        <5> QED
          BY <2>3, <3>1, <4>1, <5>1
      <4> QED
        BY <2>3, <3>1, <4>1, <4>2
    <3> QED
      BY <3>2, <3>3
  <2> QED
    BY <1>3, <1>5, <2>4 DEF Earned
<1>8. Written'
  BY DiskKept DEF Inv, Logout, Serving
<1> QED
  BY <1>6, <1>7, <1>8 DEF Inv

\* promote and demote.
LEMMA SetLevelStep ==
  ASSUME Inv, NEW s \in Sender, NEW n \in Name, NEW level, Named(n) # {}, SetLevel(s, n, level)
  PROVE  Inv'
<1> DEFINE i == First(Named(n))
           u == [users[i] EXCEPT !.level = level]
<1>1. i \in DOMAIN users /\ DOMAIN users = 1 .. Len(users)
  BY FoundUser, LenProperties DEF Inv, TypeOK
<1>2. users[i] \in User
  BY <1>1, ElementOfSeq DEF Inv, TypeOK
<1>3. u \in User /\ u.ident = users[i].ident /\ u.name = users[i].name /\ u.found = users[i].found
  BY <1>2 DEF User, SetLevel
<1>4. users' = [users EXCEPT ![i] = u]
  BY DEF SetLevel
<1>5. users' \in Seq(User) /\ DOMAIN users' = DOMAIN users
      /\ \A j \in DOMAIN users : users'[j] = IF j = i THEN u ELSE users[j]
  BY <1>1, <1>3, <1>4, OneUser DEF Inv, TypeOK
<1>6. TypeOK'
  BY <1>5 DEF Inv, TypeOK, SetLevel, disk, counts
<1>7. Earned'
  <2>1. \A j \in DOMAIN users : /\ users'[j].ident = users[j].ident /\ users'[j].name = users[j].name
                                /\ users'[j].found = users[j].found
    BY <1>3, <1>5
  <2>2. \A j \in DOMAIN users : FirstNamed(j)' <=> FirstNamed(j)
    BY <1>5, <2>1 DEF FirstNamed
  <2> QED
    BY <1>5, <2>1, <2>2 DEF Inv, Earned, SetLevel
<1>8. Written'
  BY DiskKept DEF Inv, SetLevel, Serving
<1> QED
  BY <1>6, <1>7, <1>8 DEF Inv

\* saveauth touches nothing but where storedb is (auth.c:198).
LEMMA SaveAuthStep ==
  ASSUME Inv, NEW s \in Sender, SaveAuth(s)
  PROVE  Inv'
<1>1. TypeOK'
  BY UserDbAssumption DEF Inv, TypeOK, SaveAuth, CallStore, memory, disk
<1>2. Earned'
  BY DEF Inv, Earned, FirstNamed, SaveAuth, memory
<1>3. Written'
  BY DiskKept DEF Inv, SaveAuth, Serving, CallStore
<1> QED
  BY <1>1, <1>2, <1>3 DEF Inv

-----------------------------------------------------------------------------
\* What comes after storedb keeps what is said of memory (auth.c:312-317).
LEMMA ReturnKeeps ==
  ASSUME TypeOK, Earned, Return
  PROVE  /\ at' \in {"down", "unloaded", "up", "leaving"} /\ store' = "no"
         /\ users' \in Seq(User) /\ session' \in [Name -> Sender \cup {NoIdent}]
         /\ crashes' = crashes /\ stores' = stores
         /\ Earned'
<1>1. CASE at = "leaving"
  <2>1. users' = <<>> /\ at' = "unloaded" /\ session' = NoSession
    BY <1>1 DEF Return
  <2>2. users' \in Seq(User) /\ DOMAIN users' = {}
    BY <2>1, EmptySeq
  <2> QED
    BY <2>1, <2>2 DEF Return, TypeOK, Earned, counts, NoSession
<1>2. CASE at # "leaving"
  BY <1>2 DEF Return, TypeOK, Earned, FirstNamed, counts, memory
<1> QED
  BY <1>1, <1>2

\* storedb opens the new file.
LEMMA StoreOpenStep ==
  ASSUME Inv, StoreOpen
  PROVE  Inv'
<1>1. tmp' = <<>> /\ tmp' \in Seq(Record) /\ Len(tmp') = 0
  BY EmptySeq DEF StoreOpen
<1>2. Len(users) \in Nat
  BY LenProperties DEF Inv, TypeOK
<1>3. TypeOK'
  BY <1>1 DEF Inv, TypeOK, StoreOpen, memory, counts
<1>4. Earned'
  BY DEF Inv, Earned, FirstNamed, StoreOpen, memory
<1>5. Beginning'
  BY <1>1, <1>2 DEF Beginning, StoreOpen, memory
<1>6. Written'
  BY <1>1, <1>5 DEF Inv, TypeOK, Written, Survives, StoreOpen
<1> QED
  BY <1>3, <1>4, <1>6 DEF Inv

\* storedb writes a user.
LEMMA StoreRecordStep ==
  ASSUME Inv, StoreRecord
  PROVE  Inv'
<1> DEFINE r == Records(users)[Len(tmp) + 1]
<1>1. tmp \in Seq(Record) /\ Beginning /\ users \in Seq(User)
  BY DEF Inv, TypeOK, Written, StoreRecord
<1>2. Len(tmp) \in Nat /\ Len(users) \in Nat /\ Len(tmp) + 1 \in 1 .. Len(users)
  BY <1>1, LenProperties DEF StoreRecord
<1>3. Records(users) \in Seq(Record) /\ Len(Records(users)) = Len(users)
  BY <1>1, RecordsTyped
<1>4. r \in Record
  BY <1>2, <1>3, ElementOfSeq
<1>5. /\ tmp' \in Seq(Record) /\ Len(tmp') = Len(tmp) + 1 /\ tmp'[Len(tmp) + 1] = r
      /\ \A i \in 1 .. Len(tmp) : tmp'[i] = tmp[i]
  BY <1>1, <1>4, AppendProperties DEF StoreRecord
<1>6. users' = users /\ Records(users)' = Records(users)
  BY DEF StoreRecord, memory, Records
<1>7. Beginning'
  <2>1. Len(tmp') <= Len(users')
    BY <1>2, <1>5, <1>6
  <2>2. ASSUME NEW i \in 1 .. Len(tmp') PROVE tmp'[i] = Records(users)[i]
    BY <1>1, <1>2, <1>5 DEF Beginning
  <2> QED
    BY <1>6, <2>1, <2>2 DEF Beginning
<1>8. TypeOK'
  BY <1>5 DEF Inv, TypeOK, StoreRecord, memory, counts
<1>9. Earned'
  BY DEF Inv, Earned, FirstNamed, StoreRecord, memory
<1>10. Written'
  BY <1>5, <1>7 DEF Inv, Written, Survives, StoreRecord
<1> QED
  BY <1>8, <1>9, <1>10 DEF Inv

\* storedb gives up.
LEMMA StoreFailsStep ==
  ASSUME Inv, StoreFails
  PROVE  Inv'
<1>1. /\ at' \in {"down", "unloaded", "up", "leaving"} /\ store' = "no"
      /\ users' \in Seq(User) /\ session' \in [Name -> Sender \cup {NoIdent}]
      /\ crashes' = crashes /\ stores' = stores /\ Earned'
  BY ReturnKeeps DEF Inv, StoreFails
<1>2. TypeOK'
  BY <1>1 DEF Inv, TypeOK, StoreFails
<1>3. Written'
  BY <1>1 DEF Inv, TypeOK, Written, Survives, StoreFails
<1> QED
  BY <1>1, <1>2, <1>3 DEF Inv

\* storedb closes the new file.
LEMMA StoreCloseStep ==
  ASSUME Inv, StoreClose
  PROVE  Inv'
<1>1. TypeOK'
  BY DEF Inv, TypeOK, StoreClose, memory, disk, counts
<1>2. Earned'
  BY DEF Inv, Earned, FirstNamed, StoreClose, memory
<1>3. Written'
  BY DEF Inv, Written, Survives, Beginning, Records, StoreClose, memory, disk
<1> QED
  BY <1>1, <1>2, <1>3 DEF Inv

\* Unless records are missing in the new file, it is the whole list when the old one goes and when it
\* takes its place (auth.c:116-118).
LEMMA ReplacedWhole ==
  ASSUME Inv, store \in {"closed", "unlinked"}, NEW place \in {"file", "tmp"}, Replaced(place)
  PROVE  /\ saved' \in Seq(Record) /\ whole' \in {place, "lost"}
         /\ whole' = place => tmp = saved'
<1>1. tmp \in Seq(Record) /\ Beginning /\ users \in Seq(User)
  BY DEF Inv, TypeOK, Written
<1>2. Records(users) \in Seq(Record) /\ Len(Records(users)) = Len(users)
  BY <1>1, RecordsTyped
<1>3. ASSUME Len(tmp) = Len(users) PROVE tmp = Records(users)
  <2>1. \A i \in 1 .. Len(tmp) : tmp[i] = Records(users)[i]
    BY <1>1 DEF Beginning
  <2>2. Len(tmp) = Len(Records(users))
    BY <1>2, <1>3
  <2> QED
    BY <1>1, <1>2, <2>1, <2>2, SeqEqual
<1> QED
  BY <1>2, <1>3 DEF Replaced

\* storedb removes the old file, or does not.
LEMMA StoreUnlinkStep ==
  ASSUME Inv, StoreUnlink
  PROVE  Inv'
<1>1. Earned'
  BY DEF Inv, Earned, FirstNamed, StoreUnlink, memory
<1>2. tmp' = tmp /\ users' = users /\ Beginning'
  BY DEF Inv, Written, StoreUnlink, Beginning, Records, memory
<1>3. CASE file' = Absent /\ Replaced("tmp")
  <2>1. saved' \in Seq(Record) /\ whole' \in {"tmp", "lost"} /\ (whole' = "tmp" => tmp = saved')
    BY <1>3, ReplacedWhole DEF StoreUnlink
  <2>2. TypeOK'
    BY <1>3, <2>1 DEF Inv, TypeOK, StoreUnlink, memory, counts
  <2>3. Written'
    BY <1>2, <1>3, <2>1 DEF Inv, Written, Survives, StoreUnlink
  <2> QED
    BY <1>1, <2>2, <2>3 DEF Inv
<1>4. CASE UNCHANGED <<file, saved, whole>>
  <2>1. TypeOK'
    BY <1>4 DEF Inv, TypeOK, StoreUnlink, memory, counts
  <2>2. Written'
    BY <1>2, <1>4 DEF Inv, Written, Survives, StoreUnlink
  <2> QED
    BY <1>1, <2>1, <2>2 DEF Inv
<1> QED
  BY <1>3, <1>4 DEF StoreUnlink

\* storedb gives the new file its name, or does not.
LEMMA StoreRenameStep ==
  ASSUME Inv, StoreRename
  PROVE  Inv'
<1>1. /\ at' \in {"down", "unloaded", "up", "leaving"} /\ store' = "no"
      /\ users' \in Seq(User) /\ session' \in [Name -> Sender \cup {NoIdent}]
      /\ crashes' = crashes /\ stores' = stores /\ Earned'
  BY ReturnKeeps DEF Inv, StoreRename
<1>2. CASE file' = tmp /\ tmp' = Absent /\ Replaced("file")
  <2>1. saved' \in Seq(Record) /\ whole' \in {"file", "lost"} /\ (whole' = "file" => tmp = saved')
    BY <1>2, ReplacedWhole DEF StoreRename
  <2>2. TypeOK'
    BY <1>1, <1>2, <2>1 DEF Inv, TypeOK
  <2>3. Written'
    BY <1>1, <1>2, <2>1 DEF Written, Survives
  <2> QED
    BY <1>1, <2>2, <2>3 DEF Inv
<1>3. CASE UNCHANGED disk
  <2>1. TypeOK'
    BY <1>1, <1>3 DEF Inv, TypeOK, disk
  <2>2. Written'
    BY <1>1, <1>3 DEF Inv, Written, Survives, disk
  <2> QED
    BY <1>1, <2>1, <2>2 DEF Inv
<1> QED
  BY <1>2, <1>3 DEF StoreRename

-----------------------------------------------------------------------------
\* A start fills the list from the file.
LEMMA StartStep ==
  ASSUME Inv, Start
  PROVE  Inv'
<1>1. OnDisk \in Seq(Record)
  BY EmptySeq DEF Inv, TypeOK, OnDisk
<1>2. users' \in Seq(User) /\ ((\A i \in DOMAIN users' : users'[i].found) \/ users' = users)
  <2>1. CASE users' \in Loaded(OnDisk)
    BY <1>1, <2>1, LoadedTyped
  <2>2. ASSUME NEW n \in Name, users' \in Loaded(Append(OnDisk, [name |-> n, level |-> Master]))
        PROVE  <1>2!1 /\ <1>2!2
    <3>1. [name |-> n, level |-> Master] \in Record
      BY DEF Record, Nobody, Master
    <3>2. Append(OnDisk, [name |-> n, level |-> Master]) \in Seq(Record)
      BY <1>1, <3>1, AppendProperties
    <3> QED
      BY <2>2, <3>2, LoadedTyped
  <2>3. CASE users' = users
    BY <2>3 DEF Inv, TypeOK
  <2> QED
    BY <2>1, <2>2, <2>3 DEF Start
<1>3. at' \in {"up", "unloaded"} /\ store' \in {"no", "open"} /\ stores' \in 0 .. MaxStores
  BY UserDbAssumption DEF Inv, TypeOK, Start, CallStore
<1>4. UNCHANGED <<session, disk, crashes>> /\ store = "no"
  BY DEF Start
<1>5. TypeOK'
  BY <1>2, <1>3, <1>4 DEF Inv, TypeOK, disk
<1>6. Earned'
  BY <1>2, <1>4 DEF Inv, Earned, FirstNamed
<1>7. Written'
  BY <1>3, <1>4, DiskKept DEF Inv
<1> QED
  BY <1>5, <1>6, <1>7 DEF Inv

\* destroy begins with storedb.
LEMMA DestroyStep ==
  ASSUME Inv, Destroy
  PROVE  Inv'
<1>1. TypeOK'
  BY UserDbAssumption DEF Inv, TypeOK, Destroy, CallStore, disk
<1>2. Earned'
  BY DEF Inv, Earned, FirstNamed, Destroy
<1>3. Written'
  BY DiskKept DEF Inv, Destroy, Serving, CallStore
<1> QED
  BY <1>1, <1>2, <1>3 DEF Inv

\* The end of the process leaves the disk as it is.
LEMMA CrashStep ==
  ASSUME Inv, Crash
  PROVE  Inv'
<1>1. users' = <<>> /\ users' \in Seq(User) /\ DOMAIN users' = {}
  BY EmptySeq DEF Crash
<1>2. crashes' \in 0 .. MaxCrashes
  BY UserDbAssumption DEF Inv, TypeOK, Crash
<1>3. TypeOK'
  BY <1>1, <1>2 DEF Inv, TypeOK, Crash, disk, NoSession
<1>4. Earned'
  BY <1>1 DEF Inv, Earned, Crash
<1>5. Written'
  BY DEF Inv, Written, Survives, Crash, disk
<1> QED
  BY <1>3, <1>4, <1>5 DEF Inv

-----------------------------------------------------------------------------
\* The file that is there at first is whole.
LEMMA InitInv == Init => Inv
<1> SUFFICES ASSUME Init PROVE Inv
  OBVIOUS
<1>1. users \in Seq(User) /\ DOMAIN users = {}
  BY EmptySeq DEF Init
<1>2. file \in Seq(Record) \cup {Absent}
  BY UserDbAssumption DEF Init, Record
<1>3. 0 \in 0 .. MaxCrashes /\ 0 \in 0 .. MaxStores
  BY UserDbAssumption
<1>4. TypeOK
  BY <1>1, <1>2, <1>3 DEF Init, TypeOK, NoSession
<1>5. Earned
  BY <1>1 DEF Init, Earned
<1>6. Written
  BY DEF Init, Written, Survives
<1> QED
  BY <1>4, <1>5, <1>6 DEF Inv

\* Every step keeps the invariant.
LEMMA NextInv == Inv /\ [Next]_vars => Inv'
<1> SUFFICES ASSUME Inv, [Next]_vars PROVE Inv'
  OBVIOUS
<1>1. ASSUME NEW s \in Sender, NEW n \in Name, Register(s, n) PROVE Inv'
  BY <1>1, RegisterStep
<1>2. ASSUME NEW s \in Sender, NEW n \in Name, Promote(s, n) PROVE Inv'
  BY <1>2, SetLevelStep DEF Promote
<1>3. ASSUME NEW s \in Sender, NEW n \in Name, Demote(s, n) PROVE Inv'
  BY <1>3, SetLevelStep DEF Demote
<1>4. ASSUME NEW s \in Sender, NEW n \in Name, NEW right \in BOOLEAN, Auth(s, n, right) PROVE Inv'
  BY <1>4, AuthStep
<1>5. ASSUME NEW s \in Sender, Logout(s) PROVE Inv'
  BY <1>5, LogoutStep
<1>6. ASSUME NEW s \in Sender, SaveAuth(s) PROVE Inv'
  BY <1>6, SaveAuthStep
<1>7. CASE StoreOpen
  BY <1>7, StoreOpenStep
<1>8. CASE StoreRecord
  BY <1>8, StoreRecordStep
<1>9. CASE StoreFails
  BY <1>9, StoreFailsStep
<1>10. CASE StoreClose
  BY <1>10, StoreCloseStep
<1>11. CASE StoreUnlink
  BY <1>11, StoreUnlinkStep
<1>12. CASE StoreRename
  BY <1>12, StoreRenameStep
<1>13. CASE Start
  BY <1>13, StartStep
<1>14. CASE Destroy
  BY <1>14, DestroyStep
<1>15. CASE Crash
  BY <1>15, CrashStep
<1>16. CASE UNCHANGED vars
  BY <1>16 DEF Inv, TypeOK, Earned, FirstNamed, Written, Survives, Beginning, Records, vars, memory, disk, counts
<1> QED
  BY <1>1, <1>2, <1>3, <1>4, <1>5, <1>6, <1>7, <1>8, <1>9, <1>10, <1>11, <1>12, <1>13, <1>14, <1>15,
     <1>16 DEF Next

\* Wherever the process ends and whichever call fails, the list of the last storedb that removed or
\* replaced the database is whole in one of the two files, until storedb begins anew over the only copy
\* and but for an error that only fclose saw (auth.c:116-118).
THEOREM UserDbFileWhole == Spec => []FileWhole
<1>1. Inv => FileWhole
  BY DEF Inv, Written, Survives, FileWhole
<1> QED
  BY <1>1, InitInv, NextInv, PTL DEF Spec

\* Whatever is registered, left, stored, freed and loaded: who has the level of a user has given that
\* user's password last of all and not logged out of it since, unless nobody has logged in to that user
\* since it was loaded (auth.c:49, 80, 191).
THEOREM UserDbLevelEarned == Spec => []LevelEarned
<1>1. ASSUME Inv, NEW s \in Sender, Query(s) > NoAuth
      PROVE  LET u == users[First(From(s))] IN u.found \/ session[u.name] = s
  <2> DEFINE i == First(From(s))
  <2>1. From(s) # {}
    BY <1>1 DEF Query, NoAuth
  <2>2. i \in DOMAIN users /\ users[i].ident = s
    BY <1>1, <2>1, FoundUser DEF Inv, TypeOK
  <2>3. s # NoIdent
    BY UserDbAssumption
  <2> QED
    BY <1>1, <2>2, <2>3 DEF Inv, Earned
<1>2. Inv => LevelEarned
  BY <1>1 DEF LevelEarned
<1> QED
  BY <1>2, InitInv, NextInv, PTL DEF Spec

-----------------------------------------------------------------------------
(* Nick *)

\* What a line to the bot makes of the nick it believes to have.
Heard(n, l) ==
  IF l.what = "001" THEN l.new
  ELSE IF l.what = "NICK" /\ l.old = n THEN l.new ELSE n

\* The nicks that the bot goes through while it reads what is under way, from the one it has at first on.
Hears(n, ms, t) ==
  /\ t \in [0 .. Len(ms) -> N!Nick \cup {N!NoNick}]
  /\ t[0] = n
  /\ \A i \in 1 .. Len(ms) : t[i] = Heard(t[i - 1], ms[i])

Line ==
  {N!Welcome(n) : n \in N!Nick} \cup {N!Rename(n, k) : n \in N!Nick, k \in N!Nick}
  \cup {N!InUse(n) : n \in TakenNicks} \cup {N!Command(n) : n \in N!Nick}

NickType == N!TypeOK /\ up \in Seq(N!Nick \cup {N!User}) /\ down \in Seq(Line) /\ own \notin others

\* At the end of what is under way the bot has the nick that the server has for it.
Follows == \E t : Hears(me, down, t) /\ (N!Registered => t[Len(down)] = own)

NickInv == NickType /\ Follows

\* The nicks are numbers, and what others have is one of them.
LEMMA Nicks ==
  /\ N!Nick \subseteq Nat /\ TakenNicks \subseteq N!Nick /\ 0 \in N!Nick
  /\ \A n \in TakenNicks : n + 1 \in N!Nick
  /\ N!NoNick \notin N!Nick /\ N!User \notin N!Nick
BY NickAssumption DEF N!Nick, N!NoNick, N!User

\* Every line is one of four kinds (nick.c:44-68).
LEMMA Lines ==
  ASSUME NEW l \in Line
  PROVE  \/ l.what = "001" /\ l.new \in N!Nick
         \/ l.what = "NICK" /\ l.old \in N!Nick /\ l.new \in N!Nick
         \/ l.what = "433" /\ l.new \in TakenNicks
         \/ l.what = "PRIVMSG" /\ l.new \in N!Nick
BY DEF Line, N!Welcome, N!Rename, N!InUse, N!Command
\* What is heard of a line is a nick.
LEMMA HeardIs ==
  ASSUME NEW l \in Line, NEW n \in N!Nick \cup {N!NoNick}
  PROVE  Heard(n, l) \in N!Nick \cup {N!NoNick}
BY Lines, Zenon DEF Heard

\* A line told comes behind what is under way already.
LEMMA Told ==
  ASSUME down \in Seq(Line), NEW t, Hears(me, down, t), NEW l \in Line, me' = me, down' = Append(down, l)
  PROVE  /\ down' \in Seq(Line)
         /\ \E u : Hears(me', down', u) /\ u[Len(down')] = Heard(t[Len(down)], l)
<1> DEFINE K == Len(down)
           a == K + 1
           v == Heard(t[K], l)
           u == [i \in 0 .. a |-> IF i = a THEN v ELSE t[i]]
<1>1. /\ down' \in Seq(Line) /\ Len(down') = a /\ K \in Nat /\ down'[a] = l
      /\ \A i \in 1 .. K : down'[i] = down[i]
  BY AppendProperties, LenProperties
<1>2. /\ t \in [0 .. K -> N!Nick \cup {N!NoNick}] /\ t[0] = me
      /\ \A i \in 1 .. K : t[i] = Heard(t[i - 1], down[i])
  BY DEF Hears
<1>3. t[K] \in N!Nick \cup {N!NoNick}
  BY <1>1, <1>2
<1>4. v \in N!Nick \cup {N!NoNick}
  BY <1>3, HeardIs
<1>5. v = Heard(t[K], l)
  OBVIOUS
<1> HIDE DEF v
<1>6. /\ u \in [0 .. a -> N!Nick \cup {N!NoNick}] /\ u[a] = v /\ u[0] = me
      /\ \A i \in 0 .. K : u[i] = t[i]
  BY <1>1, <1>2, <1>4
<1> HIDE DEF u
<1>7. ASSUME NEW i \in 1 .. a PROVE u[i] = Heard(u[i - 1], down'[i])
  <2>1. CASE i = a
    <3>1. u[a - 1] = t[K] /\ u[a] = v /\ down'[a] = l
      BY <1>1, <1>6
    <3> QED
      BY <1>5, <2>1, <3>1, Zenon
  <2>2. CASE i # a
    <3>1. i \in 1 .. K /\ i \in 0 .. K /\ i - 1 \in 0 .. K
      BY <1>1, <2>2
    <3>2. u[i] = t[i] /\ u[i - 1] = t[i - 1] /\ down'[i] = down[i]
      BY <1>1, <1>6, <3>1
    <3> QED
      BY <1>2, <3>1, <3>2, Zenon
  <2> QED
    BY <2>1, <2>2
<1>8. u \in [0 .. Len(down') -> N!Nick \cup {N!NoNick}] /\ u[0] = me'
  BY <1>1, <1>6, Zenon
<1>9. \A i \in 1 .. Len(down') : u[i] = Heard(u[i - 1], down'[i])
  BY <1>1, <1>7, Zenon
<1>10. Hears(me', down', u)
  BY <1>8, <1>9, Zenon DEF Hears
<1>11. u[Len(down')] = Heard(t[Len(down)], l)
  BY <1>1, <1>5, <1>6, Zenon
<1> QED
  BY <1>1, <1>10, <1>11

\* A line read is the first of those under way (nick.c:41).
LEMMA Read ==
  ASSUME down \in Seq(Line), down # <<>>, NEW t, Hears(me, down, t), down' = Tail(down), me' = Heard(me, Head(down))
  PROVE  /\ down' \in Seq(Line) /\ me' \in N!Nick \cup {N!NoNick} /\ Head(down) \in Line
         /\ \E u : Hears(me', down', u) /\ u[Len(down')] = t[Len(down)]
<1> DEFINE K == Len(down)
           u == [i \in 0 .. K - 1 |-> t[i + 1]]
<1>1. /\ down' \in Seq(Line) /\ Len(down') = K - 1 /\ K \in Nat \ {0} /\ Head(down) = down[1]
      /\ down[1] \in Line /\ \A i \in 1 .. K - 1 : down'[i] = down[i + 1]
  BY HeadTailProperties, ElementOfSeq, LenProperties, EmptySeq
<1>2. /\ t \in [0 .. K -> N!Nick \cup {N!NoNick}] /\ t[0] = me
      /\ \A i \in 1 .. K : t[i] = Heard(t[i - 1], down[i])
  BY DEF Hears
<1> HIDE DEF K
<1>3. /\ u \in [0 .. K - 1 -> N!Nick \cup {N!NoNick}]
      /\ \A i \in 0 .. K - 1 : u[i] = t[i + 1]
  BY <1>1, <1>2
<1> HIDE DEF u
<1>4. t[1] = me' /\ u[0] = t[1] /\ u[K - 1] = t[K]
  <2>1. 1 \in 1 .. K /\ 1 - 1 = 0 /\ 0 \in 0 .. K - 1 /\ 0 + 1 = 1 /\ K - 1 \in 0 .. K - 1 /\ (K - 1) + 1 = K
    BY <1>1
  <2> QED
    BY <1>1, <1>2, <1>3, <2>1, Zenon
<1>5. ASSUME NEW i \in 1 .. K - 1 PROVE u[i] = Heard(u[i - 1], down'[i])
  <2>1. i \in 0 .. K - 1 /\ i - 1 \in 0 .. K - 1 /\ (i - 1) + 1 = i /\ i + 1 \in 1 .. K /\ (i + 1) - 1 = i
    BY <1>1
  <2>2. u[i] = t[i + 1] /\ u[i - 1] = t[i]
    BY <1>3, <2>1, Zenon
  <2>3. t[i + 1] = Heard(t[i], down[i + 1])
    BY <1>2, <2>1, Zenon
  <2> QED
    BY <1>1, <2>2, <2>3, Zenon
<1>6. Hears(me', down', u)
  BY <1>1, <1>3, <1>4, <1>5, Zenon DEF Hears
<1>7. u[Len(down')] = t[Len(down)]
  BY <1>1, <1>4 DEF K
<1>8. me' \in N!Nick \cup {N!NoNick}
  <2>1. me \in N!Nick \cup {N!NoNick}
    BY <1>1, <1>2
  <2> QED
    BY <1>1, <2>1, HeardIs
<1> QED
  BY <1>1, <1>6, <1>7, <1>8

\* What the server tells of a nick, and nothing that it tells of others, moves the bot (nick.c:46).
LEMMA TellStep ==
  ASSUME NickInv, NEW l \in Line, N!Tell(l), me' = me,
         \A n \in N!Nick \cup {N!NoNick} : (N!Registered => n = own) /\ N!Registered' => Heard(n, l) = own'
  PROVE  down' \in Seq(Line) /\ Follows'
<1>1. PICK t : Hears(me, down, t) /\ (N!Registered => t[Len(down)] = own)
  BY DEF NickInv, Follows
<1>2. down \in Seq(Line) /\ down' = Append(down, l)
  BY DEF NickInv, NickType, N!Tell
<1>3. /\ down' \in Seq(Line)
      /\ \E u : Hears(me', down', u) /\ u[Len(down')] = Heard(t[Len(down)], l)
  BY <1>1, <1>2, Told
<1>4. t[Len(down)] \in N!Nick \cup {N!NoNick}
  <2>1. Len(down) \in 0 .. Len(down)
    BY <1>2, LenProperties
  <2> QED
    BY <1>1, <2>1 DEF Hears
<1>5. N!Registered' => Heard(t[Len(down)], l) = own'
  BY <1>1, <1>4
<1>6. Follows'
  BY <1>3, <1>5 DEF Follows
<1> QED
  BY <1>3, <1>6

\* As long as nothing is told and the bot reads nothing, it follows as before, or has nobody to follow.
LEMMA SilentStep ==
  ASSUME NickInv, down' = down, me' = me, N!Registered' => N!Registered /\ own' = own
  PROVE  down' \in Seq(Line) /\ Follows'
<1>1. PICK t : Hears(me, down, t) /\ (N!Registered => t[Len(down)] = own)
  BY DEF NickInv, Follows
<1>2. Hears(me', down', t) /\ (N!Registered' => t[Len(down')] = own')
  BY <1>1
<1> QED
  BY <1>2 DEF Follows, NickInv, NickType

\* What the first line to the server asks for.
LEMMA FirstLine ==
  ASSUME NickInv, up # <<>>
  PROVE  Head(up) \in N!Nick \cup {N!User} /\ Tail(up) \in Seq(N!Nick \cup {N!User})
BY HeadTailProperties DEF NickInv, NickType

\* The kinds of line, by what they are made of.
LEMMA LineKinds ==
  /\ \A n \in N!Nick : N!Welcome(n) \in Line /\ N!Command(n) \in Line
  /\ \A n, k \in N!Nick : N!Rename(n, k) \in Line
  /\ \A n \in TakenNicks : N!InUse(n) \in Line
  /\ \A n, m : Heard(m, N!InUse(n)) = m /\ Heard(m, N!Command(n)) = m /\ Heard(m, N!Welcome(n)) = n
  /\ \A n, k, m : Heard(m, N!Rename(n, k)) = IF n = m THEN k ELSE m
<1>1. /\ \A n \in N!Nick : N!Welcome(n) \in Line /\ N!Command(n) \in Line
      /\ \A n, k \in N!Nick : N!Rename(n, k) \in Line
      /\ \A n \in TakenNicks : N!InUse(n) \in Line
  BY DEF Line
<1>2. ASSUME NEW n, NEW m
      PROVE  Heard(m, N!InUse(n)) = m /\ Heard(m, N!Command(n)) = m /\ Heard(m, N!Welcome(n)) = n
  BY DEF Heard, N!Welcome, N!InUse, N!Command
<1>3. ASSUME NEW n, NEW k, NEW m PROVE Heard(m, N!Rename(n, k)) = IF n = m THEN k ELSE m
  BY DEF Heard, N!Rename
<1> QED
  BY <1>1, <1>2, <1>3, Zenon

\* The server gives a nick, refuses it or passes it over.
LEMMA ServerNickStep == NickInv /\ N!ServerNick => NickInv'
<1> SUFFICES ASSUME NickInv, N!ServerNick PROVE NickInv'
  OBVIOUS
<1> DEFINE n == Head(up)
<1>1. /\ n \in N!Nick /\ up' \in Seq(N!Nick \cup {N!User})
      /\ UNCHANGED <<user, others, me, wanted, rested>>
  BY FirstLine DEF N!ServerNick
<1>2. others \subseteq TakenNicks /\ own \in N!Nick \cup {N!NoNick} /\ own \notin others
  BY DEF NickInv, NickType, N!TypeOK
<1>3. \/ n \in others /\ N!Tell(N!InUse(n)) /\ UNCHANGED <<own, wish>>
      \/ n = own /\ UNCHANGED <<down, own, wish>>
      \/ /\ n \notin others \cup {own}
         /\ own' = n /\ wish' = IF n = wish THEN N!NoNick ELSE wish
         /\ IF ~user THEN UNCHANGED down
            ELSE N!Tell(IF own = N!NoNick THEN N!Welcome(n) ELSE N!Rename(own, n))
  BY DEF N!ServerNick
<1> HIDE DEF n
<1>4. down' \in Seq(Line) /\ Follows'
  <2>1. CASE n \in others /\ N!Tell(N!InUse(n)) /\ UNCHANGED <<own, wish>>
    <3>1. N!InUse(n) \in Line /\ \A k : Heard(k, N!InUse(n)) = k
      BY <1>2, <2>1, LineKinds
    <3>2. N!Registered' = N!Registered /\ own' = own
      BY <1>1, <2>1 DEF N!Registered
    <3> QED
      BY <1>1, <2>1, <3>1, <3>2, TellStep
  <2>2. CASE n = own /\ UNCHANGED <<down, own, wish>>
    <3>1. N!Registered' = N!Registered /\ own' = own
      BY <1>1, <2>2 DEF N!Registered
    <3> QED
      BY <1>1, <2>2, <3>1, SilentStep
  <2>3. CASE /\ n \notin others \cup {own}
             /\ own' = n /\ wish' = IF n = wish THEN N!NoNick ELSE wish
             /\ IF ~user THEN UNCHANGED down
                ELSE N!Tell(IF own = N!NoNick THEN N!Welcome(n) ELSE N!Rename(own, n))
    <3>1. CASE ~user
      <4>1. ~N!Registered' /\ down' = down
        BY <1>1, <2>3, <3>1 DEF N!Registered
      <4> QED
        BY <1>1, <4>1, SilentStep
    <3>2. CASE user /\ own = N!NoNick
      <4>1. ~N!Registered /\ N!Tell(N!Welcome(n)) /\ own' = n
        BY <2>3, <3>2 DEF N!Registered
      <4>2. N!Welcome(n) \in Line /\ \A k : Heard(k, N!Welcome(n)) = n
        BY <1>1, LineKinds
      <4> QED
        BY <1>1, <4>1, <4>2, TellStep
    <3>3. CASE user /\ own # N!NoNick
      <4>1. N!Registered /\ N!Tell(N!Rename(own, n)) /\ own' = n /\ own \in N!Nick
        BY <1>2, <2>3, <3>3 DEF N!Registered
      <4>2. N!Rename(own, n) \in Line /\ Heard(own, N!Rename(own, n)) = n
        BY <1>1, <4>1, LineKinds
      <4> QED
        BY <1>1, <4>1, <4>2, TellStep
    <3> QED
      BY <2>3, <3>1, <3>2, <3>3
  <2> QED
    BY <1>3, <2>1, <2>2, <2>3
<1>5. own' \in N!Nick \cup {N!NoNick} /\ own' \notin others' /\ wish' \in N!Nick \cup {N!NoNick}
  BY <1>1, <1>2, <1>3 DEF NickInv, NickType, N!TypeOK
<1>6. NickType'
  BY <1>1, <1>4, <1>5 DEF NickInv, NickType, N!TypeOK
<1> QED
  BY <1>4, <1>6 DEF NickInv

\* The USER line completes the registration.
LEMMA ServerUserStep == NickInv /\ N!ServerUser => NickInv'
<1> SUFFICES ASSUME NickInv, N!ServerUser PROVE NickInv'
  OBVIOUS
<1>1. /\ up' \in Seq(N!Nick \cup {N!User}) /\ user' = TRUE
      /\ UNCHANGED <<own, others, me, wanted, rested, wish, forgotten>>
      /\ IF own = N!NoNick THEN UNCHANGED down ELSE N!Tell(N!Welcome(own))
  BY FirstLine DEF N!ServerUser
<1>2. down' \in Seq(Line) /\ Follows'
  <2>1. CASE own = N!NoNick
    <3>1. ~N!Registered'
      BY <1>1, <2>1 DEF N!Registered
    <3> QED
      BY <1>1, <2>1, <3>1, SilentStep
  <2>2. CASE own # N!NoNick
    <3>1. N!Welcome(own) \in Line /\ \A k : Heard(k, N!Welcome(own)) = own
      BY <2>2, LineKinds DEF NickInv, NickType, N!TypeOK
    <3> QED
      BY <1>1, <2>2, <3>1, TellStep
  <2> QED
    BY <2>1, <2>2
<1>3. NickType'
  BY <1>1, <1>2 DEF NickInv, NickType, N!TypeOK
<1> QED
  BY <1>2, <1>3 DEF NickInv

\* What the others do, and what an operator says, is no change of the bot's nick.
LEMMA OthersStep ==
  ASSUME NickInv, NEW n,
         \/ n \in TakenNicks /\ (N!OtherComes(n) \/ N!OtherLeaves(n) \/ \E m \in TakenNicks : N!OtherRenames(n, m))
         \/ n \in N!Nick /\ N!Order(n)
  PROVE  NickInv'
<1>1. others \subseteq TakenNicks /\ own \in N!Nick \cup {N!NoNick} /\ own \notin others
  BY DEF NickInv, NickType, N!TypeOK
<1>2. CASE n \in TakenNicks /\ (N!OtherComes(n) \/ N!OtherLeaves(n))
  <2>1. /\ UNCHANGED <<own, user, up, down, me, wanted, rested, wish, forgotten>>
        /\ others' \subseteq TakenNicks /\ own \notin others'
    BY <1>1, <1>2 DEF N!OtherComes, N!OtherLeaves
  <2>2. N!Registered' = N!Registered
    BY <2>1 DEF N!Registered
  <2>3. down' \in Seq(Line) /\ Follows'
    BY <2>1, <2>2, SilentStep
  <2>4. NickType'
    BY <2>1, <2>3 DEF NickInv, NickType, N!TypeOK
  <2> QED
    BY <2>3, <2>4 DEF NickInv
<1>3. CASE n \in TakenNicks /\ \E m \in TakenNicks : N!OtherRenames(n, m)
  <2>1. PICK m \in TakenNicks : N!OtherRenames(n, m)
    BY <1>3
  <2>2. /\ UNCHANGED <<own, user, up, me, wanted, rested, wish, forgotten>> /\ n \in others
        /\ others' \subseteq TakenNicks /\ own \notin others'
        /\ (N!Registered /\ N!Tell(N!Rename(n, m))) \/ UNCHANGED down
    BY <1>1, <2>1 DEF N!OtherRenames
  <2>3. N!Registered' = N!Registered
    BY <2>2 DEF N!Registered
  <2>4. CASE UNCHANGED down
    <3>1. down' \in Seq(Line) /\ Follows'
      BY <2>2, <2>3, <2>4, SilentStep
    <3>2. NickType'
      BY <2>2, <3>1 DEF NickInv, NickType, N!TypeOK
    <3> QED
      BY <3>1, <3>2 DEF NickInv
  <2>5. CASE N!Registered /\ N!Tell(N!Rename(n, m))
    <3>1. N!Rename(n, m) \in Line /\ Heard(own, N!Rename(n, m)) = own
      BY <1>1, <1>3, <2>2, Nicks, LineKinds
    <3>2. down' \in Seq(Line) /\ Follows'
      BY <2>2, <2>3, <2>5, <3>1, TellStep
    <3>3. NickType'
      BY <2>2, <3>2 DEF NickInv, NickType, N!TypeOK
    <3> QED
      BY <3>2, <3>3 DEF NickInv
  <2> QED
    BY <2>2, <2>4, <2>5
<1>4. CASE n \in N!Nick /\ N!Order(n)
  <2>1. UNCHANGED <<own, user, others, up, me, wanted, rested, wish, forgotten>> /\ N!Tell(N!Command(n))
    BY <1>4 DEF N!Order
  <2>2. N!Command(n) \in Line /\ \A k : Heard(k, N!Command(n)) = k
    BY <1>4, LineKinds
  <2>3. N!Registered' = N!Registered
    BY <2>1 DEF N!Registered
  <2>4. down' \in Seq(Line) /\ Follows'
    BY <2>1, <2>2, <2>3, TellStep
  <2>5. NickType'
    BY <2>1, <2>4 DEF NickInv, NickType, N!TypeOK
  <2> QED
    BY <2>4, <2>5 DEF NickInv
<1> QED
  BY <1>2, <1>3, <1>4

\* Lines that the bot asks for nicks with (nick.c:55).
LEMMA AskTyped ==
  ASSUME up \in Seq(N!Nick \cup {N!User}), NEW n \in N!Nick, N!Ask(n)
  PROVE  up' \in Seq(N!Nick \cup {N!User}) /\ rested' \in BOOLEAN
BY AppendProperties DEF N!Ask

\* Whatever line it is, the bot takes from it the nick that Heard says (nick.c:44-68).
LEMMA ReplyStep == NickInv /\ N!Reply => NickInv'
<1> SUFFICES ASSUME NickInv, N!Reply PROVE NickInv'
  OBVIOUS
<1> DEFINE l == Head(down)
<1>1. /\ down # <<>> /\ down' = Tail(down) /\ UNCHANGED <<own, user, others>>
      /\ N!ReplyWelcome(l) \/ N!ReplyNick(l) \/ N!ReplyInUse(l) \/ N!ReplyOrder(l)
  BY DEF N!Reply
<1>2. l \in Line /\ up \in Seq(N!Nick \cup {N!User}) /\ {me, wanted, wish} \subseteq N!Nick \cup {N!NoNick}
  BY <1>1, HeadTailProperties DEF NickInv, NickType, N!TypeOK
<1> HIDE DEF l
<1> DEFINE Good == /\ me' = Heard(me, l) /\ up' \in Seq(N!Nick \cup {N!User})
                   /\ wanted' \in N!Nick \cup {N!NoNick} /\ wish' \in N!Nick \cup {N!NoNick} /\ rested' \in BOOLEAN
<1>3. rested \in BOOLEAN
  BY DEF NickInv, NickType, N!TypeOK
<1>4. ASSUME N!ReplyWelcome(l) PROVE Good
  BY <1>2, <1>3, <1>4 DEF N!ReplyWelcome, Heard
<1>5. ASSUME N!ReplyNick(l) PROVE Good
  <2>1. l.what = "NICK" /\ l.new \in N!Nick /\ l.old \in N!Nick /\ wish' = wish
    BY <1>2, <1>5, Lines DEF N!ReplyNick
  <2>2. CASE /\ l.old = me /\ me' = l.new
             /\ wanted' = (IF l.new = wanted THEN N!NoNick ELSE wanted) /\ UNCHANGED <<up, rested>>
    BY <1>2, <1>3, <2>1, <2>2 DEF Heard
  <2>3. CASE l.old # me /\ l.old = wanted /\ N!Ask(wanted) /\ UNCHANGED <<me, wanted>>
    <3>1. wanted \in N!Nick
      BY <2>1, <2>3
    <3>2. up' \in Seq(N!Nick \cup {N!User}) /\ rested' \in BOOLEAN
      BY <1>2, <2>3, <3>1, AskTyped
    <3> QED
      BY <1>2, <2>1, <2>3, <3>2 DEF Heard
  <2>4. CASE l.old \notin {me, wanted} /\ UNCHANGED <<up, me, wanted, rested>>
    BY <1>2, <1>3, <2>1, <2>4 DEF Heard
  <2> QED
    BY <1>5, <2>2, <2>3, <2>4 DEF N!ReplyNick
<1>6. ASSUME N!ReplyInUse(l) PROVE Good
  <2>1. l.what = "433" /\ l.new \in N!Nick /\ l.new + 1 \in N!Nick /\ me' = me
    BY <1>2, <1>6, Lines, Nicks DEF N!ReplyInUse
  <2>2. me' = Heard(me, l)
    BY <2>1 DEF Heard
  <2>3. CASE N!Ask(l.new + 1) /\ wanted' = l.new /\ wish' \in {l.new, N!NoNick, wish}
    <3>1. up' \in Seq(N!Nick \cup {N!User}) /\ rested' \in BOOLEAN
      BY <1>2, <2>1, <2>3, AskTyped
    <3> QED
      BY <1>2, <2>1, <2>2, <2>3, <3>1
  <2>4. CASE UNCHANGED <<up, wanted, rested, wish, forgotten>>
    BY <1>2, <1>3, <2>2, <2>4
  <2> QED
    BY <1>6, <2>3, <2>4 DEF N!ReplyInUse, N!Wish
<1>7. ASSUME N!ReplyOrder(l) PROVE Good
  <2>1. l.what = "PRIVMSG" /\ l.new \in N!Nick /\ me' = me /\ N!Ask(l.new) /\ wanted' = l.new /\ N!Wish(l.new)
    BY <1>2, <1>7, Lines DEF N!ReplyOrder
  <2>2. up' \in Seq(N!Nick \cup {N!User}) /\ rested' \in BOOLEAN
    BY <1>2, <2>1, AskTyped
  <2> QED
    BY <2>1, <2>2 DEF Heard, N!Wish
<1>8. Good
  BY <1>1, <1>4, <1>5, <1>6, <1>7
<1>9. PICK t : Hears(me, down, t) /\ (N!Registered => t[Len(down)] = own)
  BY DEF NickInv, Follows
<1>10. /\ down' \in Seq(Line) /\ me' \in N!Nick \cup {N!NoNick}
       /\ \E u : Hears(me', down', u) /\ u[Len(down')] = t[Len(down)]
  BY <1>1, <1>8, <1>9, Read DEF NickInv, NickType, l
<1>11. N!Registered' = N!Registered /\ own' = own
  BY <1>1 DEF N!Registered
<1>12. Follows'
  BY <1>9, <1>10, <1>11 DEF Follows
<1>13. NickType'
  BY <1>1, <1>8, <1>10 DEF NickInv, NickType, N!TypeOK
<1> QED
  BY <1>12, <1>13 DEF NickInv

\* The timer asks again for a nick that was asked for before (nick.c:35).
LEMMA NickTimerStep == NickInv /\ (N!Timer \/ N!Rest) => NickInv'
<1> SUFFICES ASSUME NickInv, N!Timer \/ N!Rest PROVE NickInv'
  OBVIOUS
<1>1. UNCHANGED <<own, user, others, down, me, wanted, wish, forgotten>>
  BY DEF N!Timer, N!Rest, N!server
<1>2. up' \in Seq(N!Nick \cup {N!User}) /\ rested' \in BOOLEAN
  <2>1. CASE N!Timer
    <3>1. wanted \in N!Nick /\ N!Ask(wanted)
      BY <2>1 DEF N!Timer, NickInv, NickType, N!TypeOK
    <3> QED
      BY <3>1, AskTyped DEF NickInv, NickType
  <2>2. CASE N!Rest
    BY <2>2 DEF N!Rest, N!server, NickInv, NickType
  <2> QED
    BY <2>1, <2>2
<1>3. N!Registered' = N!Registered
  BY <1>1 DEF N!Registered
<1>4. down' \in Seq(Line) /\ Follows'
  BY <1>1, <1>3, SilentStep
<1>5. NickType'
  BY <1>1, <1>2, <1>4 DEF NickInv, NickType, N!TypeOK
<1> QED
  BY <1>4, <1>5 DEF NickInv

\* The walk of the module Nick is that of Lists.
LEMMA NickSublist == \A s, I : N!Sublist(s, I) = Sublist(s, I)
BY DEF N!Sublist, Sublist

\* With nothing under way the bot follows if it need not.
LEMMA FollowsNothing ==
  ASSUME down' = <<>>, me' \in N!Nick \cup {N!NoNick}, ~N!Registered'
  PROVE  down' \in Seq(Line) /\ Follows'
<1> DEFINE t == [i \in 0 .. 0 |-> me']
<1>1. down' \in Seq(Line) /\ Len(down') = 0
  BY EmptySeq
<1>2. t \in [0 .. Len(down') -> N!Nick \cup {N!NoNick}] /\ t[0] = me' /\ \A i \in 1 .. Len(down') : FALSE
  BY <1>1
<1>3. Hears(me', down', t)
  BY <1>2 DEF Hears
<1> QED
  BY <1>1, <1>3 DEF Follows

\* A connection that is made anew begins without a nick (irc.c:328).
LEMMA ReconnectStep == NickInv /\ N!Reconnect => NickInv'
<1> SUFFICES ASSUME NickInv, N!Reconnect PROVE NickInv'
  OBVIOUS
<1>1. /\ own' = N!NoNick /\ user' = FALSE /\ down' = <<>> /\ me' = N!NoNick
      /\ UNCHANGED <<others, wanted, rested, wish, forgotten>>
  BY DEF N!Reconnect
<1>2. up' \in Seq(N!Nick \cup {N!User})
  <2>1. PICK i \in 0 .. Len(up) : up' = N!Sublist(up, {j \in i + 1 .. Len(up) : up[j] # N!User}) \o <<0, N!User>>
    BY DEF N!Reconnect
  <2> DEFINE kept == N!Sublist(up, {j \in i + 1 .. Len(up) : up[j] # N!User})
             S == N!Nick \cup {N!User}
  <2>2. kept = Sublist(up, {j \in i + 1 .. Len(up) : up[j] # N!User})
    BY NickSublist
  <2>3. up \in Seq(S) /\ 0 \in S /\ N!User \in S
    BY Nicks DEF NickInv, NickType
  <2>4. <<0, N!User>> \in Seq(S)
    BY <2>3
  <2> HIDE DEF S
  <2>5. kept \in Seq(S)
    BY <2>2, <2>3, SublistIs
  <2> HIDE DEF kept
  <2>6. kept \o <<0, N!User>> \in Seq(S)
    BY <2>4, <2>5, ConcatProperties
  <2> QED
    BY <2>1, <2>6 DEF kept, S
<1>3. ~N!Registered'
  BY <1>1 DEF N!Registered
<1>4. down' \in Seq(Line) /\ Follows'
  BY <1>1, <1>3, FollowsNothing
<1>5. NickType'
  <2>1. own' \notin others'
    BY <1>1, Nicks DEF NickInv, NickType, N!TypeOK
  <2> QED
    BY <1>1, <1>2, <1>4, <2>1 DEF NickInv, NickType, N!TypeOK
<1> QED
  BY <1>4, <1>5 DEF NickInv

\* The bot asks for its first nick before it is known by any.
LEMMA NickInit == N!Init => NickInv
<1> SUFFICES ASSUME N!Init PROVE NickInv
  OBVIOUS
<1> DEFINE t == [i \in 0 .. 0 |-> me]
<1>1. /\ own = N!NoNick /\ user = FALSE /\ others \in SUBSET TakenNicks /\ up = <<0, N!User>> /\ down = <<>>
      /\ me = N!NoNick /\ wanted = N!NoNick /\ rested = TRUE /\ wish = N!NoNick
  BY DEF N!Init
<1>2. up \in Seq(N!Nick \cup {N!User})
  BY <1>1, Nicks
<1>3. down \in Seq(Line) /\ Len(down) = 0
  BY <1>1, EmptySeq
<1>4. t \in [0 .. Len(down) -> N!Nick \cup {N!NoNick}] /\ t[0] = me /\ \A i \in 1 .. Len(down) : FALSE
  BY <1>1, <1>3
<1>5. Hears(me, down, t)
  BY <1>4 DEF Hears
<1>6. Follows
  BY <1>1, <1>5 DEF Follows, N!Registered
<1>7. NickType
  BY <1>1, <1>2, <1>3, Nicks DEF NickType, N!TypeOK
<1> QED
  BY <1>6, <1>7 DEF NickInv

\* Every step keeps the invariant.
LEMMA NickNext == NickInv /\ [N!Next]_N!vars => NickInv'
<1> SUFFICES ASSUME NickInv, [N!Next]_N!vars PROVE NickInv'
  OBVIOUS
<1>1. CASE N!ServerNick
  BY <1>1, ServerNickStep
<1>2. CASE N!ServerUser
  BY <1>2, ServerUserStep
<1>3. ASSUME NEW n \in TakenNicks, N!OtherComes(n) \/ N!OtherLeaves(n) \/ \E m \in TakenNicks : N!OtherRenames(n, m)
      PROVE  NickInv'
  BY <1>3, OthersStep
<1>4. CASE N!Reply
  BY <1>4, ReplyStep
<1>5. CASE N!Timer \/ N!Rest
  BY <1>5, NickTimerStep
<1>6. CASE N!Reconnect
  BY <1>6, ReconnectStep
<1>7. ASSUME NEW n \in N!Nick, N!Order(n) PROVE NickInv'
  BY <1>7, OthersStep
<1>8. CASE UNCHANGED N!vars
  <2>1. UNCHANGED <<own, user, others, up, down, me, wanted, rested, wish, forgotten>>
    BY <1>8 DEF N!vars, N!server
  <2>2. N!Registered' = N!Registered
    BY <2>1 DEF N!Registered
  <2>3. down' \in Seq(Line) /\ Follows'
    BY <2>1, <2>2, SilentStep
  <2>4. NickType'
    BY <2>1, <2>3 DEF NickInv, NickType, N!TypeOK
  <2> QED
    BY <2>3, <2>4 DEF NickInv
<1> QED
  BY <1>1, <1>2, <1>3, <1>4, <1>5, <1>6, <1>7, <1>8 DEF N!Next

\* Once everything under way has arrived the bot knows the nick that the server has for it, however
\* renames of the bot and of others have crossed, and however many nicks and lines there are (nick.c:44).
THEOREM NickKnowsName == N!Spec => []KnowsName
<1>1. NickInv => KnowsName
  <2> SUFFICES ASSUME NickInv, N!Registered, down = <<>> PROVE me = own
    BY DEF NickInv, NickType, KnowsName, N!KnowsName
  <2>1. PICK t : Hears(me, down, t) /\ (N!Registered => t[Len(down)] = own)
    BY DEF NickInv, Follows
  <2>2. Len(down) = 0
    BY EmptySeq
  <2> QED
    BY <2>1, <2>2 DEF Hears
<1> QED
  BY <1>1, NickInit, NickNext, PTL DEF N!Spec

-----------------------------------------------------------------------------
(* Reminder *)

\* A reminder as it is kept, and as it may look in the middle of a run of the timer.
Kept == [nick : Nickname, channel : BOOLEAN, due : 0 .. MaxDuration, by : Person, seen : BOOLEAN]
Aged == [nick : Nickname, channel : BOOLEAN, due : Int, by : Person, seen : BOOLEAN]

\* Who has been seen ever since has the nick that is kept.
Known(rs, names) == \A i \in DOMAIN rs : rs[i].seen => rs[i].nick = names[rs[i].by]

PeopleInv ==
  /\ called \in [Person -> Nickname \cup {Offline}] /\ present \subseteq R!Present /\ listening \in BOOLEAN
  /\ \A p, q \in R!Present : called[p] = called[q] => p = q

ReminderInv ==
  /\ PeopleInv
  /\ reminders \in Seq(Kept) /\ remindercnt \in Nat /\ R!CountTrue
  /\ Known(reminders, called)
  /\ \A g \in given : g.seen => g.to = called[g.by]

\* A duration that is stored is at most a year (reminder.c:98).
LEMMA DurationsKept == R!Durations \subseteq 0 .. MaxDuration
<1>1. ASSUME NEW n \in 0 .. Word - 1, NEW unit \in {1, Minute, Hour}
      PROVE  R!Seconds(n, unit) \in (0 .. MaxDuration) \cup {-1}
  <2>1. n * unit \in Nat
    BY ReminderAssumption
  <2>2. PICK k \in Nat : k = n * unit
    BY <2>1
  <2>3. k % Word \in 0 .. Word - 1
    BY ReminderAssumption
  <2> QED
    BY <2>2, <2>3, ReminderAssumption DEF R!Seconds
<1> QED
  BY <1>1 DEF R!Durations

\* A new reminder is for the one who asks, under the nick he has (reminder.c:104).
LEMMA RemindStep ==
  ASSUME ReminderInv, NEW p \in Person, NEW inChannel \in BOOLEAN, NEW d \in R!Durations, R!Remind(p, inChannel, d)
  PROVE  ReminderInv'
<1> DEFINE r == [nick |-> called[p], channel |-> inChannel, due |-> d, by |-> p, seen |-> TRUE]
<1>1. /\ p \in R!Present /\ remindercnt < MAX_TIMER /\ reminders' = <<r>> \o reminders
      /\ remindercnt' = remindercnt + 1 /\ given' = {}
      /\ UNCHANGED <<called, present, listening>>
  BY DEF R!Remind, R!people
<1>2. called[p] \in Nickname /\ d \in 0 .. MaxDuration
  BY <1>1, DurationsKept DEF ReminderInv, PeopleInv, R!Present
<1>3. r \in Kept
  BY <1>2 DEF Kept
<1>4. r.nick = called[p] /\ r.by = p
  OBVIOUS
<1> HIDE DEF r
<1> DEFINE K == Len(reminders)
<1>5. reminders \in Seq(Kept) /\ <<r>> \in Seq(Kept) /\ Len(<<r>>) = 1 /\ <<r>>[1] = r
  BY <1>3 DEF ReminderInv
<1>6. /\ reminders' \in Seq(Kept) /\ Len(reminders') = 1 + K /\ K \in Nat /\ DOMAIN reminders = 1 .. K
      /\ DOMAIN reminders' = 1 .. 1 + K
      /\ \A i \in 1 .. 1 + K : reminders'[i] = IF i <= 1 THEN <<r>>[i] ELSE reminders[i - 1]
  BY <1>1, <1>5, ConcatProperties, LenProperties
<1>7. Known(reminders', called')
  <2> SUFFICES ASSUME NEW i \in 1 .. 1 + K, reminders'[i].seen PROVE reminders'[i].nick = called[reminders'[i].by]
    BY <1>1, <1>6 DEF Known
  <2>1. CASE i = 1
    <3>1. reminders'[i] = r
      BY <1>5, <1>6, <2>1
    <3> QED
      BY <1>4, <3>1
  <2>2. CASE i # 1
    <3>1. i - 1 \in 1 .. K /\ reminders'[i] = reminders[i - 1]
      BY <1>6, <2>2
    <3> QED
      BY <1>6, <3>1 DEF ReminderInv, Known
  <2> QED
    BY <2>1, <2>2
<1>8. PeopleInv'
  BY <1>1 DEF ReminderInv, PeopleInv, R!Present
<1>9. remindercnt' \in Nat /\ R!CountTrue'
  BY <1>1, <1>6, ReminderAssumption DEF ReminderInv, R!CountTrue
<1> QED
  BY <1>1, <1>6, <1>7, <1>8, <1>9 DEF ReminderInv

\* After a NICK line the reminders of the old nick have the new one, and the others are as they were
\* (reminder.c:114).
LEMMA RenamedIs ==
  ASSUME NEW rs \in Seq(Kept), NEW old, NEW new \in Nickname
  PROVE  /\ R!Renamed(rs, old, new) \in Seq(Kept) /\ Len(R!Renamed(rs, old, new)) = Len(rs)
         /\ DOMAIN R!Renamed(rs, old, new) = DOMAIN rs
         /\ \A i \in DOMAIN rs :
              LET r == R!Renamed(rs, old, new)[i]
              IN  /\ rs[i] \in Kept /\ r.by = rs[i].by /\ r.seen = rs[i].seen
                  /\ r.nick = IF rs[i].nick = old THEN new ELSE rs[i].nick
<1> DEFINE f == [r \in Kept |-> IF r.nick = old THEN [r EXCEPT !.nick = new] ELSE r]
           ts == [i \in DOMAIN rs |-> f[rs[i]]]
<1>1. ASSUME NEW r \in Kept
      PROVE  /\ f[r] \in Kept /\ f[r].by = r.by /\ f[r].seen = r.seen
             /\ f[r].nick = IF r.nick = old THEN new ELSE r.nick
  BY DEF Kept
<1>2. f \in [Kept -> Kept]
  BY <1>1
<1>3. \A i \in DOMAIN rs : rs[i] \in Kept
  BY ElementOfSeq, LenProperties
<1>4. R!Renamed(rs, old, new) = ts
  BY <1>3 DEF R!Renamed
<1> HIDE DEF f
<1>5. /\ ts \in Seq(Kept) /\ Len(ts) = Len(rs) /\ DOMAIN ts = DOMAIN rs
      /\ \A i \in DOMAIN rs : ts[i] = f[rs[i]] /\ rs[i] \in Kept
  BY <1>2, Mapped
<1> HIDE DEF ts
<1> QED
  BY <1>1, <1>4, <1>5

\* Who is lost from sight is seen no more, and nothing else changes.
LEMMA UnseenIs ==
  ASSUME NEW rs \in Seq(Kept), NEW lost
  PROVE  /\ R!Unseen(rs, lost) \in Seq(Kept) /\ Len(R!Unseen(rs, lost)) = Len(rs)
         /\ DOMAIN R!Unseen(rs, lost) = DOMAIN rs
         /\ \A i \in DOMAIN rs :
              LET r == R!Unseen(rs, lost)[i]
              IN  /\ rs[i] \in Kept /\ r.by = rs[i].by /\ r.nick = rs[i].nick
                  /\ r.seen = (rs[i].seen /\ rs[i].by \notin lost)
<1> DEFINE f == [r \in Kept |-> [r EXCEPT !.seen = r.seen /\ r.by \notin lost]]
           ts == [i \in DOMAIN rs |-> f[rs[i]]]
<1>1. ASSUME NEW r \in Kept
      PROVE  /\ f[r] \in Kept /\ f[r].by = r.by /\ f[r].nick = r.nick
             /\ f[r].seen = (r.seen /\ r.by \notin lost)
  BY DEF Kept
<1>2. f \in [Kept -> Kept]
  BY <1>1
<1>3. \A i \in DOMAIN rs : rs[i] \in Kept
  BY ElementOfSeq, LenProperties
<1>4. R!Unseen(rs, lost) = ts
  BY <1>3 DEF R!Unseen
<1> HIDE DEF f
<1>5. /\ ts \in Seq(Kept) /\ Len(ts) = Len(rs) /\ DOMAIN ts = DOMAIN rs
      /\ \A i \in DOMAIN rs : ts[i] = f[rs[i]] /\ rs[i] \in Kept
  BY <1>2, Mapped
<1> HIDE DEF ts
<1> QED
  BY <1>1, <1>4, <1>5

\* As many reminders, and the same count of them.
LEMMA CountKept ==
  ASSUME ReminderInv, reminders' \in Seq(Kept), Len(reminders') = Len(reminders), remindercnt' = remindercnt
  PROVE  remindercnt' \in Nat /\ R!CountTrue'
BY DEF ReminderInv, R!CountTrue

\* A free nick is nobody's, so that names stay different.
LEMMA NewName ==
  ASSUME PeopleInv, NEW p \in Person, NEW n \in R!Free, called' = [called EXCEPT ![p] = n],
         present' = present, listening' = listening
  PROVE  /\ PeopleInv' /\ n \in Nickname /\ called'[p] = n
         /\ \A q \in Person : q # p => called'[q] = called[q]
<1>1. /\ called \in [Person -> Nickname \cup {Offline}] /\ n \in Nickname /\ n # Offline
      /\ \A q \in Person : called[q] # n
  BY ReminderAssumption DEF PeopleInv, R!Free
<1>2. /\ called' \in [Person -> Nickname \cup {Offline}] /\ called'[p] = n
      /\ \A q \in Person : q # p => called'[q] = called[q]
  BY <1>1
<1>3. R!Present' = R!Present \cup {p}
  BY <1>1, <1>2 DEF R!Present
<1>4. ASSUME NEW q \in R!Present', NEW r \in R!Present', called'[q] = called'[r] PROVE q = r
  BY <1>1, <1>2, <1>3, <1>4 DEF PeopleInv, R!Present
<1>5. PeopleInv'
  BY <1>2, <1>3, <1>4 DEF PeopleInv
<1> QED
  BY <1>1, <1>2, <1>5

\* The reminders follow those the bot sees, and are given up as to the others (reminder.c:114).
LEMMA RenameStep ==
  ASSUME ReminderInv, NEW p \in Person, NEW n \in Nickname, R!Rename(p, n)
  PROVE  ReminderInv'
<1>1. /\ p \in R!Present /\ n \in R!Free /\ called' = [called EXCEPT ![p] = n] /\ given' = {}
      /\ UNCHANGED <<present, listening, remindercnt>>
      /\ reminders' = IF listening /\ p \in present THEN R!Renamed(reminders, called[p], n)
                      ELSE R!Unseen(reminders, {p})
  BY DEF R!Rename
<1>2. reminders \in Seq(Kept) /\ PeopleInv /\ Known(reminders, called)
  BY DEF ReminderInv
<1>3. /\ PeopleInv' /\ called'[p] = n /\ \A q \in Person : q # p => called'[q] = called[q]
  BY <1>1, <1>2, NewName
<1>4. /\ reminders' \in Seq(Kept) /\ Len(reminders') = Len(reminders) /\ Known(reminders', called')
  <2>1. CASE listening /\ p \in present
    <3> DEFINE rs == R!Renamed(reminders, called[p], n)
    <3>1. /\ rs \in Seq(Kept) /\ Len(rs) = Len(reminders) /\ DOMAIN rs = DOMAIN reminders
          /\ \A i \in DOMAIN reminders :
               /\ reminders[i] \in Kept /\ rs[i].by = reminders[i].by /\ rs[i].seen = reminders[i].seen
               /\ rs[i].nick = IF reminders[i].nick = called[p] THEN n ELSE reminders[i].nick
      BY <1>2, RenamedIs
    <3>2. reminders' = rs
      BY <1>1, <2>1
    <3> HIDE DEF rs
    <3>3. ASSUME NEW i \in DOMAIN reminders, rs[i].seen PROVE rs[i].nick = called'[rs[i].by]
      <4>1. reminders[i].seen /\ reminders[i].nick = called[reminders[i].by] /\ reminders[i].by \in Person
        BY <1>2, <3>1, <3>3 DEF Known, Kept
      <4>2. CASE reminders[i].by = p
        BY <1>3, <3>1, <4>1, <4>2
      <4>3. CASE reminders[i].by # p
        <5>1. reminders[i].by \in R!Present
          BY <3>1, <4>1, ReminderAssumption DEF Kept, R!Present
        <5>2. reminders[i].nick # called[p]
          BY <1>1, <1>2, <4>1, <4>3, <5>1 DEF PeopleInv
        <5> QED
          BY <1>3, <3>1, <4>1, <4>3, <5>2
      <4> QED
        BY <4>2, <4>3
    <3> QED
      BY <3>1, <3>2, <3>3 DEF Known
  <2>2. CASE ~(listening /\ p \in present)
    <3> DEFINE rs == R!Unseen(reminders, {p})
    <3>1. /\ rs \in Seq(Kept) /\ Len(rs) = Len(reminders) /\ DOMAIN rs = DOMAIN reminders
          /\ \A i \in DOMAIN reminders :
               /\ reminders[i] \in Kept /\ rs[i].by = reminders[i].by /\ rs[i].nick = reminders[i].nick
               /\ rs[i].seen = (reminders[i].seen /\ reminders[i].by \notin {p})
      BY <1>2, UnseenIs
    <3>2. reminders' = rs
      BY <1>1, <2>2
    <3> HIDE DEF rs
    <3>3. ASSUME NEW i \in DOMAIN reminders, rs[i].seen PROVE rs[i].nick = called'[rs[i].by]
      <4>1. /\ reminders[i].nick = called[reminders[i].by]
            /\ reminders[i].by \in Person /\ reminders[i].by # p
        BY <1>2, <3>1, <3>3 DEF Known, Kept
      <4> QED
        BY <1>3, <3>1, <4>1
    <3> QED
      BY <3>1, <3>2, <3>3 DEF Known
  <2> QED
    BY <2>1, <2>2
<1>5. remindercnt' \in Nat /\ R!CountTrue'
  BY <1>1, <1>4, CountKept
<1> QED
  BY <1>1, <1>3, <1>4, <1>5 DEF ReminderInv

\* Who quits is lost from sight.
LEMMA QuitStep ==
  ASSUME ReminderInv, NEW p \in Person, R!Quit(p)
  PROVE  ReminderInv'
<1>1. /\ p \in R!Present /\ called' = [called EXCEPT ![p] = Offline] /\ present' = present \ {p}
      /\ reminders' = R!Unseen(reminders, {p}) /\ given' = {} /\ UNCHANGED <<listening, remindercnt>>
  BY DEF R!Quit
<1>2. reminders \in Seq(Kept) /\ PeopleInv /\ Known(reminders, called)
  BY DEF ReminderInv
<1>3. /\ called' \in [Person -> Nickname \cup {Offline}] /\ called'[p] = Offline
      /\ \A q \in Person : q # p => called'[q] = called[q]
  BY <1>1, <1>2 DEF PeopleInv
<1>4. R!Present' = R!Present \ {p}
  BY <1>3 DEF R!Present
<1>5. PeopleInv'
  BY <1>1, <1>2, <1>3, <1>4 DEF PeopleInv, R!Present
<1> DEFINE rs == R!Unseen(reminders, {p})
<1>6. /\ rs \in Seq(Kept) /\ Len(rs) = Len(reminders) /\ DOMAIN rs = DOMAIN reminders
      /\ \A i \in DOMAIN reminders :
           /\ reminders[i] \in Kept /\ rs[i].by = reminders[i].by /\ rs[i].nick = reminders[i].nick
           /\ rs[i].seen = (reminders[i].seen /\ reminders[i].by \notin {p})
  BY <1>2, UnseenIs
<1>7. reminders' = rs
  BY <1>1
<1> HIDE DEF rs
<1>8. ASSUME NEW i \in DOMAIN reminders, rs[i].seen PROVE rs[i].nick = called'[rs[i].by]
  <2>1. reminders[i].nick = called[reminders[i].by] /\ reminders[i].by \in Person /\ reminders[i].by # p
    BY <1>2, <1>6, <1>8 DEF Known, Kept
  <2> QED
    BY <1>3, <1>6, <2>1
<1>9. Known(reminders', called')
  BY <1>6, <1>7, <1>8 DEF Known
<1>10. remindercnt' \in Nat /\ R!CountTrue'
  BY <1>1, <1>6, <1>7, CountKept
<1> QED
  BY <1>1, <1>5, <1>6, <1>7, <1>9, <1>10 DEF ReminderInv

\* Who comes has no reminder that is seen to be his.
LEMMA ComeStep ==
  ASSUME ReminderInv, NEW p \in Person, NEW n \in Nickname, R!Come(p, n)
  PROVE  ReminderInv'
<1>1. /\ p \notin R!Present /\ n \in R!Free /\ called' = [called EXCEPT ![p] = n] /\ given' = {}
      /\ UNCHANGED <<present, listening, remindercnt, reminders>>
  BY DEF R!Come
<1>2. reminders \in Seq(Kept) /\ PeopleInv /\ Known(reminders, called)
  BY DEF ReminderInv
<1>3. PeopleInv' /\ \A q \in Person : q # p => called'[q] = called[q]
  BY <1>1, <1>2, NewName
<1>4. ASSUME NEW i \in DOMAIN reminders, reminders[i].seen
      PROVE  reminders[i].nick = called'[reminders[i].by]
  <2>1. reminders[i] \in Kept
    BY <1>2, ElementOfSeq, LenProperties
  <2>2. reminders[i].nick = called[reminders[i].by] /\ reminders[i].nick # Offline
    BY <1>2, <1>4, <2>1, ReminderAssumption DEF Known, Kept
  <2>3. reminders[i].by \in Person /\ reminders[i].by # p
    BY <1>1, <2>1, <2>2 DEF Kept, R!Present
  <2> QED
    BY <1>3, <2>2, <2>3
<1>5. Known(reminders', called')
  BY <1>1, <1>4 DEF Known
<1>6. remindercnt' \in Nat /\ R!CountTrue'
  BY <1>1, <1>2, CountKept
<1> QED
  BY <1>1, <1>2, <1>3, <1>5, <1>6 DEF ReminderInv

\* Joining, parting, the connection and a reload concern no name.
LEMMA OtherwiseStep ==
  ASSUME ReminderInv, (\E p \in Person : R!Join(p) \/ R!Part(p)) \/ R!Disconnect \/ R!Reload
  PROVE  ReminderInv'
<1>1. called' = called /\ present' \subseteq R!Present /\ listening' \in BOOLEAN /\ given' = {}
  BY DEF ReminderInv, PeopleInv, R!Join, R!Part, R!Disconnect, R!Reload, R!people
<1>2. PeopleInv'
  BY <1>1 DEF ReminderInv, PeopleInv, R!Present
<1>3. CASE UNCHANGED <<reminders, remindercnt>>
  BY <1>1, <1>2, <1>3 DEF ReminderInv, Known, R!CountTrue
<1>4. CASE R!Reload
  <2>1. reminders' = <<>> /\ remindercnt' = 0
    BY <1>4 DEF R!Reload
  <2>2. reminders' \in Seq(Kept) /\ Len(reminders') = 0 /\ DOMAIN reminders' = {}
    BY <2>1, EmptySeq
  <2> QED
    BY <1>1, <1>2, <2>1, <2>2, ReminderAssumption DEF ReminderInv, Known, R!CountTrue
<1> QED
  BY <1>3, <1>4 DEF R!Join, R!Part, R!Disconnect

\* The walk of the module Reminder is that of Lists.
LEMMA ReminderSublist == \A s, I : R!Sublist(s, I) = Sublist(s, I)
BY DEF R!Sublist, Sublist

\* So is the number of entries that it counts.
LEMMA ReminderCardinality == \A S : R!Cardinality(S) = Cardinality(S)
BY DEF R!Cardinality, Cardinality

\* The timer sends to whoever is kept, and forgets as many reminders as it counts down (reminder.c:54-62).
LEMMA TimerStep ==
  ASSUME ReminderInv, NEW passed \in 1 .. Late, R!Timer(passed)
  PROVE  ReminderInv'
<1> DEFINE f == [r \in Kept |-> [r EXCEPT !.due = r.due - passed]]
           after == [i \in DOMAIN reminders |-> [reminders[i] EXCEPT !.due = @ - passed]]
           due == {i \in DOMAIN after : after[i].due <= 0}
<1>1. reminders \in Seq(Kept) /\ PeopleInv /\ Known(reminders, called) /\ passed \in Nat
  BY ReminderAssumption DEF ReminderInv
<1>2. /\ given' = {[to |-> after[i].nick, by |-> after[i].by, seen |-> after[i].seen] :
                     i \in {i \in due : after[i].channel => R!Here(after[i].nick)}}
      /\ reminders' = R!Sublist(after, DOMAIN after \ due)
      /\ remindercnt' = remindercnt - Cardinality(due)
      /\ UNCHANGED <<called, present, listening>>
  BY ReminderCardinality DEF R!Timer, R!people
<1>3. ASSUME NEW r \in Kept
      PROVE  /\ f[r] \in Aged /\ f[r].by = r.by /\ f[r].nick = r.nick /\ f[r].seen = r.seen
             /\ f[r].due = r.due - passed /\ (f[r].due > 0 => f[r] \in Kept)
  <2>1. f[r] = [r EXCEPT !.due = r.due - passed]
    OBVIOUS
  <2> DEFINE q == [r EXCEPT !.due = r.due - passed]
  <2>2. q \in Aged /\ q.by = r.by /\ q.nick = r.nick /\ q.seen = r.seen /\ q.due = r.due - passed
    BY <1>1, ReminderAssumption, SMTT(30) DEF Kept, Aged
  <2>3. q.due > 0 => q \in Kept
    <3>1. r.due \in 0 .. MaxDuration /\ MaxDuration \in Nat /\ passed \in Nat
      BY <1>1, ReminderAssumption DEF Kept
    <3>2. r.due - passed > 0 => r.due - passed \in 0 .. MaxDuration
      BY <3>1
    <3>3. r.due - passed \in 0 .. MaxDuration => q \in Kept
      BY DEF Kept
    <3> QED
      BY <2>2, <3>2, <3>3
  <2> HIDE DEF f, q
  <2> QED
    BY <2>1, <2>2, <2>3 DEF q
<1>4. f \in [Kept -> Aged]
  BY <1>3
<1>5. \A i \in DOMAIN reminders : reminders[i] \in Kept
  BY <1>1, ElementOfSeq, LenProperties
<1>6. after = [i \in DOMAIN reminders |-> f[reminders[i]]]
  BY <1>5
<1> HIDE DEF f
<1> DEFINE K == Len(reminders)
<1>7. /\ after \in Seq(Aged) /\ Len(after) = K /\ DOMAIN after = 1 .. K /\ DOMAIN reminders = 1 .. K
      /\ \A i \in 1 .. K : after[i] = f[reminders[i]] /\ reminders[i] \in Kept
  <2>1. DOMAIN reminders = 1 .. K
    BY <1>1, LenProperties
  <2> HIDE DEF after
  <2> QED
    BY <1>1, <1>4, <1>6, <2>1, Mapped
<1> HIDE DEF after
<1>8. \A i \in 1 .. K : after[i].seen => after[i].nick = called[after[i].by]
  BY <1>1, <1>3, <1>7 DEF Known
<1>9. \A g \in given' : g.seen => g.to = called'[g.by]
  BY <1>2, <1>7, <1>8
<1> DEFINE I == (1 .. K) \ due
<1>10. reminders' = Sublist(after, I) /\ due \subseteq 1 .. K
  BY <1>2, <1>7, ReminderSublist
<1>11. \A i \in I : i \in 1 .. K /\ after[i] \in Kept
  <2> TAKE i \in I
  <2>1. i \in 1 .. K /\ ~(after[i].due <= 0)
    BY <1>7
  <2>2. after[i].due \in Int
    BY <1>1, <1>3, <1>7, <2>1 DEF Aged
  <2> QED
    BY <1>3, <1>7, <2>1, <2>2
<1> HIDE DEF I
<1>12. /\ reminders' \in Seq(Aged) /\ DOMAIN reminders' = 1 .. Len(reminders') /\ Len(reminders') \in Nat
       /\ \A k \in 1 .. Len(reminders') : \E i \in I : reminders'[k] = after[i]
  <2>1. reminders' \in Seq(Aged)
    BY <1>7, <1>10, SublistIs
  <2>2. \A k \in 1 .. Len(Sublist(after, I)) : \E i \in 1 .. Len(after) : i \in I /\ Sublist(after, I)[k] = after[i]
    BY <1>7, SublistEntries, SMTT(30)
  <2>3. Len(reminders') \in Nat /\ DOMAIN reminders' = 1 .. Len(reminders')
    BY <2>1, LenProperties
  <2> QED
    BY <1>10, <2>1, <2>2, <2>3
<1>13. reminders' \in Seq(Kept) /\ Known(reminders', called')
  <2>1. \A k \in 1 .. Len(reminders') : reminders'[k] \in Kept
    BY <1>11, <1>12
  <2>2. \A k \in 1 .. Len(reminders') : reminders'[k].seen => reminders'[k].nick = called[reminders'[k].by]
    BY <1>8, <1>11, <1>12
  <2>3. reminders' = [k \in 1 .. Len(reminders') |-> reminders'[k]]
    BY <1>12
  <2> QED
    BY <1>2, <1>12, <2>1, <2>2, <2>3 DEF Known
<1>14. remindercnt' \in Nat /\ R!CountTrue'
  <2> HIDE DEF due
  <2>1. Cardinality(due) \in Nat /\ Len(Sublist(after, (1 .. Len(after)) \ due)) = Len(after) - Cardinality(due)
    BY <1>7, <1>10, SublistLength
  <2>2. Len(reminders') = K - Cardinality(due)
    BY <1>7, <1>10, <2>1 DEF I
  <2>3. remindercnt = K /\ K <= MAX_TIMER
    BY DEF ReminderInv, R!CountTrue
  <2>4. remindercnt' = Len(reminders')
    BY <1>2, <2>2, <2>3
  <2>5. Len(reminders') <= K /\ K \in Nat
    BY <1>1, <1>12, <2>1, <2>2, LenProperties
  <2> QED
    BY <1>12, <2>3, <2>4, <2>5, ReminderAssumption DEF R!CountTrue
<1>15. PeopleInv'
  BY <1>1, <1>2 DEF PeopleInv, R!Present
<1> QED
  BY <1>9, <1>13, <1>14, <1>15 DEF ReminderInv

\* At first nothing is kept.
LEMMA ReminderInit == R!Init => ReminderInv
<1> SUFFICES ASSUME R!Init PROVE ReminderInv
  OBVIOUS
<1>1. PeopleInv
  BY DEF R!Init, PeopleInv
<1>2. reminders \in Seq(Kept) /\ Len(reminders) = 0 /\ DOMAIN reminders = {}
  BY EmptySeq DEF R!Init
<1> QED
  BY <1>1, <1>2, ReminderAssumption DEF R!Init, ReminderInv, R!CountTrue, Known

\* Every step keeps the invariant.
LEMMA ReminderNext == ReminderInv /\ [R!Next]_R!vars => ReminderInv'
<1> SUFFICES ASSUME ReminderInv, [R!Next]_R!vars PROVE ReminderInv'
  OBVIOUS
<1>1. ASSUME NEW p \in Person, NEW inChannel \in BOOLEAN, NEW d \in R!Durations, R!Remind(p, inChannel, d)
      PROVE  ReminderInv'
  BY <1>1, RemindStep
<1>2. ASSUME NEW p \in Person, NEW n \in Nickname, R!Rename(p, n) PROVE ReminderInv'
  BY <1>2, RenameStep
<1>3. ASSUME NEW p \in Person, NEW n \in Nickname, R!Come(p, n) PROVE ReminderInv'
  BY <1>3, ComeStep
<1>4. ASSUME NEW p \in Person, R!Quit(p) PROVE ReminderInv'
  BY <1>4, QuitStep
<1>5. CASE (\E p \in Person : R!Join(p) \/ R!Part(p)) \/ R!Disconnect \/ R!Reload
  BY <1>5, OtherwiseStep
<1>6. ASSUME NEW passed \in 1 .. Late, R!Timer(passed) PROVE ReminderInv'
  BY <1>6, TimerStep
<1>7. CASE UNCHANGED R!vars
  <2>1. UNCHANGED <<called, present, listening, reminders, remindercnt, given>>
    BY <1>7 DEF R!vars, R!people
  <2> QED
    BY <2>1 DEF ReminderInv, PeopleInv, R!Present, R!CountTrue, Known
<1> QED
  BY <1>1, <1>2, <1>3, <1>4, <1>5, <1>6, <1>7 DEF R!Next

\* For any people, nicks, durations and widths of an integer: a reminder goes to the one who set it, under
\* whatever nick by then, if the bot has seen all the renames; none is kept longer than a year, and the
\* count is the number of reminders (reminder.c:60, 98, 114).
THEOREM ReminderReachesOwner == R!Spec => []ReachesOwner
<1>1. ReminderInv => ReachesOwner
  <2> SUFFICES ASSUME ReminderInv PROVE ReachesOwner
    OBVIOUS
  <2>1. \A i \in DOMAIN reminders : reminders[i] \in Kept
    BY ElementOfSeq, LenProperties DEF ReminderInv
  <2>2. \A i \in DOMAIN reminders :
          /\ reminders[i] \in [nick : Nickname, channel : BOOLEAN, due : Nat, by : Person, seen : BOOLEAN]
          /\ reminders[i].due \in 0 .. MaxDuration
    BY <2>1, ReminderAssumption DEF Kept
  <2>3. R!TypeOK
    BY <2>2 DEF ReminderInv, PeopleInv, R!TypeOK
  <2> QED
    BY <2>2, <2>3 DEF ReminderInv, ReachesOwner, R!ReachesOwner
<1> QED
  BY <1>1, ReminderInit, ReminderNext, PTL DEF R!Spec

-----------------------------------------------------------------------------
(* Eliza *)

Conversation == [nick : Partner, channel : Channel, left : -1 .. CONV_TIMEOUT, blind : BOOLEAN]
Answer(V) == [channel : Channel, of : V, left : -1 .. MaxDelay]

\* Who is there, and who is in a channel
There(names) == {x \in Person : names[x] # Offline}
Sits(names, mem, n, ch) == \E x \in There(names) : names[x] = n /\ <<x, ch>> \in mem

Peopled(names, mem) ==
  /\ names \in [Person -> Partner \cup {Offline}] /\ mem \subseteq There(names) \X Channel
  /\ \A x, y \in There(names) : names[x] = names[y] => x = y

\* A conversation that is not with nobody, as far as a part, a quit or a rename could end it, has a
\* partner in its channel.
Partnered(v, names, mem) == v.blind \/ Sits(names, mem, v.nick, v.channel)

Talks(cs, names, mem) ==
  cs \in Seq(Conversation) /\ \A i \in 1 .. Len(cs) : Partnered(cs[i], names, mem)

Waits(as) == \E V : as \in Seq(Answer(V))

BotInv == joined \subseteq Channel

ElizaInv == Peopled(named, member) /\ Talks(conversations, named, member) /\ Waits(answers)

\* What the module Eliza calls so
LEMMA ElizaNames ==
  /\ E!Present = There(named) /\ \A n, ch : E!Here(n, ch) = Sits(named, member, n, ch)
  /\ \A s, I : E!Sublist(s, I) = Sublist(s, I)
BY DEF E!Present, There, E!Here, Sits, E!Sublist, Sublist

\* Conversations that are taken out of the list leave the others as they were.
LEMMA TakenOut ==
  ASSUME NEW cs, NEW names, NEW mem, NEW names2, NEW mem2, NEW I, Talks(cs, names, mem),
         \A i \in 1 .. Len(cs) : i \in I => Partnered(cs[i], names2, mem2)
  PROVE  Talks(Sublist(cs, I), names2, mem2)
<1> DEFINE rs == Sublist(cs, I)
<1>1. cs \in Seq(Conversation)
  BY DEF Talks
<1>2. rs \in Seq(Conversation) /\ \A k \in 1 .. Len(rs) : \E i \in 1 .. Len(cs) : i \in I /\ rs[k] = cs[i]
  BY <1>1, SublistIs, SublistEntries
<1> HIDE DEF rs
<1>3. ASSUME NEW k \in 1 .. Len(rs) PROVE Partnered(rs[k], names2, mem2)
  <2>1. PICK i \in 1 .. Len(cs) : i \in I /\ rs[k] = cs[i]
    BY <1>2
  <2>2. Partnered(cs[i], names2, mem2)
    BY <2>1
  <2> QED
    BY <2>1, <2>2
<1>4. Talks(rs, names2, mem2)
  BY <1>2, <1>3 DEF Talks
<1> QED
  BY <1>4 DEF rs

\* Conversations that are changed one by one
LEMMA Turned ==
  ASSUME NEW cs, NEW names, NEW mem, NEW names2, NEW mem2, Talks(cs, names, mem),
         NEW f \in [Conversation -> Conversation],
         \A v \in Conversation : Partnered(v, names, mem) => Partnered(f[v], names2, mem2)
  PROVE  Talks([i \in DOMAIN cs |-> f[cs[i]]], names2, mem2)
<1> DEFINE ts == [i \in DOMAIN cs |-> f[cs[i]]]
<1>1. cs \in Seq(Conversation) /\ DOMAIN cs = 1 .. Len(cs)
  BY LenProperties DEF Talks
<1>2. ts \in Seq(Conversation) /\ Len(ts) = Len(cs) /\ \A i \in 1 .. Len(cs) : ts[i] = f[cs[i]] /\ cs[i] \in Conversation
  BY <1>1, Mapped
<1> HIDE DEF ts
<1>3. ASSUME NEW i \in 1 .. Len(ts) PROVE Partnered(ts[i], names2, mem2)
  <2>1. cs[i] \in Conversation /\ ts[i] = f[cs[i]] /\ i \in 1 .. Len(cs)
    BY <1>2
  <2>2. Partnered(cs[i], names, mem)
    BY <2>1 DEF Talks
  <2> QED
    BY <2>1, <2>2
<1>4. Talks(ts, names2, mem2)
  BY <1>2, <1>3 DEF Talks
<1> QED
  BY <1>4 DEF ts

\* A sequence is one over any larger set.
LEMMA LargerSet ==
  ASSUME NEW S, NEW T, S \subseteq T, NEW s \in Seq(S) PROVE s \in Seq(T)
<1>1. Len(s) \in Nat /\ DOMAIN s = 1 .. Len(s) /\ \A i \in 1 .. Len(s) : s[i] \in S
  BY LenProperties, ElementOfSeq
<1>2. s = [i \in 1 .. Len(s) |-> s[i]]
  BY <1>1
<1> QED
  BY <1>1, <1>2, IsASeq

\* One more answer, of whatever it is
LEMMA Thought ==
  ASSUME NEW ch \in Channel, NEW of, NEW d \in -1 .. MaxDelay, Waits(answers), E!Think(ch, of, d)
  PROVE  Waits(answers')
<1>1. PICK V : answers \in Seq(Answer(V))
  BY DEF Waits
<1> DEFINE W == V \cup {of}
           x == [channel |-> ch, of |-> of, left |-> d]
<1>2. Answer(V) \subseteq Answer(W) /\ x \in Answer(W)
  BY DEF Answer
<1>3. answers' = <<x>> \o answers
  BY Zenon DEF E!Think
<1> HIDE DEF x, W
<1>4. answers \in Seq(Answer(W))
  BY <1>1, <1>2, LargerSet
<1>5. <<x>> \o answers \in Seq(Answer(W))
  BY <1>2, <1>4
<1> QED
  BY <1>3, <1>5 DEF Waits

\* A talk that begins, or goes on
LEMMA UpdateStep ==
  ASSUME ElizaInv, NEW ch \in Channel, NEW n \in Partner, conversations' = E!Update(ch, n)
  PROVE  Talks(conversations', named, member)
<1> USE ElizaAssumption
<1> DEFINE k == E!Conv(ch, n)
<1>1. conversations \in Seq(Conversation) /\ DOMAIN conversations = 1 .. Len(conversations) /\ Len(conversations) \in Nat
      /\ \A i \in 1 .. Len(conversations) : conversations[i] \in Conversation /\ Partnered(conversations[i], named, member)
  BY LenProperties, ElementOfSeq DEF ElizaInv, Talks
<1>2. E!Here(n, ch) = Sits(named, member, n, ch)
  BY ElizaNames
<1> DEFINE v == [nick |-> n, channel |-> ch, left |-> CONV_TIMEOUT, blind |-> ~E!Here(n, ch)]
<1>5. v \in Conversation /\ v.blind = ~Sits(named, member, n, ch) /\ v.nick = n /\ v.channel = ch
  BY <1>2 DEF Conversation, Sits
<1>6. Partnered(v, named, member)
  BY <1>5, Zenon DEF Partnered
<1>7. conversations' = IF k # 0 THEN [conversations EXCEPT ![k] = v] ELSE <<v>> \o conversations
  BY Zenon DEF E!Update
<1> HIDE DEF k, v
<1>3. CASE k # 0
  <2> DEFINE ts == [conversations EXCEPT ![k] = v]
  <2>1. conversations' = ts
    BY <1>3, <1>7
  <2>2. DOMAIN ts = 1 .. Len(conversations)
    BY <1>1
  <2>3. ASSUME NEW i \in 1 .. Len(conversations)
        PROVE  ts[i] \in Conversation /\ Partnered(ts[i], named, member)
    <3>1. conversations[i] \in Conversation /\ Partnered(conversations[i], named, member)
      BY <1>1
    <3>2. ts[i] = conversations[i] \/ ts[i] = v
      BY <1>1
    <3> QED
      BY <1>5, <1>6, <3>1, <3>2, Zenon
  <2> HIDE DEF ts
  <2>4. ts = [i \in 1 .. Len(conversations) |-> ts[i]]
    BY <2>2 DEF ts
  <2>5. ts \in Seq(Conversation) /\ Len(ts) = Len(conversations)
    BY <1>1, <2>2, <2>3, <2>4, IsASeq
  <2>6. Talks(ts, named, member)
    BY <2>3, <2>5 DEF Talks
  <2> QED
    BY <2>1, <2>6
<1>4. CASE k = 0
  <2>1. conversations' = <<v>> \o conversations
    BY <1>4, <1>7
  <2>2. <<v>> \in Seq(Conversation) /\ Len(<<v>>) = 1 /\ <<v>>[1] = v
    BY <1>5
  <2>3. /\ conversations' \in Seq(Conversation) /\ Len(conversations') = 1 + Len(conversations)
        /\ \A i \in 1 .. 1 + Len(conversations) :
             conversations'[i] = IF i <= 1 THEN <<v>>[i] ELSE conversations[i - 1]
    BY <1>1, <2>1, <2>2, ConcatProperties
  <2>4. ASSUME NEW i \in 1 .. Len(conversations') PROVE Partnered(conversations'[i], named, member)
    <3>1. CASE i = 1
      BY <1>1, <1>6, <2>2, <2>3, <3>1
    <3>2. CASE i # 1
      <4>1. i - 1 \in 1 .. Len(conversations) /\ conversations'[i] = conversations[i - 1]
        BY <1>1, <2>3, <3>2
      <4> QED
        BY <1>1, <4>1
    <3> QED
      BY <3>1, <3>2
  <2> QED
    BY <2>3, <2>4 DEF Talks
<1> QED
  BY <1>3, <1>4

\* A message in a channel is from one who is there.
LEMMA MessageStep ==
  ASSUME ElizaInv, NEW x \in Person, NEW ch \in Channel, NEW to, NEW text, E!Message(x, ch, to, text)
  PROVE  ElizaInv'
<1> USE ElizaAssumption
<1>1. PICK v : IF v.resps = <<>>
               THEN sane' = FALSE /\ UNCHANGED <<answers, conversations>>
               ELSE /\ \E r \in E!ToSet(v.resps), d \in 0 .. MaxDelay : E!Think(ch, r, d)
                    /\ conversations' = E!Update(ch, named[x]) /\ UNCHANGED sane
  BY Zenon DEF E!Message
<1>2. named' = named /\ member' = member /\ <<x, ch>> \in member
  BY DEF E!Message, E!people
<1>3. named[x] \in Partner
  BY <1>2 DEF ElizaInv, Peopled, There
<1>4. CASE v.resps = <<>>
  BY <1>1, <1>2, <1>4, Zenon DEF ElizaInv
<1>5. CASE v.resps # <<>>
  <2>1. PICK r : \E d \in 0 .. MaxDelay : E!Think(ch, r, d)
    BY <1>1, <1>5, Zenon
  <2>2. conversations' = E!Update(ch, named[x])
    BY <1>1, <1>5, Zenon
  <2>3. Waits(answers')
    <3>1. PICK d \in 0 .. MaxDelay : E!Think(ch, r, d)
      BY <2>1
    <3> QED
      BY <3>1, Thought DEF ElizaInv
  <2>4. Talks(conversations', named, member)
    BY <1>3, <2>2, UpdateStep
  <2> QED
    BY <1>2, <2>3, <2>4, Zenon DEF ElizaInv
<1> QED
  BY <1>4, <1>5

\* A conversation that an operator begins, with whoever has the nick
LEMMA IntroduceStep ==
  ASSUME ElizaInv, NEW ch \in Channel, NEW n \in Partner, E!Introduce(ch, n)
  PROVE  ElizaInv'
<1> USE ElizaAssumption
<1>1. named' = named /\ member' = member /\ conversations' = E!Update(ch, n)
  BY Zenon DEF E!Introduce, E!people
<1>2. Talks(conversations', named, member)
  BY <1>1, UpdateStep
<1>3. answers' = answers \/ \E of : \E d \in 0 .. 1 : E!Think(ch, of, d)
  BY Zenon DEF E!Introduce
<1>4. CASE answers' = answers
  BY <1>1, <1>2, <1>4, Zenon DEF ElizaInv
<1>5. CASE \E of : \E d \in 0 .. 1 : E!Think(ch, of, d)
  <2>1. PICK of : \E d \in 0 .. 1 : E!Think(ch, of, d)
    BY <1>5
  <2>2. PICK d \in 0 .. 1 : E!Think(ch, of, d)
    BY <2>1
  <2>3. d \in -1 .. MaxDelay
    OBVIOUS
  <2>4. Waits(answers')
    BY <2>2, <2>3, Thought DEF ElizaInv
  <2> QED
    BY <1>1, <1>2, <2>4, Zenon DEF ElizaInv
<1> QED
  BY <1>3, <1>4, <1>5

\* While nobody moves, a shorter list is as good.
LEMMA ShorterStep ==
  ASSUME ElizaInv, NEW I, conversations' = E!Sublist(conversations, I), named' = named, member' = member,
         Waits(answers')
  PROVE  ElizaInv'
<1>1. conversations' = Sublist(conversations, I)
  BY ElizaNames
<1>2. \A i \in 1 .. Len(conversations) : Partnered(conversations[i], named, member)
  BY DEF ElizaInv, Talks
<1>3. Talks(conversations, named, member)
  BY DEF ElizaInv
<1>4. Talks(Sublist(conversations, I), named, member)
  BY <1>2, <1>3, TakenOut
<1> QED
  BY <1>1, <1>4, Zenon DEF ElizaInv

\* A conversation that an operator ends
LEMMA UnelizaStep ==
  ASSUME ElizaInv, NEW ch, NEW n, E!Uneliza(ch, n)
  PROVE  ElizaInv'
<1>1. /\ conversations' = E!Sublist(conversations, DOMAIN conversations \ {E!Conv(ch, n)})
      /\ named' = named /\ member' = member /\ answers' = answers
  BY Zenon DEF E!Uneliza, E!people
<1>2. Waits(answers')
  BY <1>1 DEF ElizaInv
<1> QED
  BY <1>1, <1>2, ShorterStep

\* Answers that were given and conversations that were left are forgotten (eliza.c:399).
LEMMA ElizaTimerStep ==
  ASSUME ElizaInv, E!Timer
  PROVE  ElizaInv'
<1> DEFINE due == {i \in DOMAIN answers : answers[i].left >= 0}
           on == {i \in DOMAIN conversations : conversations[i].left >= 0}
<1>1. /\ answers' = E!Sublist(answers, due) /\ conversations' = E!Sublist(conversations, on)
      /\ named' = named /\ member' = member
  BY Zenon DEF E!Timer, E!people
<1> HIDE DEF due, on
<1>2. PICK V : answers \in Seq(Answer(V))
  BY DEF ElizaInv, Waits
<1>3. Sublist(answers, due) \in Seq(Answer(V))
  BY <1>2, SublistIs
<1>4. answers' = Sublist(answers, due)
  BY <1>1, ElizaNames
<1>5. Waits(answers')
  BY <1>3, <1>4 DEF Waits
<1> QED
  BY <1>1, <1>5, ShorterStep

\* A second less for every entry
LEMMA ElizaPassStep ==
  ASSUME ElizaInv, E!Pass
  PROVE  ElizaInv'
<1> USE ElizaAssumption
<1> DEFINE later(x) == [x EXCEPT !.left = IF @ < 0 THEN @ ELSE @ - 1]
<1>1. /\ answers' = [i \in DOMAIN answers |-> later(answers[i])]
      /\ conversations' = [i \in DOMAIN conversations |-> later(conversations[i])]
      /\ named' = named /\ member' = member
  BY DEF E!Pass, E!people
<1>2. Waits(answers')
  <2>1. PICK V : answers \in Seq(Answer(V))
    BY DEF ElizaInv, Waits
  <2> DEFINE f == [x \in Answer(V) |-> later(x)]
             ts == [i \in DOMAIN answers |-> f[answers[i]]]
  <2>2. \A x \in Answer(V) : later(x) \in Answer(V)
    BY DEF Answer
  <2>3. f \in [Answer(V) -> Answer(V)]
    BY <2>2
  <2> HIDE DEF f
  <2>4. ts \in Seq(Answer(V))
    BY <2>1, <2>3, Mapped
  <2>5. \A i \in DOMAIN answers : answers[i] \in Answer(V)
    BY <2>1, ElementOfSeq, LenProperties
  <2>6. answers' = ts
    BY <1>1, <2>5 DEF f
  <2> QED
    BY <2>4, <2>6 DEF Waits
<1>3. Talks(conversations', named, member)
  <2> DEFINE f == [x \in Conversation |-> later(x)]
             ts == [i \in DOMAIN conversations |-> f[conversations[i]]]
  <2>1. \A x \in Conversation : /\ later(x) \in Conversation /\ later(x).nick = x.nick
                                /\ later(x).channel = x.channel /\ later(x).blind = x.blind
    BY DEF Conversation
  <2>2. f \in [Conversation -> Conversation]
    BY <2>1
  <2>3. ASSUME NEW x \in Conversation, Partnered(x, named, member) PROVE Partnered(f[x], named, member)
    <3>1. f[x].nick = x.nick /\ f[x].channel = x.channel /\ f[x].blind = x.blind
      BY <2>1
    <3> QED
      BY <2>3, <3>1, Zenon DEF Partnered
  <2>4. Talks(conversations, named, member)
    BY DEF ElizaInv
  <2>5. \A i \in DOMAIN conversations : conversations[i] \in Conversation
    BY <2>4, ElementOfSeq, LenProperties DEF Talks
  <2>6. conversations' = ts
    BY <1>1, <2>5
  <2> HIDE DEF f, ts
  <2>7. Talks([i \in DOMAIN conversations |-> f[conversations[i]]], named, member)
    BY <2>2, <2>3, <2>4, Turned
  <2> QED
    BY <2>6, <2>7 DEF ts
<1> QED
  BY <1>1, <1>2, <1>3, Zenon DEF ElizaInv

\* destroy and init forget them all.
LEMMA ElizaReloadStep ==
  ASSUME ElizaInv, E!Reload
  PROVE  ElizaInv'
<1>1. conversations' = <<>> /\ answers' = <<>> /\ named' = named /\ member' = member
  BY DEF E!Reload, E!people
<1>2. Talks(<<>>, named, member) /\ Waits(<<>>)
  BY DEF Talks, Waits
<1> QED
  BY <1>1, <1>2 DEF ElizaInv

\* Who comes under a nick that is free leaves every conversation its partner.
LEMMA ElizaComeStep ==
  ASSUME ElizaInv, NEW x \in Person, NEW n \in Partner, E!Come(x, n)
  PROVE  ElizaInv'
<1> USE ElizaAssumption
<1>1. /\ x \notin There(named) /\ n \in E!Free /\ named' = [named EXCEPT ![x] = n]
      /\ member' = member /\ conversations' = conversations /\ answers' = answers
  BY ElizaNames DEF E!Come, E!Quietly
<1>2. Peopled(named, member) /\ Talks(conversations, named, member)
  BY DEF ElizaInv
<1>3. There(named') = There(named) \cup {x} /\ \A y \in There(named) : named'[y] = named[y]
  BY <1>1, <1>2 DEF There, Peopled
<1>4. Peopled(named', member)
  BY <1>1, <1>2, <1>3 DEF Peopled, There, E!Free
<1>5. ASSUME NEW i \in 1 .. Len(conversations) PROVE Partnered(conversations[i], named', member)
  <2>1. Partnered(conversations[i], named, member)
    BY <1>2 DEF Talks
  <2>2. Sits(named, member, conversations[i].nick, conversations[i].channel)
        => Sits(named', member, conversations[i].nick, conversations[i].channel)
    BY <1>3 DEF Sits
  <2> QED
    BY <2>1, <2>2, Zenon DEF Partnered
<1> QED
  BY <1>1, <1>2, <1>4, <1>5 DEF ElizaInv, Talks

\* Who joins a channel leaves every conversation its partner.
LEMMA ElizaJoinStep ==
  ASSUME ElizaInv, NEW x \in Person, NEW ch \in Channel, E!Join(x, ch)
  PROVE  ElizaInv'
<1>1. /\ x \in There(named) /\ member' = member \cup {<<x, ch>>} /\ named' = named
      /\ conversations' = conversations /\ answers' = answers
  BY ElizaNames DEF E!Join, E!Quietly
<1>2. Peopled(named, member) /\ Talks(conversations, named, member)
  BY DEF ElizaInv
<1>3. Peopled(named, member')
  BY <1>1, <1>2 DEF Peopled
<1>4. ASSUME NEW i \in 1 .. Len(conversations) PROVE Partnered(conversations[i], named, member')
  <2>1. Partnered(conversations[i], named, member)
    BY <1>2 DEF Talks
  <2>2. Sits(named, member, conversations[i].nick, conversations[i].channel)
        => Sits(named, member', conversations[i].nick, conversations[i].channel)
    BY <1>1 DEF Sits
  <2> QED
    BY <2>1, <2>2, Zenon DEF Partnered
<1> QED
  BY <1>1, <1>2, <1>3, <1>4 DEF ElizaInv, Talks

\* Somebody goes: from the channels gone, where the conversations of his nick end.
LEMMA LeaveStep ==
  ASSUME ElizaInv, NEW x \in Person, x \in There(named), NEW gone, NEW mem2, NEW names2,
         mem2 = member \ ({x} \X gone), Peopled(names2, mem2),
         \A y \in There(named) \ {x} : y \in There(names2) /\ names2[y] = named[y],
         (x \in There(names2) /\ names2[x] = named[x]) \/ Channel \subseteq gone
  PROVE  Talks(E!Dropped(named[x], gone), names2, mem2)
<1> DEFINE I == {i \in DOMAIN conversations :
                   ~(conversations[i].nick = named[x] /\ conversations[i].channel \in gone)}
<1>1. E!Dropped(named[x], gone) = Sublist(conversations, I)
  BY ElizaNames, Zenon DEF E!Dropped
<1>2. Peopled(named, member) /\ Talks(conversations, named, member) /\ DOMAIN conversations = 1 .. Len(conversations)
  BY LenProperties DEF ElizaInv, Talks
<1>3. ASSUME NEW i \in 1 .. Len(conversations), i \in I PROVE Partnered(conversations[i], names2, mem2)
  <2>1. Partnered(conversations[i], named, member)
    BY <1>2 DEF Talks
  <2>2. ~(conversations[i].nick = named[x] /\ conversations[i].channel \in gone)
    BY <1>3
  <2> DEFINE n == conversations[i].nick
             ch == conversations[i].channel
  <2>3. n # named[x] \/ ch \notin gone
    BY <2>2
  <2> HIDE DEF n, ch
  <2>4. ASSUME Sits(named, member, n, ch) PROVE Sits(names2, mem2, n, ch)
    <3>1. PICK y \in There(named) : named[y] = n /\ <<y, ch>> \in member
      BY <2>4 DEF Sits
    <3>2. ch \in Channel
      BY <1>2, <3>1 DEF Peopled
    <3>3. <<y, ch>> \in mem2
      BY <2>3, <3>1
    <3>4. y \in There(names2) /\ names2[y] = named[y]
      BY <2>3, <3>1, <3>2
    <3> QED
      BY <3>1, <3>3, <3>4 DEF Sits
  <2> QED
    BY <2>1, <2>4, Zenon DEF Partnered, n, ch
<1> HIDE DEF I
<1>4. Talks(Sublist(conversations, I), names2, mem2)
  BY <1>2, <1>3, TakenOut
<1> QED
  BY <1>1, <1>4

\* Somebody goes, or takes another nick, where the plugin does not look: the conversations of the old
\* nick in those channels are with nobody, and are known to be.
LEMMA UnseenStep ==
  ASSUME ElizaInv, NEW x \in Person, NEW gone, NEW names2, NEW mem2,
         conversations' = E!Unseen(named[x], gone),
         \A y, ch : <<y, ch>> \in member /\ (y = x => ch \notin gone) => <<y, ch>> \in mem2,
         \A y \in There(named) \ {x} : y \in There(names2) /\ names2[y] = named[y],
         (x \in There(names2) /\ names2[x] = named[x]) \/ Channel \subseteq gone
  PROVE  Talks(conversations', names2, mem2)
<1> DEFINE old == named[x]
           Left(v) == v.nick = old /\ v.channel \in gone
           turn(v) == [v EXCEPT !.blind = @ \/ Left(v)]
           f == [v \in Conversation |-> turn(v)]
           ts == [i \in DOMAIN conversations |-> f[conversations[i]]]
<1>1. conversations' = [i \in DOMAIN conversations |-> turn(conversations[i])]
  BY DEF E!Unseen
<1>2. Peopled(named, member) /\ Talks(conversations, named, member)
  BY DEF ElizaInv
<1>3. \A v \in Conversation : /\ turn(v) \in Conversation /\ turn(v).nick = v.nick /\ turn(v).channel = v.channel
                              /\ turn(v).blind = (v.blind \/ Left(v))
  BY DEF Conversation
<1>4. f \in [Conversation -> Conversation]
  BY <1>3
<1>5. ASSUME NEW v \in Conversation, Partnered(v, named, member) PROVE Partnered(f[v], names2, mem2)
  <2>1. f[v].nick = v.nick /\ f[v].channel = v.channel /\ f[v].blind = (v.blind \/ Left(v))
    BY <1>3
  <2>2. ASSUME Sits(named, member, v.nick, v.channel), ~Left(v)
        PROVE  Sits(names2, mem2, v.nick, v.channel)
    <3>1. PICK y \in There(named) : named[y] = v.nick /\ <<y, v.channel>> \in member
      BY <2>2 DEF Sits
    <3>2. v.channel \in Channel
      BY <1>2, <3>1 DEF Peopled
    <3>3. y = x => v.channel \notin gone
      BY <2>2, <3>1
    <3>4. <<y, v.channel>> \in mem2
      BY <3>1, <3>3
    <3>5. y \in There(names2) /\ names2[y] = named[y]
      BY <3>2, <3>3
    <3> QED
      BY <3>1, <3>4, <3>5 DEF Sits
  <2> QED
    BY <1>5, <2>1, <2>2, Zenon DEF Partnered
<1>6. \A i \in DOMAIN conversations : conversations[i] \in Conversation
  BY <1>2, ElementOfSeq, LenProperties DEF Talks
<1>7. conversations' = ts
  BY <1>1, <1>6
<1> HIDE DEF f, ts
<1>8. Talks([i \in DOMAIN conversations |-> f[conversations[i]]], names2, mem2)
  BY <1>2, <1>4, <1>5, Turned
<1> QED
  BY <1>7, <1>8 DEF ts

\* PART: the conversations of the nick in the channel are over if the bot is there (eliza.c:556).
LEMMA ElizaPartStep ==
  ASSUME ElizaInv, NEW x \in Person, NEW ch \in Channel, E!Part(x, ch)
  PROVE  ElizaInv'
<1>1. /\ <<x, ch>> \in member /\ member' = member \ {<<x, ch>>} /\ named' = named
      /\ conversations' = (IF ch \in joined THEN E!Dropped(named[x], {ch}) ELSE E!Unseen(named[x], {ch}))
      /\ answers' = answers
  BY DEF E!Part, E!Quietly
<1>2. Peopled(named, member)
  BY DEF ElizaInv
<1>3. x \in There(named) /\ member' = member \ ({x} \X {ch})
  BY <1>1, <1>2 DEF Peopled
<1>4. Peopled(named, member')
  BY <1>1, <1>2 DEF Peopled
<1>5. CASE ch \in joined
  <2>1. Talks(E!Dropped(named[x], {ch}), named, member')
    BY <1>3, <1>4, LeaveStep
  <2> QED
    BY <1>1, <1>4, <1>5, <2>1, Zenon DEF ElizaInv
<1>6. CASE ch \notin joined
  <2>1. conversations' = E!Unseen(named[x], {ch})
    BY <1>1, <1>6
  <2>2. \A y, d : <<y, d>> \in member /\ (y = x => d \notin {ch}) => <<y, d>> \in member'
    BY <1>1
  <2>3. Talks(conversations', named, member')
    BY <1>3, <2>1, <2>2, UnseenStep
  <2> QED
    BY <1>1, <1>4, <2>3, Zenon DEF ElizaInv
<1> QED
  BY <1>5, <1>6

\* QUIT: all conversations of the nick are over if the bot shares a channel with it (eliza.c:563).
LEMMA ElizaQuitStep ==
  ASSUME ElizaInv, NEW x \in Person, E!Quit(x)
  PROVE  ElizaInv'
<1> USE ElizaAssumption
<1>1. /\ x \in There(named) /\ named' = [named EXCEPT ![x] = Offline] /\ member' = member \ ({x} \X Channel)
      /\ conversations' = (IF E!Seen(x) THEN E!Dropped(named[x], Channel) ELSE E!Unseen(named[x], Channel))
      /\ answers' = answers
  BY ElizaNames DEF E!Quit, E!Quietly
<1>2. Peopled(named, member) /\ Talks(conversations, named, member)
  BY DEF ElizaInv
<1>3. There(named') = There(named) \ {x} /\ \A y \in There(named) \ {x} : named'[y] = named[y]
  BY <1>1, <1>2 DEF There, Peopled
<1>4. Peopled(named', member')
  BY <1>1, <1>2, <1>3 DEF Peopled, There
<1>5. CASE ~E!Seen(x)
  <2>1. conversations' = E!Unseen(named[x], Channel)
    BY <1>1, <1>5
  <2>2. \A y, d : <<y, d>> \in member /\ (y = x => d \notin Channel) => <<y, d>> \in member'
    BY <1>1
  <2>3. Talks(conversations', named', member')
    BY <1>3, <2>1, <2>2, UnseenStep
  <2> QED
    BY <1>1, <1>4, <2>3, Zenon DEF ElizaInv
<1>6. CASE E!Seen(x)
  <2>1. Talks(E!Dropped(named[x], Channel), named', member')
    BY <1>1, <1>3, <1>4, LeaveStep
  <2> QED
    BY <1>1, <1>4, <1>6, <2>1, Zenon DEF ElizaInv
<1> QED
  BY <1>5, <1>6

\* NICK: the conversations of the old nick follow if the bot shares a channel with it (eliza.c:551).
LEMMA ElizaRenameStep ==
  ASSUME ElizaInv, NEW x \in Person, NEW new \in Partner, E!Rename(x, new)
  PROVE  ElizaInv'
<1> USE ElizaAssumption
<1> DEFINE old == named[x]
<1>1. /\ x \in There(named) /\ new \in E!Free /\ named' = [named EXCEPT ![x] = new] /\ member' = member
      /\ conversations' = (IF E!Seen(x) THEN E!Renamed(old, new) ELSE E!Unseen(old, Channel))
      /\ answers' = answers
  BY ElizaNames DEF E!Rename, E!Quietly
<1>2. Peopled(named, member) /\ Talks(conversations, named, member)
  BY DEF ElizaInv
<1>3. There(named') = There(named) /\ named'[x] = new /\ \A y \in There(named) \ {x} : named'[y] = named[y]
  BY <1>1, <1>2 DEF There, Peopled
<1>4. Peopled(named', member)
  BY <1>1, <1>2, <1>3 DEF Peopled, There, E!Free
<1>5. CASE ~E!Seen(x)
  <2>1. conversations' = E!Unseen(named[x], Channel)
    BY <1>1, <1>5
  <2>2. Talks(conversations', named', member')
    BY <1>1, <1>3, <2>1, UnseenStep
  <2> QED
    BY <1>1, <1>4, <2>2, Zenon DEF ElizaInv
<1>6. CASE E!Seen(x)
  <2> DEFINE turn(v) == IF v.nick = old THEN [v EXCEPT !.nick = new] ELSE v
             f == [v \in Conversation |-> turn(v)]
             ts == [i \in DOMAIN conversations |-> f[conversations[i]]]
  <2>1. \A v \in Conversation : /\ turn(v) \in Conversation /\ turn(v).nick = (IF v.nick = old THEN new ELSE v.nick)
                                /\ turn(v).channel = v.channel /\ turn(v).blind = v.blind
    BY DEF Conversation
  <2>2. f \in [Conversation -> Conversation]
    BY <2>1
  <2>3. ASSUME NEW v \in Conversation, Partnered(v, named, member) PROVE Partnered(f[v], named', member)
    <3>1. f[v].nick = (IF v.nick = old THEN new ELSE v.nick) /\ f[v].channel = v.channel /\ f[v].blind = v.blind
      BY <2>1
    <3>2. ASSUME Sits(named, member, v.nick, v.channel)
          PROVE  Sits(named', member, IF v.nick = old THEN new ELSE v.nick, v.channel)
      <4>1. PICK y \in There(named) : named[y] = v.nick /\ <<y, v.channel>> \in member
        BY <3>2 DEF Sits
      <4>2. named'[y] = IF v.nick = old THEN new ELSE v.nick
        BY <1>1, <1>2, <1>3, <4>1 DEF Peopled
      <4> QED
        BY <1>3, <4>1, <4>2 DEF Sits
    <3> QED
      BY <2>3, <3>1, <3>2, Zenon DEF Partnered
  <2>4. \A i \in DOMAIN conversations : conversations[i] \in Conversation
    BY <1>2, ElementOfSeq, LenProperties DEF Talks
  <2>5. conversations' = [i \in DOMAIN conversations |-> turn(conversations[i])]
    BY <1>1, <1>6, Zenon DEF E!Renamed
  <2>6. conversations' = ts
    BY <2>4, <2>5
  <2> HIDE DEF f, ts
  <2>7. Talks([i \in DOMAIN conversations |-> f[conversations[i]]], named', member)
    BY <1>2, <2>2, <2>3, Turned
  <2>8. Talks(conversations', named', member')
    BY <1>1, <2>6, <2>7 DEF ts
  <2> QED
    BY <1>1, <1>4, <2>8, Zenon DEF ElizaInv
<1> QED
  BY <1>5, <1>6

\* KICK is not looked at: the conversation goes on with nobody, and is known to.
LEMMA ElizaKickStep ==
  ASSUME ElizaInv, NEW x \in Person, NEW ch \in Channel, E!Kick(x, ch)
  PROVE  ElizaInv'
<1>1. /\ <<x, ch>> \in member /\ member' = member \ {<<x, ch>>} /\ named' = named /\ answers' = answers
      /\ conversations' = E!Unseen(named[x], {ch})
  BY DEF E!Kick, E!Quietly
<1>2. Peopled(named, member) /\ x \in There(named)
  BY <1>1 DEF ElizaInv, Peopled
<1>3. Peopled(named, member')
  BY <1>1, <1>2 DEF Peopled
<1>4. \A y, d : <<y, d>> \in member /\ (y = x => d \notin {ch}) => <<y, d>> \in member'
  BY <1>1
<1>5. Talks(conversations', named, member')
  BY <1>1, <1>2, <1>4, UnseenStep
<1> QED
  BY <1>1, <1>3, <1>5, Zenon DEF ElizaInv

\* The bot comes and goes: nothing is changed.
LEMMA ElizaBotStep ==
  ASSUME ElizaInv, (\E ch : E!BotJoins(ch)) \/ (\E gone : E!BotLeaves(gone))
  PROVE  ElizaInv'
<1>1. UNCHANGED <<named, member, conversations, answers>>
  BY DEF E!BotJoins, E!BotLeaves, E!Quietly
<1> QED
  BY <1>1, Zenon DEF ElizaInv

\* At first nobody is spoken with.
LEMMA ElizaInit == E!Init => ElizaInv
<1> USE ElizaAssumption
<1> HAVE E!Init
<1>1. named \in [Person -> Partner \cup {Offline}] /\ member = {} /\ conversations = <<>> /\ answers = <<>>
      /\ \A x, y \in There(named) : named[x] = named[y] => x = y
  BY ElizaNames DEF E!Init
<1>2. Talks(<<>>, named, member) /\ Waits(<<>>)
  BY DEF Talks, Waits
<1> QED
  BY <1>1, <1>2 DEF ElizaInv, Peopled

\* No step of eliza.so or of the people breaks the invariant.
LEMMA ElizaNext == ElizaInv /\ [E!Next]_E!vars => ElizaInv'
<1> SUFFICES ASSUME ElizaInv, [E!Next]_E!vars PROVE ElizaInv'
  OBVIOUS
<1>1. ASSUME NEW x \in Person, NEW ch \in Channel, NEW to, NEW text, E!Message(x, ch, to, text) PROVE ElizaInv'
  BY <1>1, MessageStep
<1>2. ASSUME NEW x \in Person, NEW ch \in Channel, E!Join(x, ch) \/ E!Part(x, ch) \/ E!Kick(x, ch) PROVE ElizaInv'
  BY <1>2, ElizaJoinStep, ElizaPartStep, ElizaKickStep
<1>3. ASSUME NEW x \in Person, NEW n \in Partner, E!Come(x, n) \/ E!Rename(x, n) PROVE ElizaInv'
  BY <1>3, ElizaComeStep, ElizaRenameStep
<1>4. ASSUME NEW x \in Person, E!Quit(x) PROVE ElizaInv'
  BY <1>4, ElizaQuitStep
<1>5. ASSUME NEW ch \in Channel, NEW n \in Partner, E!Introduce(ch, n) \/ E!Uneliza(ch, n) PROVE ElizaInv'
  BY <1>5, IntroduceStep, UnelizaStep
<1>6. ASSUME E!Timer \/ E!Pass \/ E!Reload PROVE ElizaInv'
  BY <1>6, ElizaTimerStep, ElizaPassStep, ElizaReloadStep
<1>7. ASSUME (\E ch : E!BotJoins(ch)) \/ (\E gone : E!BotLeaves(gone)) PROVE ElizaInv'
  BY <1>7, ElizaBotStep
<1>8. ASSUME UNCHANGED E!vars PROVE ElizaInv'
  BY <1>8 DEF E!vars, E!people, ElizaInv
<1> QED
  BY <1>1, <1>2, <1>3, <1>4, <1>5, <1>6, <1>7, <1>8, Zenon DEF E!Next

\* The bot is in channels.
LEMMA BotIsIn == BotInv /\ [E!Next]_E!vars => BotInv'
<1> SUFFICES ASSUME joined \subseteq Channel, [E!Next]_E!vars PROVE joined' \subseteq Channel
  BY DEF BotInv
<1>1. ASSUME NEW x, NEW ch, NEW to, NEW text, E!Message(x, ch, to, text) PROVE joined' = joined
  BY <1>1, Zenon DEF E!Message, E!people
<1>2. ASSUME NEW x, NEW ch, E!Join(x, ch) \/ E!Part(x, ch) \/ E!Kick(x, ch) PROVE joined' = joined
  BY <1>2, Zenon DEF E!Join, E!Part, E!Kick
<1>3. ASSUME NEW x, NEW n, E!Come(x, n) \/ E!Rename(x, n) PROVE joined' = joined
  BY <1>3, Zenon DEF E!Come, E!Rename
<1>4. ASSUME NEW x, E!Quit(x) PROVE joined' = joined
  BY <1>4, Zenon DEF E!Quit
<1>5. ASSUME NEW ch, NEW n, E!Introduce(ch, n) \/ E!Uneliza(ch, n) PROVE joined' = joined
  BY <1>5, Zenon DEF E!Introduce, E!Uneliza, E!people
<1>6. ASSUME E!Timer \/ E!Pass \/ E!Reload PROVE joined' = joined
  BY <1>6, Zenon DEF E!Timer, E!Pass, E!Reload, E!people
<1>7. ASSUME NEW ch \in Channel, E!BotJoins(ch) PROVE joined' \subseteq Channel
  BY <1>7 DEF E!BotJoins
<1>8. ASSUME NEW gone, E!BotLeaves(gone) PROVE joined' \subseteq Channel
  BY <1>8 DEF E!BotLeaves
<1>9. ASSUME UNCHANGED E!vars PROVE joined' = joined
  BY <1>9, Zenon DEF E!vars, E!people
<1> QED
  BY <1>1, <1>2, <1>3, <1>4, <1>5, <1>6, <1>7, <1>8, <1>9, Zenon DEF E!Next

\* What the invariant says of the partners
LEMMA ElizaImplies == ElizaInv /\ BotInv => GoneForgotten
<1> USE ElizaAssumption
<1> HAVE ElizaInv /\ BotInv
<1>1. /\ conversations \in Seq(Conversation) /\ DOMAIN conversations = 1 .. Len(conversations)
      /\ \A i \in DOMAIN conversations : conversations[i] \in Conversation /\ Partnered(conversations[i], named, member)
  BY ElementOfSeq, LenProperties DEF ElizaInv, Talks
<1>2. \A i \in DOMAIN conversations :
        conversations[i].blind \/ E!Here(conversations[i].nick, conversations[i].channel)
  BY <1>1, ElizaNames, Zenon DEF Partnered
<1>3. \A i \in DOMAIN answers : answers[i].channel \in Channel /\ answers[i].left \in -1 .. MaxDelay
  <2>1. PICK V : answers \in Seq(Answer(V))
    BY DEF ElizaInv, Waits
  <2>2. \A i \in DOMAIN answers : answers[i] \in Answer(V)
    BY <2>1, ElementOfSeq, LenProperties
  <2> QED
    BY <2>2 DEF Answer
<1>4. named \in [Person -> Partner \cup {Offline}] /\ member \subseteq E!Present \X Channel
  BY ElizaNames DEF ElizaInv, Peopled
<1>5. \A i \in DOMAIN conversations : conversations[i] \in
        [nick : Partner, channel : Channel, left : -1 .. CONV_TIMEOUT, blind : BOOLEAN]
  BY <1>1 DEF Conversation
<1> QED
  BY <1>2, <1>3, <1>4, <1>5 DEF BotInv, GoneForgotten, E!GoneForgotten, E!TypeOK

\* Nobody who was seen to leave is spoken with any more, by whatever comings, goings and renames of
\* people and of the bot: a conversation is with somebody in its channel, unless its partner was not
\* there when it was begun or last kept up, was kicked, or went while the bot was away (eliza.c:551, 556,
\* 563).
THEOREM ElizaGoneForgotten == E!Spec => []GoneForgotten
<1>1. E!Init => BotInv
  <2>1. E!Init => joined = {}
    BY Zenon DEF E!Init
  <2> QED
    BY <2>1 DEF BotInv
<1>2. E!Spec => [](ElizaInv /\ BotInv)
  BY <1>1, ElizaInit, ElizaNext, BotIsIn, PTL DEF E!Spec
<1> QED
  BY <1>2, ElizaImplies, PTL

-----------------------------------------------------------------------------
(* Yx *)

\* The hours at which a state is to end: a few minutes after a full hour, or as many as it began after one.
Aim(state, t) ==
  /\ state = "IRC" => t \in 11 * Slots .. 13 * Slots - 1 \/ t \in 20 * Slots .. 21 * Slots - 1
  /\ state = "S3" => t \in 18 * Slots .. 20 * Slots - 2
  /\ state \in {"AMF", "KDF"} => t \in 6 * Slots .. 7 * Slots - 1

Aimed(state, t, l) == Aim(state, t + l) \/ Aim(state, t + l - 24 * Slots)

\* The bot is in a state and in the hours of it, and will have left it by their end.
Keeps(state, t, l) ==
  /\ state = "IRC" => \/ t >= 6 * Slots /\ t + l \in 11 * Slots .. 13 * Slots - 1
                      \/ t >= 18 * Slots /\ t + l \in 20 * Slots .. 21 * Slots - 1
  /\ state = "S3" => t >= 11 * Slots /\ t + l \in 18 * Slots .. 20 * Slots - 2
  /\ state \in {"AMF", "KDF"} =>
       \/ t + l \in 6 * Slots .. 7 * Slots - 1
       \/ t >= 20 * Slots /\ t + l - 24 * Slots \in 6 * Slots .. 7 * Slots - 1

YxTyped ==
  /\ now \in 0 .. 24 * Slots - 1 /\ cur_state \in {"IRC", "S3", "AMF", "KDF"} /\ left \in -1 .. 24 * Slots
  /\ since \in 0 .. 24 * Slots /\ ran \in BOOLEAN /\ said \in {"nothing", "word", "answer"}

\* What is to be changed on time is; out of step is only whoever was suspended, for a day at most.
YxInv ==
  /\ YxTyped /\ (ran => left >= 0)
  /\ left >= 0 => Aimed(cur_state, now, left) /\ (Keeps(cur_state, now, left) \/ since + left <= 24 * Slots)
  /\ left = -1 => since = 0 \/ Aim(cur_state, now - 1)
  /\ ran /\ since = 24 * Slots /\ said = "word" => now \notin 14 * Slots .. 17 * Slots

\* The clock shows an hour and the minutes of it.
LEMMA ClockShows ==
  ASSUME NEW n \in Nat
  PROVE  /\ n \div Slots \in Nat /\ n % Slots \in 0 .. Slots - 1
         /\ n = Slots * (n \div Slots) + (n % Slots)
BY YxAssumption

\* Before an hour, or from it on
LEMMA HourIs ==
  ASSUME NEW n \in Nat, NEW k \in Nat
  PROVE  (n \div Slots < k) <=> (n < Slots * k)
<1> DEFINE u == n \div Slots
           r == n % Slots
<1>1. u \in Nat /\ r \in 0 .. Slots - 1 /\ n = Slots * u + r /\ Slots \in Nat \ {0}
  BY ClockShows, YxAssumption
<1> HIDE DEF u, r
<1>2. ASSUME u < k PROVE n < Slots * k
  <2>1. PICK d \in Nat : k = u + 1 + d
    <3>1. k - u - 1 \in Nat /\ k = u + 1 + (k - u - 1)
      BY <1>1, <1>2
    <3> QED BY <3>1
  <2>2. Slots * k = Slots * u + Slots + Slots * d /\ Slots * d \in Nat /\ Slots * u \in Nat
    BY <1>1, <2>1
  <2> QED
    BY <1>1, <2>2
<1>3. ASSUME ~(u < k) PROVE ~(n < Slots * k)
  <2>1. PICK d \in Nat : u = k + d
    <3>1. u - k \in Nat /\ u = k + (u - k)
      BY <1>1, <1>3
    <3> QED BY <3>1
  <2>2. Slots * u = Slots * k + Slots * d /\ Slots * d \in Nat /\ Slots * k \in Nat
    BY <1>1, <2>1
  <2> QED
    BY <1>1, <2>2
<1> QED
  BY <1>2, <1>3 DEF u

\* rrand(m) minutes are less than an hour for the numbers m that yx.c has.
LEMMA UptoIs ==
  /\ \A j \in Y!Upto(10) : j \in 0 .. Slots - 1
  /\ \A j \in Y!Upto(20) : j \in 0 .. Slots - 1
  /\ \A j \in Y!Upto(23) : j \in 0 .. Slots - 1
  /\ \A j \in Y!Upto(60) : j \in 0 .. Slots - 1
BY YxAssumption DEF Y!Upto

\* The time of the day, at most a day later
LEMMA NextDay ==
  ASSUME NEW d \in Nat \ {0}, NEW x \in 0 .. 2 * d - 1
  PROVE  x % d = IF x < d THEN x ELSE x - d
<1> DEFINE u == x \div d
           r == x % d
<1>1. u \in Nat /\ r \in 0 .. d - 1 /\ x = d * u + r
  OBVIOUS
<1> HIDE DEF u, r
<1>2. u = 0 \/ u = 1 \/ u >= 2
  BY <1>1
<1>3. ASSUME u >= 2 PROVE FALSE
  <2>1. PICK k \in Nat : u = 2 + k
    <3>1. u - 2 \in Nat /\ u = 2 + (u - 2)
      BY <1>1, <1>3
    <3> QED BY <3>1
  <2>2. d * u = 2 * d + d * k /\ d * k \in Nat
    BY <2>1
  <2> QED
    BY <1>1, <2>2
<1> QED
  BY <1>1, <1>2, <1>3 DEF r

\* What Yx says, in slots
LEMMA YxTerms ==
  /\ Slots \in Nat \ {0} /\ Y!Day = 24 * Slots /\ Y!MinNow = now % Slots /\ Y!HourNow = now \div Slots
  /\ \A h : Y!At(h) = h * Slots
  /\ \A slot : Y!Until(slot) = IF slot <= now THEN slot + 24 * Slots - now ELSE slot - now
BY YxAssumption DEF Y!Day, Y!MinNow, Y!HourNow, Y!At, Y!Until

\* A state that is begun ends at a time that it is to end at, within a day.
LEMMA ChangeAimed ==
  ASSUME YxTyped, NEW slot, NEW state \in {"IRC", "S3", "AMF", "KDF"}, Aim(state, slot), NEW l, l = Y!Until(slot)
  PROVE  /\ l \in 1 .. 24 * Slots /\ Aimed(state, now, l)
         /\ slot > now => l = slot - now
         /\ slot <= now => l = slot + 24 * Slots - now
<1>1. slot \in 0 .. 24 * Slots - 1 /\ now \in 0 .. 24 * Slots - 1 /\ Slots \in Nat \ {0}
  BY YxTerms DEF Aim, YxTyped
<1>2. l = IF slot <= now THEN slot + 24 * Slots - now ELSE slot - now
  BY YxTerms
<1>3. now + l = slot \/ now + l - 24 * Slots = slot
  BY <1>1, <1>2
<1> QED
  BY <1>1, <1>2, <1>3 DEF Aimed

\* init, at whatever hour (yx.c:46)
LEMMA StartKeeps ==
  ASSUME YxTyped, NEW state \in {"IRC", "S3", "AMF", "KDF"}, NEW l, Y!Start(state, l)
  PROVE  l \in 1 .. 24 * Slots /\ Aimed(state, now, l) /\ Keeps(state, now, l)
<1>1. now \in 0 .. 24 * Slots - 1 /\ Slots \in Nat \ {0} /\ now \in Nat
  BY YxTerms DEF YxTyped
<1>2. now % Slots \in 0 .. Slots - 1
  BY <1>1, ClockShows
<1>3. Y!HourNow \in Nat /\ \A k \in Nat : (Y!HourNow < k) <=> (now < Slots * k)
  BY <1>1, ClockShows, HourIs, YxTerms
<1>4. CASE (Y!HourNow >= 20 \/ Y!HourNow < 6) /\ state = "KDF" /\ \E j \in Y!Upto(20) : l = Y!Until(Y!At(6) + j)
  <2>1. PICK j \in 0 .. Slots - 1 : l = Y!Until(6 * Slots + j)
    BY <1>4, UptoIs, YxTerms
  <2>2. Aim(state, 6 * Slots + j)
    BY <1>1, <1>4 DEF Aim
  <2>3. now >= 20 * Slots \/ now < 6 * Slots
    BY <1>1, <1>3, <1>4
  <2> QED
    BY <1>1, <1>4, <2>1, <2>2, <2>3, ChangeAimed DEF Keeps
<1>5. CASE Y!HourNow \in 11 .. 17 /\ state = "S3" /\ \E j \in Y!Upto(23) : l = Y!Until(Y!At(18) + Y!MinNow + j)
  <2>1. PICK j \in 0 .. Slots - 1 : l = Y!Until(18 * Slots + (now % Slots) + j)
    BY <1>5, UptoIs, YxTerms
  <2>2. PICK m \in 0 .. Slots - 1 : m = now % Slots
    BY <1>2
  <2>3. Aim(state, 18 * Slots + m + j)
    BY <1>1, <1>5 DEF Aim
  <2>4. now >= 11 * Slots /\ now < 18 * Slots
    BY <1>1, <1>3, <1>5
  <2> QED
    BY <1>1, <1>5, <2>1, <2>2, <2>3, <2>4, ChangeAimed DEF Keeps
<1>6. CASE /\ Y!HourNow \in (6 .. 10) \cup {18, 19} /\ state = "IRC"
           /\ \E j \in Y!Upto(10) : l = Y!Until(Y!At(IF Y!HourNow < 14 THEN 11 ELSE 20) + j)
  <2>1. \/ now >= 6 * Slots /\ now < 11 * Slots /\ Y!HourNow < 14
        \/ now >= 18 * Slots /\ now < 20 * Slots /\ ~(Y!HourNow < 14)
    BY <1>1, <1>3, <1>6
  <2>2. PICK j \in 0 .. Slots - 1 : l = Y!Until((IF Y!HourNow < 14 THEN 11 ELSE 20) * Slots + j)
    BY <1>6, UptoIs, YxTerms
  <2>3. CASE Y!HourNow < 14
    <3>1. l = Y!Until(11 * Slots + j) /\ Aim(state, 11 * Slots + j)
      BY <1>1, <1>6, <2>2, <2>3 DEF Aim
    <3> QED
      BY <1>1, <1>6, <2>1, <2>3, <3>1, ChangeAimed DEF Keeps
  <2>4. CASE ~(Y!HourNow < 14)
    <3>1. l = Y!Until(20 * Slots + j) /\ Aim(state, 20 * Slots + j)
      BY <1>1, <1>6, <2>2, <2>4 DEF Aim
    <3> QED
      BY <1>1, <1>6, <2>1, <2>4, <3>1, ChangeAimed DEF Keeps
  <2> QED
    BY <2>3, <2>4
<1> QED
  BY <1>4, <1>5, <1>6, Zenon DEF Y!Start

\* A change on time keeps the hours, another is to be made within a day (yx.c:82).
LEMMA ChangeStep ==
  ASSUME YxInv, left = -1, Y!ChangeOfState
  PROVE  /\ cur_state' \in {"IRC", "S3", "AMF", "KDF"} /\ left' \in 1 .. 24 * Slots /\ said' \in {"nothing", "word", "answer"}
         /\ Aimed(cur_state', now, left')
         /\ since = 0 \/ (Keeps(cur_state', now, left') /\ (said' = "word" => now \notin 14 * Slots .. 17 * Slots))
<1>1. now \in 0 .. 24 * Slots - 1 /\ Slots \in Nat \ {0} /\ now \in Nat /\ YxTyped
      /\ (since = 0 \/ Aim(cur_state, now - 1)) /\ cur_state \in {"IRC", "S3", "AMF", "KDF"}
  BY YxTerms DEF YxInv, YxTyped
<1>2. now % Slots \in 0 .. Slots - 1
  BY <1>1, ClockShows
<1>3. PICK m \in 0 .. Slots - 1 : m = now % Slots
  BY <1>2
<1>4. ((Y!HourNow < 14) <=> (now < 14 * Slots)) /\ ((Y!HourNow >= 14) <=> (now >= 14 * Slots))
  BY <1>1, ClockShows, HourIs, YxTerms
<1>5. CASE cur_state = "IRC" /\ Y!HourNow < 14 /\ said' = "word" /\ \E j \in Y!Upto(23) : Y!Change("S3", Y!At(18) + Y!MinNow + j)
  <2>1. PICK j \in 0 .. Slots - 1 : cur_state' = "S3" /\ left' = Y!Until(18 * Slots + m + j)
    BY <1>3, <1>5, UptoIs, YxTerms DEF Y!Change
  <2>2. Aim("S3", 18 * Slots + m + j)
    BY <1>1 DEF Aim
  <2>3. since = 0 \/ now \in 11 * Slots + 1 .. 13 * Slots
    BY <1>1, <1>4, <1>5 DEF Aim
  <2> QED
    BY <1>1, <1>5, <2>1, <2>2, <2>3, ChangeAimed DEF Keeps
<1>6. CASE /\ cur_state = "IRC" /\ Y!HourNow >= 14 /\ said' = "word"
           /\ \E s \in {"KDF", "AMF"}, j \in Y!Upto(20) : Y!Change(s, Y!At(6) + j)
  <2>1. PICK s \in {"KDF", "AMF"}, j \in 0 .. Slots - 1 : cur_state' = s /\ left' = Y!Until(6 * Slots + j)
    BY <1>6, UptoIs, YxTerms DEF Y!Change
  <2>2. Aim(s, 6 * Slots + j)
    BY <1>1 DEF Aim
  <2>3. since = 0 \/ now \in 20 * Slots + 1 .. 21 * Slots
    BY <1>1, <1>4, <1>6 DEF Aim
  <2> QED
    BY <1>1, <1>6, <2>1, <2>2, <2>3, ChangeAimed DEF Keeps
<1>7. CASE cur_state = "S3" /\ said' = "word" /\ \E j \in Y!Upto(10) : Y!Change("IRC", Y!At(20) + j)
  <2>1. PICK j \in 0 .. Slots - 1 : cur_state' = "IRC" /\ left' = Y!Until(20 * Slots + j)
    BY <1>7, UptoIs, YxTerms DEF Y!Change
  <2>2. Aim("IRC", 20 * Slots + j)
    BY <1>1 DEF Aim
  <2>3. since = 0 \/ now \in 18 * Slots + 1 .. 20 * Slots - 1
    BY <1>1, <1>7 DEF Aim
  <2> QED
    BY <1>1, <1>7, <2>1, <2>2, <2>3, ChangeAimed DEF Keeps
<1>8. CASE /\ cur_state \in {"AMF", "KDF"} /\ said' = "nothing"
           /\ \E j \in Y!Upto(60) : Y!Change("IRC", Y!At(11) + Y!MinNow + j)
  <2>1. PICK j \in 0 .. Slots - 1 : cur_state' = "IRC" /\ left' = Y!Until(11 * Slots + m + j)
    BY <1>3, <1>8, UptoIs, YxTerms DEF Y!Change
  <2>2. Aim("IRC", 11 * Slots + m + j)
    BY <1>1 DEF Aim
  <2>3. since = 0 \/ now \in 6 * Slots + 1 .. 7 * Slots
    BY <1>1, <1>8 DEF Aim
  <2>4. /\ left' \in 1 .. 24 * Slots /\ Aimed("IRC", now, left')
        /\ (11 * Slots + m + j > now => left' = 11 * Slots + m + j - now)
    BY <1>1, <2>1, <2>2, ChangeAimed
  <2>5. ASSUME since # 0 PROVE Keeps("IRC", now, left')
    <3>1. now >= 6 * Slots /\ now < 11 * Slots + m + j
      BY <1>1, <2>3, <2>5
    <3>2. now + left' = 11 * Slots + m + j
      BY <1>1, <2>4, <3>1
    <3> QED
      BY <1>1, <3>1, <3>2 DEF Keeps
  <2> QED
    BY <1>8, <2>1, <2>4, <2>5
<1> QED
  BY <1>5, <1>6, <1>7, <1>8, Zenon DEF Y!ChangeOfState

\* A state that is kept does not end with a word in the afternoon.
LEMMA QuietAfternoon ==
  ASSUME YxTyped, left >= 0, Keeps(cur_state, now, left), Y!Awake
  PROVE  now \notin 14 * Slots .. 17 * Slots
BY YxTerms DEF YxTyped, Keeps, Y!Awake

\* What ends now is on time.
LEMMA OnTime ==
  ASSUME YxTyped, left = 0, Aimed(cur_state, now, left)
  PROVE  Keeps(cur_state, now, left) /\ Aim(cur_state, now)
BY YxTerms DEF YxTyped, Aimed, Aim, Keeps

\* A day after the last suspension the hours are kept.
LEMMA KeptByThen ==
  ASSUME YxInv, since = 24 * Slots, ran
  PROVE  left >= 0 /\ Keeps(cur_state, now, left)
<1>1. YxTyped /\ left >= 0 /\ Slots \in Nat \ {0} /\ Aimed(cur_state, now, left)
      /\ (Keeps(cur_state, now, left) \/ since + left <= 24 * Slots)
  BY YxTerms DEF YxInv
<1>2. CASE since + left <= 24 * Slots
  <2>1. left = 0
    BY <1>1, <1>2 DEF YxTyped
  <2> QED
    BY <1>1, <2>1, OnTime
<1> QED
  BY <1>1, <1>2

\* timer: a change when it is due, or a word
LEMMA YxTimerStep ==
  ASSUME YxInv, Y!Timer
  PROVE  YxInv'
<1>1. ran' = TRUE /\ now' = now /\ since' = since /\ Slots \in Nat \ {0} /\ YxTyped
  BY YxTerms DEF Y!Timer, YxInv
<1>2. CASE left = -1 /\ Y!ChangeOfState
  <2>1. /\ cur_state' \in {"IRC", "S3", "AMF", "KDF"} /\ left' \in 1 .. 24 * Slots /\ said' \in {"nothing", "word", "answer"}
        /\ Aimed(cur_state', now, left')
        /\ since = 0 \/ (Keeps(cur_state', now, left') /\ (said' = "word" => now \notin 14 * Slots .. 17 * Slots))
    BY <1>2, ChangeStep
  <2>2. YxTyped'
    BY <1>1, <2>1 DEF YxTyped
  <2>3. left' >= 0 /\ left' # -1 /\ Aimed(cur_state', now', left')
    BY <1>1, <2>1
  <2>4. Keeps(cur_state', now', left') \/ since' + left' <= 24 * Slots
    BY <1>1, <2>1
  <2>5. since' = 24 * Slots /\ said' = "word" => now' \notin 14 * Slots .. 17 * Slots
    BY <1>1, <2>1
  <2> QED
    BY <2>2, <2>3, <2>4, <2>5 DEF YxInv
<1>3. CASE left # -1 /\ Y!Chat
  <2>1. said' \in (IF Y!Awake THEN {"nothing", "word"} ELSE {"nothing"}) /\ cur_state' = cur_state /\ left' = left
    BY <1>3 DEF Y!Chat
  <2>2. YxTyped'
    BY <1>1, <2>1 DEF YxTyped
  <2>3. left >= 0 /\ Aimed(cur_state, now, left)
        /\ (Keeps(cur_state, now, left) \/ since + left <= 24 * Slots)
    BY <1>1, <1>3 DEF YxInv, YxTyped
  <2>4. since = 24 * Slots => Keeps(cur_state, now, left)
    <3>1. ASSUME since = 24 * Slots, since + left <= 24 * Slots PROVE left = 0
      BY <1>1, <2>3, <3>1 DEF YxTyped
    <3> QED
      BY <1>1, <2>3, <3>1, OnTime
  <2>5. since = 24 * Slots /\ said' = "word" => now \notin 14 * Slots .. 17 * Slots
    BY <1>1, <2>1, <2>3, <2>4, QuietAfternoon
  <2> QED
    BY <1>1, <2>1, <2>2, <2>3, <2>5 DEF YxInv
<1> QED
  BY <1>2, <1>3, Zenon DEF Y!Timer

\* reply: only a state that talks does (yx.c:158).
LEMMA YxReplyStep ==
  ASSUME YxInv, Y!Reply
  PROVE  YxInv'
<1>1. Y!Awake /\ said' = "word" /\ now' = now /\ cur_state' = cur_state /\ left' = left /\ ran' = ran /\ since' = since
  BY DEF Y!Reply
<1>2. YxTyped'
  BY <1>1 DEF YxInv, YxTyped
<1>3. ran /\ since = 24 * Slots => now \notin 14 * Slots .. 17 * Slots
  BY <1>1, KeptByThen, QuietAfternoon DEF YxInv
<1> QED
  BY <1>1, <1>2, <1>3 DEF YxInv

\* reply, "yx": an answer is not a word of the bot's own accord, in whatever state (yx.c:174).
LEMMA YxCommandStep ==
  ASSUME YxInv, Y!Command
  PROVE  YxInv'
<1>1. said' = "answer" /\ now' = now /\ cur_state' = cur_state /\ left' = left /\ ran' = ran /\ since' = since
  BY DEF Y!Command
<1>2. YxTyped'
  BY <1>1 DEF YxInv, YxTyped
<1> QED
  BY <1>1, <1>2 DEF YxInv

\* destroy and init, at whatever hour
LEMMA YxReloadStep ==
  ASSUME YxInv, Y!Reload
  PROVE  YxInv'
<1>1. PICK s \in Y!States, l \in 1 .. Y!Day : Y!Start(s, l) /\ cur_state' = s /\ left' = l
  BY DEF Y!Reload
<1>2. said' = "nothing" /\ now' = now /\ ran' = ran /\ since' = since
  BY DEF Y!Reload
<1>3. s \in {"IRC", "S3", "AMF", "KDF"} /\ YxTyped /\ Slots \in Nat \ {0}
  BY YxTerms DEF YxInv, Y!States
<1>4. l \in 1 .. 24 * Slots /\ Aimed(s, now, l) /\ Keeps(s, now, l)
  BY <1>1, <1>3, StartKeeps
<1>5. said' \in {"nothing", "word", "answer"} /\ ran' \in BOOLEAN
  BY <1>2, <1>3, Zenon DEF YxTyped
<1>6. YxTyped' /\ left' >= 0 /\ left' # -1
  BY <1>1, <1>2, <1>3, <1>4, <1>5 DEF YxTyped
<1> QED
  BY <1>1, <1>2, <1>4, <1>6 DEF YxInv

\* A slot later (yx.c:82)
LEMMA YxTickStep ==
  ASSUME YxInv, Y!Tick
  PROVE  YxInv'
<1>1. /\ ran /\ now' = (now + 1) % (24 * Slots) /\ left' = (IF left < 1 THEN -1 ELSE left - 1)
      /\ ran' = FALSE /\ said' = "nothing" /\ cur_state' = cur_state
      /\ since' = IF since = 24 * Slots THEN 24 * Slots ELSE since + 1
  BY YxTerms DEF Y!Tick, Y!Later
<1>2. YxTyped /\ left >= 0 /\ Slots \in Nat \ {0} /\ Aimed(cur_state, now, left)
      /\ (Keeps(cur_state, now, left) \/ since + left <= 24 * Slots)
  BY <1>1, YxTerms DEF YxInv
<1>3. PICK d \in Nat \ {0} : d = 24 * Slots
  BY <1>2
<1>4. now' = (now + 1) % d /\ now + 1 \in 0 .. 2 * d - 1
  <2>1. Y!Day = d
    BY <1>3, YxTerms
  <2> QED
    BY <1>2, <1>3, <2>1 DEF Y!Tick, Y!Later, YxTyped
<1>5. now' = IF now + 1 < 24 * Slots THEN now + 1 ELSE now + 1 - 24 * Slots
  <2>1. PICK x \in 0 .. 2 * d - 1 : x = now + 1
    BY <1>4
  <2>2. now' = x % d
    BY <1>4, <2>1, Zenon
  <2>3. now' = IF x < d THEN x ELSE x - d
    BY <2>2, NextDay, Zenon
  <2> QED
    BY <1>2, <1>3, <2>1, <2>3 DEF YxTyped
<1>6. YxTyped'
  <2>1. said' \in {"nothing", "word", "answer"} /\ ran' \in BOOLEAN /\ cur_state' \in {"IRC", "S3", "AMF", "KDF"}
    BY <1>1, <1>2, Zenon DEF YxTyped
  <2> QED
    BY <1>1, <1>2, <1>5, <2>1 DEF YxTyped
<1>7. CASE left = 0
  <2>1. Aim(cur_state, now)
    BY <1>2, <1>7, OnTime
  <2>2. now < 23 * Slots
    BY <1>2, <2>1 DEF Aim, YxTyped
  <2>3. now' - 1 = now
    BY <1>2, <1>5, <2>2 DEF YxTyped
  <2>4. left' = -1 /\ Aim(cur_state', now' - 1)
    BY <1>1, <1>7, <2>1, <2>3
  <2> QED
    BY <1>1, <1>6, <2>4 DEF YxInv
<1>8. CASE left > 0
  <2>1. left' = left - 1 /\ left' >= 0 /\ left' # -1
    BY <1>1, <1>2, <1>8 DEF YxTyped
  <2>2. now' + left' = now + left \/ (now' + left' = now + left - 24 * Slots /\ now = 24 * Slots - 1)
    BY <1>2, <1>5, <2>1 DEF YxTyped
  <2>3. Aimed(cur_state, now', left')
    BY <1>2, <1>5, <1>6, <2>1, <2>2 DEF Aimed, Aim, YxTyped
  <2>4. Keeps(cur_state, now, left) => Keeps(cur_state, now', left')
    BY <1>2, <1>5, <1>6, <1>8, <2>1, <2>2 DEF Keeps, YxTyped
  <2>5. since + left <= 24 * Slots => since' + left' <= 24 * Slots
    BY <1>1, <1>2, <1>6, <2>1 DEF YxTyped
  <2> QED
    BY <1>1, <1>2, <1>6, <2>1, <2>3, <2>4, <2>5 DEF YxInv
<1> QED
  BY <1>2, <1>7, <1>8 DEF YxTyped

\* The machine was asleep (yx.c:82).
LEMMA YxSuspendStep ==
  ASSUME YxInv, NEW slots \in Nat, Y!Suspend(slots)
  PROVE  YxInv'
<1>1. /\ ran /\ now' = (now + slots) % (24 * Slots) /\ left' = (IF left < slots THEN -1 ELSE left - slots)
      /\ ran' = FALSE /\ said' = "nothing" /\ cur_state' = cur_state /\ since' = 0
  BY YxTerms DEF Y!Suspend, Y!Later
<1>2. YxTyped /\ left >= 0 /\ Slots \in Nat \ {0} /\ Aimed(cur_state, now, left)
  BY <1>1, YxTerms DEF YxInv
<1>3. PICK d \in Nat \ {0} : d = 24 * Slots
  BY <1>2
<1>4. now' = (now + slots) % d /\ (now + slots) % d \in 0 .. d - 1
  <2>1. Y!Day = d
    BY <1>3, YxTerms
  <2> QED
    BY <1>2, <2>1 DEF Y!Suspend, Y!Later, YxTyped
<1>5. YxTyped'
  <2>1. said' \in {"nothing", "word", "answer"} /\ ran' \in BOOLEAN /\ cur_state' \in {"IRC", "S3", "AMF", "KDF"}
    BY <1>1, <1>2, Zenon DEF YxTyped
  <2>2. now' \in 0 .. 24 * Slots - 1
    BY <1>3, <1>4
  <2>3. left' \in -1 .. 24 * Slots /\ since' \in 0 .. 24 * Slots
    BY <1>1, <1>2 DEF YxTyped
  <2> QED
    BY <2>1, <2>2, <2>3 DEF YxTyped
<1>6. CASE left < slots
  BY <1>1, <1>5, <1>6 DEF YxInv
<1>7. CASE left >= slots
  <2>1. left' = left - slots /\ left' >= 0 /\ left' # -1
    BY <1>1, <1>2, <1>7 DEF YxTyped
  <2>2. now + slots \in 0 .. 2 * d - 1
    BY <1>2, <1>3, <1>7 DEF YxTyped
  <2>3. now' = IF now + slots < 24 * Slots THEN now + slots ELSE now + slots - 24 * Slots
    <3>1. PICK x \in 0 .. 2 * d - 1 : x = now + slots
      BY <2>2
    <3>2. now' = x % d
      BY <1>4, <3>1, Zenon
    <3>3. now' = IF x < d THEN x ELSE x - d
      BY <3>2, NextDay, Zenon
    <3> QED
      BY <1>2, <1>3, <3>1, <3>3 DEF YxTyped
  <2>4. Aimed(cur_state, now', left')
    BY <1>2, <1>5, <2>1, <2>3 DEF Aimed, Aim, YxTyped
  <2>5. since' + left' <= 24 * Slots
    BY <1>1, <1>5 DEF YxTyped
  <2> QED
    BY <1>1, <1>5, <2>1, <2>4, <2>5 DEF YxInv
<1> QED
  BY <1>2, <1>6, <1>7 DEF YxTyped

\* At first the hours are kept.
LEMMA YxInit == Y!Init => YxInv
<1> HAVE Y!Init
<1>1. YxTyped /\ Y!Start(cur_state, left) /\ left >= 0 /\ left # -1 /\ said = "nothing"
  <2>1. ran \in BOOLEAN /\ said \in {"nothing", "word", "answer"} /\ said = "nothing"
    BY Zenon DEF Y!Init
  <2>2. /\ now \in 0 .. 24 * Slots - 1 /\ cur_state \in {"IRC", "S3", "AMF", "KDF"} /\ left \in 1 .. 24 * Slots
        /\ since = 24 * Slots /\ Y!Start(cur_state, left) /\ Slots \in Nat
    BY YxTerms DEF Y!Init, Y!States
  <2> QED
    BY <2>1, <2>2 DEF YxTyped
<1>2. Aimed(cur_state, now, left) /\ Keeps(cur_state, now, left)
  BY <1>1, StartKeeps DEF YxTyped
<1> QED
  BY <1>1, <1>2 DEF YxInv

\* No step of yx.so, of the clock or of the machine breaks the invariant.
LEMMA YxNext == YxInv /\ [Y!Next]_Y!vars => YxInv'
<1> SUFFICES ASSUME YxInv, [Y!Next]_Y!vars PROVE YxInv'
  OBVIOUS
<1>1. ASSUME NEW d \in Sleeps, Y!Suspend(d) PROVE YxInv'
  BY <1>1, YxSuspendStep, YxAssumption
<1>2. ASSUME UNCHANGED Y!vars PROVE YxInv'
  BY <1>2 DEF Y!vars, YxInv, YxTyped
<1> QED
  BY <1>1, <1>2, YxTimerStep, YxReplyStep, YxCommandStep, YxReloadStep, YxTickStep, Zenon DEF Y!Next

\* What the invariant says a day after a suspension
LEMMA YxImplies == YxInv => Recovers
<1> HAVE YxInv
<1>1. Y!TypeOK
  BY YxTerms DEF YxInv, YxTyped, Y!TypeOK, Y!States, Y!Sayings
<1>2. ASSUME since = Y!Day, ran
      PROVE  /\ cur_state = "IRC" => Y!Within(6, 13) \/ Y!Within(18, 21)
             /\ cur_state = "S3" => Y!Within(11, 20)
             /\ cur_state \in {"AMF", "KDF"} => Y!Within(20, 24) \/ Y!Within(0, 7)
             /\ Y!Within(14, 17) => said # "word"
  <2>1. left >= 0 /\ Keeps(cur_state, now, left)
    BY <1>2, KeptByThen, YxTerms
  <2>2. said = "word" => now \notin 14 * Slots .. 17 * Slots
    BY <1>2, YxTerms DEF YxInv
  <2> QED
    BY <2>1, <2>2, YxTerms DEF YxInv, YxTyped, Keeps, Y!Within
<1> QED
  BY <1>1, <1>2 DEF Recovers, Y!Recovers

\* A day after the machine was suspended, however long that was and whenever, the bot keeps its hours
\* again: gone in the afternoon, when it does not say a word unless it is asked for its hours; at night
\* out of work (yx.c:86, 120, 174).
THEOREM YxRecovers == Y!Spec => []Recovers
<1>1. Y!Spec => []YxInv
  BY YxInit, YxNext, PTL DEF Y!Spec
<1> QED
  BY <1>1, YxImplies, PTL
-----------------------------------------------------------------------------
(* MessageInfo.  The memory is that of strings: cells up to a Nul. *)

USE DEF M!Space, M!Colon, M!Nul, M!NULL

\* What a buffer holds
Cells == Token \cup {"space", "colon", "nul"}

\* A buffer ends in a Nul, whatever lines it has held.
Memory == {m \in [1 .. BUFLEN -> Cells] : m[BUFLEN] = "nul"}

\* strchr finds the first such cell of the string at p, or none.
LEMMA StrchrIs ==
  ASSUME NEW K \in Nat, NEW mem \in [1 .. K -> Cells], NEW p \in Nat \ {0}, NEW cell
  PROVE  \/ /\ M!Strchr(mem, p, cell) = 0
            /\ \A i \in p .. K : mem[i] = cell => \E j \in p .. i - 1 : mem[j] = "nul"
         \/ /\ M!Strchr(mem, p, cell) \in p .. K /\ mem[M!Strchr(mem, p, cell)] = cell
            /\ \A j \in p .. M!Strchr(mem, p, cell) - 1 : mem[j] # "nul" /\ mem[j] # cell
<1> DEFINE hits == {i \in p .. K : mem[i] = cell /\ \A j \in p .. i - 1 : mem[j] # "nul"}
           r == M!Strchr(mem, p, cell)
<1>1. Len(mem) = K
  OBVIOUS
<1>2. r = IF hits = {} THEN 0 ELSE CHOOSE i \in hits : \A j \in hits : i <= j
  <2>1. r = LET h == {i \in p .. Len(mem) : mem[i] = cell /\ \A j \in p .. i - 1 : mem[j] # "nul"}
            IN  IF h = {} THEN 0 ELSE CHOOSE i \in h : \A j \in h : i <= j
    BY DEF M!Strchr
  <2> QED BY <1>1, <2>1
<1>3. CASE hits = {}
  BY <1>2, <1>3
<1>4. CASE hits # {}
  <2>1. hits \subseteq Nat
    OBVIOUS
  <2>2. \E i \in hits : \A j \in hits : i <= j
    BY <1>4, <2>1, LeastIn
  <2>3. r \in hits /\ \A j \in hits : r <= j
    BY <1>2, <1>4, <2>2, Zenon
  <2> HIDE DEF r
  <2>4. r \in p .. K /\ mem[r] = cell /\ \A j \in p .. r - 1 : mem[j] # "nul"
    BY <2>3
  <2>5. ASSUME NEW j \in p .. r - 1, mem[j] = cell PROVE FALSE
    <3>1. j \in hits
      BY <2>4, <2>5
    <3> QED BY <2>3, <2>4, <3>1
  <2>6. \A j \in p .. r - 1 : mem[j] # "nul" /\ mem[j] # cell
    BY <2>4, <2>5
  <2> QED BY <2>4, <2>6 DEF r
<1> QED BY <1>3, <1>4

\* strchr finds a cell that has no other before it, and no end.
LEMMA StrchrFinds ==
  ASSUME NEW K \in Nat, NEW mem \in [1 .. K -> Cells], NEW p \in Nat \ {0}, NEW cell, NEW i \in p .. K,
         mem[i] = cell, \A j \in p .. i - 1 : mem[j] # "nul" /\ mem[j] # cell
  PROVE  M!Strchr(mem, p, cell) = i
<1> DEFINE r == M!Strchr(mem, p, cell)
<1>1. \/ r = 0 /\ \E j \in p .. i - 1 : mem[j] = "nul"
      \/ r \in p .. K /\ mem[r] = cell /\ \A j \in p .. r - 1 : mem[j] # "nul" /\ mem[j] # cell
  BY StrchrIs
<1> HIDE DEF r
<1>2. r \in p .. K /\ ~ (r < i) /\ ~ (i < r)
  BY <1>1
<1>3. r = i
  BY <1>2
<1> QED BY <1>3 DEF r

\* The string at p ends before the first Nul.
LEMMA StringIs ==
  ASSUME NEW K \in Nat, NEW mem \in [1 .. K -> Cells], NEW p \in 1 .. K, NEW e \in p .. K,
         mem[e] = "nul", \A j \in p .. e - 1 : mem[j] # "nul"
  PROVE  M!String(mem, p) = SubSeq(mem, p, e - 1)
<1>1. M!Strchr(mem, p, "nul") = e
  BY StrchrFinds
<1> QED BY <1>1 DEF M!String

\* A cut leaves a buffer and a place in it, behind the first space of the string at p, or no place.
LEMMA CutIs ==
  ASSUME NEW mem \in Memory, NEW p \in 1 .. BUFLEN
  PROVE  /\ M!CutAt(mem, p).mem \in Memory /\ M!CutAt(mem, p).next \in 0 .. BUFLEN
         /\ \/ /\ M!CutAt(mem, p) = [mem |-> mem, next |-> 0]
               /\ \A i \in p .. BUFLEN : mem[i] = "space" => \E j \in p .. i - 1 : mem[j] = "nul"
            \/ \E s \in p .. BUFLEN - 1 :
                 /\ mem[s] = "space" /\ \A j \in p .. s - 1 : mem[j] # "nul" /\ mem[j] # "space"
                 /\ M!CutAt(mem, p) = [mem |-> [mem EXCEPT ![s] = "nul"], next |-> s + 1]
<1> USE InfoAssumption
<1> DEFINE s == M!Strchr(mem, p, "space")
<1>1. /\ BUFLEN \in Nat /\ mem \in [1 .. BUFLEN -> Cells] /\ mem[BUFLEN] = "nul" /\ p \in Nat \ {0}
  BY DEF Memory
<1>2. \/ s = 0 /\ \A i \in p .. BUFLEN : mem[i] = "space" => \E j \in p .. i - 1 : mem[j] = "nul"
      \/ /\ s \in p .. BUFLEN /\ mem[s] = "space"
         /\ \A j \in p .. s - 1 : mem[j] # "nul" /\ mem[j] # "space"
  BY <1>1, StrchrIs
<1>3. M!CutAt(mem, p) = IF s = 0 THEN [mem |-> mem, next |-> 0]
                        ELSE [mem |-> [mem EXCEPT ![s] = "nul"], next |-> s + 1]
  BY DEF M!CutAt
<1> HIDE DEF s
<1>4. CASE s = 0
  BY <1>1, <1>2, <1>3, <1>4
<1>5. CASE s # 0
  <2>1. s \in p .. BUFLEN - 1 /\ mem[s] = "space" /\ \A j \in p .. s - 1 : mem[j] # "nul" /\ mem[j] # "space"
    BY <1>1, <1>2, <1>5
  <2>2. [mem EXCEPT ![s] = "nul"] \in Memory
    BY <1>1, <2>1 DEF Memory
  <2> DEFINE m == [mem EXCEPT ![s] = "nul"]
  <2>3. M!CutAt(mem, p) = [mem |-> m, next |-> s + 1] /\ m \in Memory
    BY <1>3, <1>5, <2>2
  <2>4. s + 1 \in 0 .. BUFLEN
    BY <1>1, <2>1
  <2>5. \E z \in p .. BUFLEN - 1 :
          /\ mem[z] = "space" /\ \A j \in p .. z - 1 : mem[j] # "nul" /\ mem[j] # "space"
          /\ M!CutAt(mem, p) = [mem |-> [mem EXCEPT ![z] = "nul"], next |-> z + 1]
    BY <2>1, <2>3, Zenon
  <2> HIDE DEF m
  <2>6. M!CutAt(mem, p).mem \in Memory /\ M!CutAt(mem, p).next \in 0 .. BUFLEN
    BY <2>3, <2>4
  <2> QED BY <2>5, <2>6, Zenon
<1> QED BY <1>4, <1>5

\* The first space of the string at p
FirstSpace(mem, p, s) ==
  s \in p .. BUFLEN - 1 /\ mem[s] = "space" /\ \A j \in p .. s - 1 : mem[j] # "nul" /\ mem[j] # "space"

\* A cut is there.
LEMMA CutFinds ==
  ASSUME NEW mem \in Memory, NEW p \in 1 .. BUFLEN, NEW s, FirstSpace(mem, p, s)
  PROVE  M!CutAt(mem, p) = [mem |-> [mem EXCEPT ![s] = "nul"], next |-> s + 1]
<1>1. /\ BUFLEN \in Nat /\ mem \in [1 .. BUFLEN -> Cells] /\ p \in Nat \ {0} /\ s \in p .. BUFLEN
      /\ mem[s] = "space" /\ \A j \in p .. s - 1 : mem[j] # "nul" /\ mem[j] # "space"
  BY InfoAssumption DEF Memory, FirstSpace
<1>2. M!Strchr(mem, p, "space") = s
  BY <1>1, StrchrFinds
<1>3. s # 0
  BY <1>1
<1> QED BY <1>2, <1>3 DEF M!CutAt

\* What the loop of irc_makeinfo carries from turn to turn
Gathered == [p : 0 .. BUFLEN, argv : Seq(1 .. BUFLEN), tail : 0 .. BUFLEN, mem : Memory]

\* A turn of the loop finds the text, finds an argument or does nothing.
LEMMA ArgumentIs ==
  ASSUME NEW a \in Gathered
  PROVE  /\ M!Argument(a) \in Gathered /\ Len(M!Argument(a).argv) \in 0 .. Len(a.argv) + 1
         /\ a.p = 0 => M!Argument(a) = a
         /\ a.p # 0 /\ a.mem[a.p] = "colon" =>
              M!Argument(a) = [p |-> 0, argv |-> a.argv, tail |-> a.p + 1, mem |-> a.mem]
         /\ a.p # 0 /\ a.mem[a.p] # "colon" =>
              M!Argument(a) = [p |-> M!CutAt(a.mem, a.p).next, argv |-> Append(a.argv, a.p),
                               tail |-> a.tail, mem |-> M!CutAt(a.mem, a.p).mem]
<1> USE InfoAssumption
<1>1. /\ a = [p |-> a.p, argv |-> a.argv, tail |-> a.tail, mem |-> a.mem] /\ a.p \in 0 .. BUFLEN
      /\ a.argv \in Seq(1 .. BUFLEN) /\ a.tail \in 0 .. BUFLEN /\ a.mem \in Memory /\ Len(a.argv) \in Nat
  BY DEF Gathered
<1>2. CASE a.p = 0
  BY <1>1, <1>2 DEF M!Argument
<1>3. CASE a.p # 0 /\ a.mem[a.p] = "colon"
  <2>1. M!Argument(a) = [a EXCEPT !.tail = a.p + 1, !.p = 0]
    BY <1>3, Zenon DEF M!Argument
  <2>2. M!Argument(a) = [p |-> 0, argv |-> a.argv, tail |-> a.p + 1, mem |-> a.mem]
    BY <1>1, <2>1
  <2>3. a.p # BUFLEN /\ a.p + 1 \in 0 .. BUFLEN
    BY <1>1, <1>3 DEF Memory
  <2> QED BY <1>1, <1>3, <2>2, <2>3 DEF Gathered
<1>4. CASE a.p # 0 /\ a.mem[a.p] # "colon"
  <2> DEFINE c == M!CutAt(a.mem, a.p)
  <2>1. M!Argument(a) = [p |-> c.next, argv |-> Append(a.argv, a.p), mem |-> c.mem, tail |-> a.tail]
    BY <1>4, Zenon DEF M!Argument
  <2>2. c.mem \in Memory /\ c.next \in 0 .. BUFLEN
    BY <1>1, <1>4, CutIs
  <2> HIDE DEF c
  <2>3. Append(a.argv, a.p) \in Seq(1 .. BUFLEN) /\ Len(Append(a.argv, a.p)) = Len(a.argv) + 1
    BY <1>1, <1>4
  <2>4. M!Argument(a) = [p |-> c.next, argv |-> Append(a.argv, a.p), tail |-> a.tail, mem |-> c.mem]
    BY <2>1
  <2> QED BY <1>1, <1>4, <2>2, <2>3, <2>4 DEF Gathered, c
<1> QED BY <1>2, <1>3, <1>4

\* The turns of the loop one after the other, from what it begins with
Turns(mem, p, f) ==
  /\ f[0] = [p |-> p, argv |-> <<>>, tail |-> 0, mem |-> mem] /\ M!Arguments(mem, p) = f[INFO_MAXARG]
  /\ \A i \in 1 .. INFO_MAXARG : f[i] = M!Argument(f[i - 1])
  /\ \A i \in 0 .. INFO_MAXARG : f[i] \in Gathered /\ Len(f[i].argv) \in 0 .. i

\* The loop of irc_makeinfo is its turns (irc.c:279).
LEMMA TurnsAre ==
  ASSUME NEW mem \in Memory, NEW p \in 0 .. BUFLEN
  PROVE  \E f : Turns(mem, p, f)
<1> DEFINE W == INFO_MAXARG
           x == [p |-> p, argv |-> <<>>, tail |-> 0, mem |-> mem]
           step == [y \in (1 .. W) \X Gathered |-> M!Argument(y[2])]
           Up(f) == f = [i \in 0 .. W |-> IF i = 0 THEN x ELSE M!Argument(f[i - 1])]
           u == CHOOSE f : Up(f)
<1>1. W \in Nat /\ BUFLEN \in Nat
  BY InfoAssumption
<1>2. x \in Gathered /\ Len(x.argv) = 0
  BY <1>1 DEF Gathered
<1>3. \A i \in 1 .. W, v \in Gathered : step[<<i, v>>] = M!Argument(v)
  OBVIOUS
<1>4. M!Arguments(mem, p) = u[W]
  BY DEF M!Arguments
<1> HIDE DEF step, x, u
<1>5. PICK f : Walk(W, x, step, f)
  BY <1>1, WalkExists
<1>6. f = [i \in 0 .. W |-> IF i = 0 THEN x ELSE step[<<i, f[i - 1]>>]]
  BY <1>5, Zenon DEF Walk
<1>7. \A i \in 0 .. W : f[i] = IF i = 0 THEN x ELSE step[<<i, f[i - 1]>>]
  BY <1>6, Zenon
<1> DEFINE T == {i \in 0 .. W : f[i] \in Gathered}
<1>8. 0 \in T
  <2>1. 0 \in 0 .. W
    BY <1>1
  <2>2. f[0] = x
    BY <1>7, <2>1, Zenon
  <2> QED BY <1>2, <2>1, <2>2
<1>9. ASSUME NEW i \in 0 .. W - 1, i \in T PROVE i + 1 \in T /\ f[i + 1] = M!Argument(f[i])
  <2>1. i + 1 \in 1 .. W /\ i + 1 \in 0 .. W /\ i + 1 # 0 /\ (i + 1) - 1 = i /\ f[i] \in Gathered
    BY <1>1, <1>9
  <2>2. f[i + 1] = step[<<i + 1, f[i]>>]
    BY <1>7, <2>1
  <2>3. f[i + 1] = M!Argument(f[i])
    BY <1>3, <2>1, <2>2
  <2> QED BY <2>1, <2>3, ArgumentIs
<1>10. 0 .. W \subseteq T
  <2> HIDE DEF T
  <2> QED BY <1>1, <1>8, <1>9, InductiveUpTo
<1>11. \A i \in 1 .. W : f[i] = M!Argument(f[i - 1])
  <2> SUFFICES ASSUME NEW i \in 1 .. W PROVE f[i] = M!Argument(f[i - 1])
    OBVIOUS
  <2>1. i - 1 \in 0 .. W - 1 /\ (i - 1) + 1 = i /\ i - 1 \in T
    BY <1>1, <1>10
  <2> QED BY <1>9, <2>1
<1>12. Up(f)
  <2>1. \A i \in 0 .. W : f[i] = IF i = 0 THEN x ELSE M!Argument(f[i - 1])
    <3> SUFFICES ASSUME NEW i \in 0 .. W PROVE f[i] = IF i = 0 THEN x ELSE M!Argument(f[i - 1])
      OBVIOUS
    <3>1. i = 0 \/ i \in 1 .. W
      BY <1>1
    <3> QED BY <1>7, <1>11, <3>1
  <2> DEFINE g == [i \in 0 .. W |-> IF i = 0 THEN x ELSE M!Argument(f[i - 1])]
  <2>2. f = [i \in 0 .. W |-> f[i]]
    BY <1>6
  <2>3. [i \in 0 .. W |-> f[i]] = g
    BY <2>1
  <2>4. f = g
    BY <2>2, <2>3, Zenon
  <2> QED BY <2>4
<1>13. Up(u)
  BY <1>12, Zenon DEF u
<1>14. \A i \in 0 .. W : u[i] = IF i = 0 THEN x ELSE M!Argument(u[i - 1])
  BY <1>13, Zenon
<1> HIDE DEF Up
<1> DEFINE V == {i \in 0 .. W : u[i] \in Gathered /\ Len(u[i].argv) \in 0 .. i}
<1>15. 0 \in V
  BY <1>1, <1>2, <1>14
<1>16. \A i \in 0 .. W - 1 : u[i + 1] = M!Argument(u[i])
  <2> SUFFICES ASSUME NEW i \in 0 .. W - 1 PROVE u[i + 1] = M!Argument(u[i])
    OBVIOUS
  <2>1. i + 1 \in 0 .. W /\ i + 1 # 0 /\ (i + 1) - 1 = i
    BY <1>1
  <2> QED BY <1>14, <2>1
<1>17. ASSUME NEW i \in 0 .. W - 1, i \in V PROVE i + 1 \in V
  <2>1. u[i] \in Gathered /\ Len(u[i].argv) \in 0 .. i
    BY <1>17
  <2> DEFINE a == u[i]
  <2>2. a \in Gathered
    BY <2>1
  <2> HIDE DEF a
  <2>3. M!Argument(a) \in Gathered /\ Len(M!Argument(a).argv) \in 0 .. Len(a.argv) + 1
    BY <2>2, ArgumentIs
  <2>4. u[i + 1] = M!Argument(a) /\ i + 1 \in 0 .. W
    BY <1>1, <1>16 DEF a
  <2>5. Len(a.argv) \in 0 .. i
    BY <2>1 DEF a
  <2>6. Len(u[i + 1].argv) \in 0 .. i + 1
    BY <2>3, <2>4, <2>5
  <2> QED BY <2>3, <2>4, <2>6
<1> HIDE DEF V
<1>18. 0 .. W \subseteq V
  BY <1>1, <1>15, <1>17, InductiveUpTo
<1>19. \A i \in 0 .. W : u[i] \in Gathered /\ Len(u[i].argv) \in 0 .. i
  BY <1>18 DEF V
<1>20. \A i \in 1 .. W : u[i] = M!Argument(u[i - 1])
  <2> SUFFICES ASSUME NEW i \in 1 .. W PROVE u[i] = M!Argument(u[i - 1])
    OBVIOUS
  <2>1. i \in 0 .. W /\ i # 0
    BY <1>1
  <2> QED BY <1>14, <2>1
<1>21. u[0] = x
  BY <1>1, <1>14
<1>22. Turns(mem, p, u)
  BY <1>4, <1>19, <1>20, <1>21, Zenon DEF Turns, x
<1> QED BY <1>22

\* A line of the server
Readable(l) ==
  /\ l \in Seq(Cells) /\ Len(l) \in 1 .. BUFLEN - 1 /\ \A i \in 1 .. Len(l) : l[i] # "nul"

\* The copy of the line is cut at every space before p, and nowhere else.
CutBefore(mem, l, p) ==
  /\ mem \in Memory /\ mem[Len(l) + 1] = "nul"
  /\ \A i \in 1 .. p - 1 : mem[i] = IF l[i] = "space" THEN "nul" ELSE l[i]
  /\ \A i \in p .. Len(l) : mem[i] = l[i]

\* Behind a parameter there is one at every space.
LEMMA ParamsAre ==
  ASSUME NEW l, Readable(l), NEW i \in M!Params(l)
  PROVE  /\ Len(l) \in Nat /\ i \in 2 .. Len(l) + 1 /\ l[i - 1] = "space"
         /\ \A j \in i + 1 .. Len(l) + 1 : l[j - 1] = "space" => j \in M!Params(l)
<1>1. Len(l) \in Nat /\ i \in 2 .. Len(l) + 1 /\ l[i - 1] = "space"
  BY InfoAssumption DEF Readable, M!Params
<1>2. l[1] = "colon" => \E k \in 1 .. i - 2 : l[k] = "space"
  BY DEF M!Params
<1>3. ASSUME NEW j \in i + 1 .. Len(l) + 1, l[j - 1] = "space" PROVE j \in M!Params(l)
  <2>1. j \in 2 .. Len(l) + 1
    BY <1>1
  <2>2. l[1] = "colon" => \E k \in 1 .. j - 2 : l[k] = "space"
    BY <1>1, <1>2, <1>3
  <2> QED BY <1>3, <2>1, <2>2 DEF M!Params
<1> QED BY <1>1, <1>3

\* Where a space follows, the next cut is at the first one.
LEMMA NextSpace ==
  ASSUME NEW l, Readable(l), NEW p \in 1 .. Len(l), NEW mem, CutBefore(mem, l, p),
         NEW q \in p .. Len(l), l[q] = "space"
  PROVE  \E s \in p .. q : /\ l[s] = "space" /\ \A j \in p .. s - 1 : l[j] # "space"
                           /\ M!CutAt(mem, p).next = s + 1 /\ CutBefore(M!CutAt(mem, p).mem, l, s + 1)
<1>1. /\ l \in Seq(Cells) /\ Len(l) \in Nat /\ BUFLEN \in Nat /\ Len(l) < BUFLEN
      /\ \A i \in 1 .. Len(l) : l[i] # "nul" /\ p \in Nat /\ q \in Nat
  BY InfoAssumption DEF Readable
<1> DEFINE hits == {s \in p .. q : l[s] = "space"}
<1>2. hits \subseteq Nat /\ hits # {}
  BY <1>1
<1>3. PICK s \in hits : \A j \in hits : s <= j
  BY <1>2, LeastIn
<1>4. s \in p .. q /\ l[s] = "space" /\ s \in Nat
  BY <1>1, <1>3
<1>5. ASSUME NEW j \in p .. s - 1 PROVE l[j] # "space" /\ l[j] # "nul" /\ mem[j] = l[j]
  <2>1. j \in p .. q /\ j < s /\ j \in 1 .. Len(l) /\ j \in p .. Len(l)
    BY <1>1, <1>4
  <2> QED BY <1>1, <1>3, <2>1 DEF CutBefore
<1>6. mem \in Memory /\ p \in 1 .. BUFLEN /\ s \in p .. Len(l) /\ mem[s] = "space" /\ s \in p .. BUFLEN - 1
  BY <1>1, <1>4 DEF CutBefore
<1>7. FirstSpace(mem, p, s)
  BY <1>5, <1>6 DEF FirstSpace
<1> DEFINE m == [mem EXCEPT ![s] = "nul"]
<1>8. M!CutAt(mem, p) = [mem |-> m, next |-> s + 1]
  BY <1>6, <1>7, CutFinds
<1>9. M!CutAt(mem, p).next = s + 1 /\ M!CutAt(mem, p).mem = m
  BY <1>8
<1>10. CutBefore(m, l, s + 1)
  <2>1. /\ mem \in [1 .. BUFLEN -> Cells] /\ mem[BUFLEN] = "nul" /\ mem[Len(l) + 1] = "nul"
        /\ \A i \in 1 .. p - 1 : mem[i] = IF l[i] = "space" THEN "nul" ELSE l[i]
        /\ \A i \in p .. Len(l) : mem[i] = l[i]
    BY DEF CutBefore, Memory
  <2>2. m \in [1 .. BUFLEN -> Cells] /\ m[s] = "nul" /\ \A i \in 1 .. BUFLEN : i # s => m[i] = mem[i]
    <3>1. s \in 1 .. BUFLEN
      BY <1>1, <1>4, <1>6
    <3>2. \A i \in 1 .. BUFLEN : m[i] = IF i = s THEN "nul" ELSE mem[i]
      BY <2>1, Zenon
    <3>3. m \in [1 .. BUFLEN -> Cells]
      <4>1. "nul" \in Cells
        BY <2>1, InfoAssumption
      <4>2. \A i \in 1 .. BUFLEN : m[i] \in Cells
        BY <2>1, <3>2, <4>1
      <4>3. m = [i \in 1 .. BUFLEN |-> m[i]]
        BY <2>1
      <4> HIDE DEF m
      <4> QED BY <4>2, <4>3
    <3> QED BY <3>1, <3>2, <3>3
  <2> HIDE DEF m
  <2>3. m \in Memory /\ m[Len(l) + 1] = "nul"
    BY <1>1, <1>6, <2>1, <2>2 DEF Memory
  <2>4. ASSUME NEW i \in s + 1 .. Len(l) PROVE m[i] = l[i]
    <3>1. i \in 1 .. BUFLEN /\ i # s /\ i \in p .. Len(l)
      BY <1>1, <1>4
    <3> QED BY <2>1, <2>2, <3>1
  <2>5. ASSUME NEW i \in 1 .. (s + 1) - 1 PROVE m[i] = IF l[i] = "space" THEN "nul" ELSE l[i]
    <3>1. i \in 1 .. BUFLEN /\ (i = s \/ i \in p .. s - 1 \/ i \in 1 .. p - 1)
      BY <1>1, <1>4, <1>6
    <3>2. CASE i = s
      BY <1>4, <2>2, <3>2
    <3>3. CASE i \in p .. s - 1
      BY <1>4, <1>5, <2>2, <3>1, <3>3
    <3>4. CASE i \in 1 .. p - 1
      BY <1>1, <1>4, <2>1, <2>2, <3>1, <3>4
    <3> QED BY <3>1, <3>2, <3>3, <3>4
  <2> QED BY <2>3, <2>4, <2>5 DEF CutBefore
<1> HIDE DEF m
<1> QED BY <1>4, <1>5, <1>9, <1>10

\* The parameters in front of q
Before(l, q) == {i \in M!Params(l) : i < q}

\* argv points to each of them, in their order.
Listed(argv, l, q) ==
  /\ Len(argv) = Cardinality(Before(l, q)) /\ \A k \in 1 .. Len(argv) : argv[k] \in Before(l, q)
  /\ \A k, m \in 1 .. Len(argv) : k < m => argv[k] < argv[m]

\* There are finitely many of them.
LEMMA BeforeFinite ==
  ASSUME NEW l, Readable(l), NEW q
  PROVE  IsFiniteSet(Before(l, q)) /\ Cardinality(Before(l, q)) \in Nat
<1>1. Len(l) + 1 \in Nat /\ Before(l, q) \subseteq 1 .. Len(l) + 1
  BY InfoAssumption DEF Readable, Before, M!Params
<1>2. IsFiniteSet(1 .. Len(l) + 1)
  BY <1>1, FS_Interval
<1> QED BY <1>1, <1>2, FS_Subset, FS_CardinalityType

\* One parameter more is listed behind the others.
LEMMA ListedMore ==
  ASSUME NEW l, Readable(l), NEW argv \in Seq(1 .. BUFLEN), NEW p \in M!Params(l), NEW q \in Nat, p < q,
         p \in 1 .. BUFLEN, Listed(argv, l, p), \A j \in M!Params(l) : j < q => j <= p
  PROVE  Listed(Append(argv, p), l, q)
<1> DEFINE more == Append(argv, p)
           W == Len(argv)
<1>0. \A i \in M!Params(l) : i \in Nat
  BY ParamsAre
<1>1. Before(l, q) = Before(l, p) \cup {p} /\ p \notin Before(l, p)
  <2>1. ASSUME NEW j \in M!Params(l) PROVE j < q <=> j < p \/ j = p
    BY <1>0
  <2>2. ~ (p < p)
    BY <1>0
  <2> QED BY <2>1, <2>2 DEF Before
<1>2. Cardinality(Before(l, q)) = Cardinality(Before(l, p)) + 1
  BY <1>1, BeforeFinite, FS_AddElement
<1>3. /\ W \in Nat /\ Len(more) = W + 1 /\ more[W + 1] = p
      /\ \A k \in 1 .. W : more[k] = argv[k] /\ argv[k] \in Nat /\ k # W + 1
  <2>1. W \in Nat /\ \A k \in 1 .. W : argv[k] \in 1 .. BUFLEN /\ k # W + 1
    <3>1. W \in Nat /\ \A k \in 1 .. W : argv[k] \in 1 .. BUFLEN
      BY ElementOfSeq, LenProperties
    <3> HIDE DEF W
    <3> QED BY <3>1
  <2>2. Len(more) = W + 1 /\ \A k \in 1 .. W + 1 : more[k] = IF k <= W THEN argv[k] ELSE p
    BY AppendProperties
  <2>3. BUFLEN \in Nat /\ \A k \in 1 .. BUFLEN : k \in Nat
    BY InfoAssumption
  <2> HIDE DEF more, W
  <2>4. more[W + 1] = p
    BY <2>1, <2>2
  <2>5. \A k \in 1 .. W : more[k] = argv[k]
    BY <2>1, <2>2
  <2> QED BY <2>1, <2>2, <2>3, <2>4, <2>5
<1>4. /\ W = Cardinality(Before(l, p)) /\ \A k \in 1 .. W : argv[k] \in Before(l, p)
      /\ \A k, m \in 1 .. W : k < m => argv[k] < argv[m]
  BY DEF Listed
<1> HIDE DEF more, W
<1>5. Len(more) = Cardinality(Before(l, q))
  BY <1>2, <1>3, <1>4
<1>6. ASSUME NEW k \in 1 .. W + 1 PROVE more[k] \in Before(l, q)
  <2>1. k = W + 1 \/ k \in 1 .. W
    BY <1>3
  <2> QED BY <1>1, <1>3, <1>4, <2>1
<1>7. ASSUME NEW k \in 1 .. W + 1, NEW m \in 1 .. W + 1, k < m PROVE more[k] < more[m]
  <2>1. k \in 1 .. W /\ (m = W + 1 \/ m \in 1 .. W)
    BY <1>3, <1>7
  <2>2. argv[k] < p
    BY <1>4, <2>1 DEF Before
  <2> QED BY <1>3, <1>4, <1>7, <2>1, <2>2
<1> QED BY <1>3, <1>5, <1>6, <1>7 DEF Listed, more

\* Before the text is found the loop is at a parameter that is not behind it.
Searching(l, text, a, i) ==
  /\ a \in Gathered /\ a.p \in M!Params(l) /\ a.p <= text /\ a.tail = 0
  /\ Listed(a.argv, l, a.p) /\ Len(a.argv) = i /\ CutBefore(a.mem, l, a.p)

\* Then it does nothing.
TextFound(l, text, a) ==
  a.p = 0 /\ a.tail = text + 1 /\ Listed(a.argv, l, text) /\ CutBefore(a.mem, l, text)

\* Cardinality is that of FiniteSets.
LEMMA InfoCardinality == \A S : M!Cardinality(S) = Cardinality(S)
  BY DEF M!Cardinality, Cardinality

\* The text of a line that has one in reach
LEMMA TextIs ==
  ASSUME NEW l, Readable(l), NEW text \in M!TextAt(l)
  PROVE  /\ text \in M!Params(l) /\ text \in 2 .. Len(l) /\ Len(l) \in Nat /\ l[text] = "colon" /\ l[text - 1] = "space"
         /\ \A j \in M!Params(l) : j < text => l[j] # "colon"
         /\ Cardinality(Before(l, text)) < INFO_MAXARG
<1>1. text \in M!Params(l) /\ text <= Len(l) /\ l[text] = "colon"
  BY DEF M!TextAt
<1>2. \A j \in M!Params(l) : j < text => l[j] # "colon"
  BY DEF M!TextAt
<1>3. Cardinality({j \in M!Params(l) : j < text}) < INFO_MAXARG
  BY InfoCardinality DEF M!TextAt
<1>4. Len(l) \in Nat /\ text \in 2 .. Len(l) + 1 /\ l[text - 1] = "space"
  BY <1>1, ParamsAre
<1> QED BY <1>1, <1>2, <1>3, <1>4 DEF Before

\* A turn of the search
LEMMA TurnSearches ==
  ASSUME NEW l, Readable(l), NEW text \in M!TextAt(l), NEW a, NEW i \in Nat, Searching(l, text, a, i)
  PROVE  TextFound(l, text, M!Argument(a)) \/ Searching(l, text, M!Argument(a), i + 1)
<1> DEFINE b == M!Argument(a)
           p == a.p
           c == M!CutAt(a.mem, a.p)
<1>1. /\ a \in Gathered /\ p \in M!Params(l) /\ p <= text /\ a.tail = 0
      /\ Listed(a.argv, l, p) /\ Len(a.argv) = i /\ CutBefore(a.mem, l, p)
  BY DEF Searching
<1>2. /\ text \in M!Params(l) /\ text \in 2 .. Len(l) /\ Len(l) \in Nat /\ l[text] = "colon" /\ l[text - 1] = "space"
      /\ \A j \in M!Params(l) : j < text => l[j] # "colon"
  BY TextIs
<1>3. /\ p \in 2 .. Len(l) /\ p # 0 /\ a.mem[p] = l[p]
      /\ \A j \in p + 1 .. Len(l) + 1 : l[j - 1] = "space" => j \in M!Params(l)
  <2>0. p \in 2 .. Len(l) + 1 /\ \A j \in p + 1 .. Len(l) + 1 : l[j - 1] = "space" => j \in M!Params(l)
    <3> HIDE DEF p
    <3> QED BY <1>1, ParamsAre
  <2>1. p \in 2 .. Len(l) /\ \A j \in p + 1 .. Len(l) + 1 : l[j - 1] = "space" => j \in M!Params(l)
    <3> HIDE DEF p
    <3> QED BY <1>1, <1>2, <2>0
  <2>2. p \in p .. Len(l)
    BY <1>2, <2>1
  <2> QED BY <1>1, <2>1, <2>2 DEF CutBefore
<1>4. /\ b \in Gathered
      /\ p # 0 /\ a.mem[p] = "colon" => b = [p |-> 0, argv |-> a.argv, tail |-> p + 1, mem |-> a.mem]
      /\ p # 0 /\ a.mem[p] # "colon" => b = [p |-> c.next, argv |-> Append(a.argv, p), tail |-> a.tail, mem |-> c.mem]
  BY <1>1, ArgumentIs
<1>5. a.argv \in Seq(1 .. BUFLEN) /\ p \in 0 .. BUFLEN
  BY <1>1 DEF Gathered
<1> HIDE DEF b, p, c
<1>6. CASE l[p] = "colon"
  <2>1. p = text
    BY <1>1, <1>2, <1>3, <1>6
  <2>2. b = [p |-> 0, argv |-> a.argv, tail |-> p + 1, mem |-> a.mem]
    BY <1>3, <1>4, <1>6
  <2>3. TextFound(l, text, b)
    BY <1>1, <2>1, <2>2 DEF TextFound
  <2> QED BY <2>3 DEF b
<1>7. CASE l[p] # "colon"
  <2>1. p \in 2 .. text - 1 /\ text - 1 \in p .. Len(l)
    BY <1>1, <1>2, <1>3, <1>7
  <2>2. PICK s \in p .. text - 1 : /\ l[s] = "space" /\ \A j \in p .. s - 1 : l[j] # "space"
                                 /\ c.next = s + 1 /\ CutBefore(c.mem, l, s + 1)
    <3>1. p \in 1 .. Len(l)
      BY <1>3
    <3> QED BY <1>1, <1>2, <2>1, <3>1, NextSpace DEF c, p
  <2>3. b = [p |-> s + 1, argv |-> Append(a.argv, p), tail |-> 0, mem |-> c.mem]
    BY <1>1, <1>3, <1>4, <1>7, <2>2
  <2>4. s + 1 \in p + 1 .. text /\ s + 1 \in p + 1 .. Len(l) + 1 /\ (s + 1) - 1 = s /\ s + 1 \in Nat /\ p < s + 1
    BY <1>2, <1>3, <2>1
  <2>5. s + 1 \in M!Params(l) /\ s + 1 <= text
    BY <1>3, <2>2, <2>4
  <2>6. ASSUME NEW j \in M!Params(l), j < s + 1 PROVE j <= p
    <3>1. j \in Nat /\ l[j - 1] = "space"
      BY ParamsAre
    <3>2. ~ (j - 1 \in p .. s - 1)
      BY <2>2, <3>1
    <3> QED BY <1>3, <2>6, <2>4, <3>1, <3>2
  <2>7. Listed(Append(a.argv, p), l, s + 1)
    <3>1. p \in 1 .. BUFLEN
      BY <1>3, <1>5
    <3> QED BY <1>1, <1>5, <2>4, <2>6, <3>1, ListedMore
  <2>8. Len(Append(a.argv, p)) = i + 1
    BY <1>1, <1>5
  <2>9. Searching(l, text, b, i + 1)
    BY <1>4, <2>2, <2>3, <2>5, <2>7, <2>8 DEF Searching
  <2> QED BY <2>9 DEF b
<1> QED BY <1>6, <1>7

\* The loop ends at the text, when INFO_MAXARG leaves it in reach (irc.c:280).
LEMMA ArgumentsFind ==
  ASSUME NEW l, Readable(l), NEW text \in M!TextAt(l), NEW mem, NEW p \in M!Params(l), p <= text,
         Before(l, p) = {}, CutBefore(mem, l, p), p \in 1 .. BUFLEN
  PROVE  TextFound(l, text, M!Arguments(mem, p))
<1> DEFINE W == INFO_MAXARG
<1>1. W \in Nat /\ mem \in Memory /\ p \in 0 .. BUFLEN
  BY InfoAssumption DEF CutBefore
<1>2. PICK f : Turns(mem, p, f)
  BY <1>1, TurnsAre
<1>3. /\ f[0] = [p |-> p, argv |-> <<>>, tail |-> 0, mem |-> mem] /\ M!Arguments(mem, p) = f[W]
      /\ \A i \in 1 .. W : f[i] = M!Argument(f[i - 1])
      /\ \A i \in 0 .. W : f[i] \in Gathered
  BY <1>2 DEF Turns
<1> DEFINE T == {i \in 0 .. W : TextFound(l, text, f[i]) \/ Searching(l, text, f[i], i)}
<1>4. 0 \in T
  <2>1. Cardinality(Before(l, p)) = 0
    BY FS_EmptySet
  <2>2. Listed(<<>>, l, p)
    BY <2>1 DEF Listed
  <2>3. 0 \in 0 .. W /\ Len(<<>>) = 0
    BY <1>1
  <2>4. f[0] \in Gathered
    BY <1>3, <2>3
  <2>5. /\ f[0].p = p /\ f[0].argv = <<>> /\ f[0].tail = 0 /\ f[0].mem = mem
    BY <1>3
  <2>6. Searching(l, text, f[0], 0)
    BY <2>2, <2>3, <2>4, <2>5 DEF Searching
  <2> QED BY <2>3, <2>6
<1>5. ASSUME NEW i \in 0 .. W - 1, i \in T PROVE i + 1 \in T
  <2>1. i + 1 \in 1 .. W /\ i + 1 \in 0 .. W /\ (i + 1) - 1 = i /\ i \in Nat /\ i \in 0 .. W
    BY <1>1
  <2>2. f[i + 1] = M!Argument(f[i]) /\ f[i] \in Gathered
    BY <1>3, <2>1
  <2>3. CASE TextFound(l, text, f[i])
    <3>1. f[i].p = 0
      BY <2>3 DEF TextFound
    <3>2. M!Argument(f[i]) = f[i]
      BY <2>2, <3>1, ArgumentIs
    <3> QED BY <2>1, <2>2, <2>3, <3>2
  <2>4. CASE Searching(l, text, f[i], i)
    <3>1. TextFound(l, text, M!Argument(f[i])) \/ Searching(l, text, M!Argument(f[i]), i + 1)
      BY <2>1, <2>4, TurnSearches
    <3> QED BY <2>1, <2>2, <3>1
  <2> QED BY <1>5, <2>3, <2>4
<1>6. W \in T
  <2> HIDE DEF T
  <2>1. 0 .. W \subseteq T
    BY <1>1, <1>4, <1>5, InductiveUpTo
  <2> QED BY <1>1, <2>1
<1>7. ~ Searching(l, text, f[W], W)
  <2> SUFFICES ASSUME Searching(l, text, f[W], W) PROVE FALSE
    OBVIOUS
  <2>1. f[W].p <= text /\ Listed(f[W].argv, l, f[W].p) /\ Len(f[W].argv) = W /\ f[W].p \in M!Params(l)
    BY DEF Searching
  <2> DEFINE q == f[W].p
  <2>2. Cardinality(Before(l, q)) = W
    BY <2>1 DEF Listed
  <2>3. Before(l, q) \subseteq Before(l, text)
    <3>1. text \in Nat /\ \A j \in M!Params(l) : j \in Nat
      BY TextIs, ParamsAre
    <3>2. q \in Nat /\ q <= text
      BY <2>1, <3>1
    <3> HIDE DEF q
    <3>3. \A j \in M!Params(l) : j < q => j < text
      BY <3>1, <3>2
    <3> QED BY <3>3 DEF Before
  <2>4. Cardinality(Before(l, q)) <= Cardinality(Before(l, text))
    BY <2>3, BeforeFinite, FS_Subset
  <2>5. Cardinality(Before(l, text)) < W /\ Cardinality(Before(l, text)) \in Nat
    BY TextIs, BeforeFinite
  <2> QED BY <1>1, <2>2, <2>4, <2>5
<1> QED BY <1>3, <1>6, <1>7

\* What a plugin is given, with any sender and command
InfoTyped(x) ==
  /\ x \in [sender : {x.sender}, cmd : {x.cmd}, argv : Seq(1 .. BUFLEN), tail : 0 .. BUFLEN]
  /\ Len(x.argv) \in 0 .. INFO_MAXARG

\* Where the arguments begin in a line that has a text: at the first parameter.
LEMMA FirstParam ==
  ASSUME NEW l, Readable(l), NEW text \in M!TextAt(l), NEW mem, CutBefore(mem, l, 1),
         NEW head, head = IF mem[1] = "colon" THEN M!CutAt(mem, 1) ELSE [mem |-> mem, next |-> 1]
  PROVE  /\ head.next \in 1 .. BUFLEN /\ head.mem \in Memory
         /\ LET c == M!CutAt(head.mem, head.next)
            IN  /\ c.next \in M!Params(l) /\ c.next <= text /\ c.next \in 1 .. BUFLEN
                /\ Before(l, c.next) = {} /\ CutBefore(c.mem, l, c.next)
<1> DEFINE c == M!CutAt(head.mem, head.next)
<1>1. /\ text \in M!Params(l) /\ text \in 2 .. Len(l) /\ Len(l) \in Nat /\ l[text - 1] = "space"
      /\ Len(l) < BUFLEN /\ BUFLEN \in Nat /\ 1 \in 1 .. Len(l) /\ mem[1] = l[1]
  <2>1. Len(l) \in 1 .. BUFLEN - 1 /\ BUFLEN \in Nat
    BY InfoAssumption DEF Readable
  <2>2. 1 \in 1 .. Len(l)
    BY <2>1
  <2> QED BY <2>1, <2>2, TextIs DEF CutBefore
<1>2. mem \in Memory
  BY DEF CutBefore
<1>3. CASE l[1] # "colon"
  <2>1. head = [mem |-> mem, next |-> 1]
    BY <1>1, <1>3
  <2>2. text - 1 \in 1 .. Len(l)
    BY <1>1
  <2>3. PICK s \in 1 .. text - 1 : /\ l[s] = "space" /\ \A j \in 1 .. s - 1 : l[j] # "space"
                                 /\ c.next = s + 1 /\ CutBefore(c.mem, l, s + 1)
    <3>1. head.next = 1 /\ head.mem = mem
      BY <2>1
    <3>2. \E s \in 1 .. text - 1 : /\ l[s] = "space" /\ \A j \in 1 .. s - 1 : l[j] # "space"
                                 /\ M!CutAt(mem, 1).next = s + 1 /\ CutBefore(M!CutAt(mem, 1).mem, l, s + 1)
      BY <1>1, <2>2, NextSpace
    <3> QED BY <3>1, <3>2
  <2> HIDE DEF c
  <2>4. s + 1 \in 2 .. Len(l) + 1 /\ (s + 1) - 1 = s /\ s + 1 <= text /\ s + 1 \in 1 .. BUFLEN
    BY <1>1
  <2>5. s + 1 \in M!Params(l)
    BY <1>3, <2>3, <2>4 DEF M!Params
  <2>6. ASSUME NEW i \in M!Params(l), i < s + 1 PROVE FALSE
    <3>1. i - 1 \in 1 .. s - 1 /\ l[i - 1] = "space"
      BY <1>1, <2>4, <2>6, ParamsAre
    <3> QED BY <2>3, <3>1
  <2>7. Before(l, c.next) = {}
    BY <2>3, <2>6 DEF Before
  <2>8. head.next \in 1 .. BUFLEN /\ head.mem \in Memory
    BY <1>1, <1>2, <2>1
  <2> QED BY <2>3, <2>4, <2>5, <2>7, <2>8 DEF c
<1>4. CASE l[1] = "colon"
  <2>1. head = M!CutAt(mem, 1)
    BY <1>1, <1>4
  <2>2. PICK k \in 1 .. text - 2 : l[k] = "space"
    BY <1>1, <1>4 DEF M!Params
  <2>3. k \in 1 .. Len(l) /\ k + 1 \in 1 .. text - 1
    BY <1>1
  <2>4. PICK r \in 1 .. k : /\ l[r] = "space" /\ \A j \in 1 .. r - 1 : l[j] # "space"
                            /\ head.next = r + 1 /\ CutBefore(head.mem, l, r + 1)
    <3>1. \E r \in 1 .. k : /\ l[r] = "space" /\ \A j \in 1 .. r - 1 : l[j] # "space"
                            /\ M!CutAt(mem, 1).next = r + 1 /\ CutBefore(M!CutAt(mem, 1).mem, l, r + 1)
      BY <1>1, <2>2, <2>3, NextSpace
    <3> QED BY <2>1, <3>1, Zenon
  <2>5. r + 1 \in 1 .. Len(l) /\ text - 1 \in r + 1 .. Len(l) /\ r \in Nat /\ r + 1 \in 1 .. BUFLEN
    BY <1>1, <2>3
  <2>6. PICK s \in r + 1 .. text - 1 : /\ l[s] = "space" /\ \A j \in r + 1 .. s - 1 : l[j] # "space"
                                     /\ c.next = s + 1 /\ CutBefore(c.mem, l, s + 1)
    <3> DEFINE p == r + 1
               m == head.mem
    <3>1. p \in 1 .. Len(l) /\ CutBefore(m, l, p) /\ text - 1 \in p .. Len(l)
      BY <2>4, <2>5
    <3> HIDE DEF p, m
    <3>2. \E s \in p .. text - 1 : /\ l[s] = "space" /\ \A j \in p .. s - 1 : l[j] # "space"
                                 /\ M!CutAt(m, p).next = s + 1 /\ CutBefore(M!CutAt(m, p).mem, l, s + 1)
      BY <1>1, <3>1, NextSpace
    <3> QED BY <2>4, <3>2 DEF p, m
  <2> HIDE DEF c
  <2>7. /\ s + 1 \in 2 .. Len(l) + 1 /\ (s + 1) - 1 = s /\ s + 1 <= text /\ s + 1 \in 1 .. BUFLEN /\ s \in Nat
        /\ r \in 1 .. (s + 1) - 2
    BY <1>1, <2>5
  <2>8. s + 1 \in M!Params(l)
    BY <2>4, <2>6, <2>7 DEF M!Params
  <2>9. ASSUME NEW i \in M!Params(l), i < s + 1 PROVE FALSE
    <3>1. i - 1 \in 1 .. s - 1 /\ l[i - 1] = "space" /\ i \in Nat
      BY <1>1, <2>7, <2>9, ParamsAre
    <3>2. PICK j \in 1 .. i - 2 : l[j] = "space"
      BY <1>4 DEF M!Params
    <3>3. ~ (i - 1 \in r + 1 .. s - 1) /\ ~ (j \in 1 .. r - 1)
      BY <2>4, <2>6, <3>1, <3>2
    <3>4. j \in 1 .. r - 1 \/ i - 1 \in r + 1 .. s - 1
      BY <2>5, <2>7, <3>1
    <3> QED BY <3>3, <3>4
  <2>10. Before(l, c.next) = {}
    BY <2>6, <2>9 DEF Before
  <2>11. head.next \in 1 .. BUFLEN /\ head.mem \in Memory
    BY <2>4, <2>5 DEF CutBefore
  <2> QED BY <2>6, <2>7, <2>8, <2>10, <2>11 DEF c
<1> QED BY <1>3, <1>4

\* irc_makeinfo finds the text, if there is one in reach, and the arguments in front of it; whatever the
\* line, what it leaves are pointers into the copy (irc.c:216).
LEMMA MakeInfoStep ==
  ASSUME NEW l, Readable(l), NEW mem, CutBefore(mem, l, 1), InfoTyped(info), M!MakeInfo(mem)
  PROVE  /\ copy' \in Memory /\ InfoTyped(info')
         /\ \A text \in M!TextAt(l) :
              CutBefore(copy', l, text) /\ Listed(info'.argv, l, text) /\ info'.tail = text + 1
<1> DEFINE head == IF mem[1] = "colon" THEN M!CutAt(mem, 1) ELSE [mem |-> mem, next |-> 1]
           sender == IF mem[1] = "colon" THEN M!String(head.mem, 2) ELSE info.sender
           c == M!CutAt(head.mem, head.next)
           args == M!Arguments(c.mem, c.next)
<1>1. /\ head.next = 0 =>
           /\ copy' = head.mem
           /\ info' = [info EXCEPT !.sender = sender, !.cmd = <<>>]
      /\ head.next # 0 =>
           /\ copy' = args.mem
           /\ info' = [sender |-> sender, cmd |-> M!String(c.mem, head.next), argv |-> args.argv,
                       tail |-> IF args.tail = 0 THEN info.tail ELSE args.tail]
  BY DEF M!MakeInfo
<1>2. /\ info \in [sender : {info.sender}, cmd : {info.cmd}, argv : Seq(1 .. BUFLEN), tail : 0 .. BUFLEN]
      /\ Len(info.argv) \in 0 .. INFO_MAXARG
  BY DEF InfoTyped
<1>3. head.next \in 0 .. BUFLEN /\ head.mem \in Memory
  <2>1. mem \in Memory /\ 1 \in 1 .. BUFLEN
    BY InfoAssumption DEF CutBefore
  <2>2. CASE mem[1] = "colon"
    BY <2>1, <2>2, CutIs
  <2>3. CASE mem[1] # "colon"
    <3>1. head = [mem |-> mem, next |-> 1]
      BY <2>3
    <3> HIDE DEF head
    <3> QED BY <2>1, <3>1
  <2> QED BY <2>2, <2>3
<1>4. ASSUME NEW text \in M!TextAt(l)
      PROVE  /\ head.next \in 1 .. BUFLEN /\ TextFound(l, text, args)
  <2>0. head = IF mem[1] = "colon" THEN M!CutAt(mem, 1) ELSE [mem |-> mem, next |-> 1]
    OBVIOUS
  <2> HIDE DEF head
  <2>1. /\ head.next \in 1 .. BUFLEN
        /\ c.next \in M!Params(l) /\ c.next <= text /\ c.next \in 1 .. BUFLEN
        /\ Before(l, c.next) = {} /\ CutBefore(c.mem, l, c.next)
    BY <2>0, FirstParam
  <2> DEFINE m == c.mem
             p == c.next
  <2>2. p \in M!Params(l) /\ p <= text /\ p \in 1 .. BUFLEN /\ Before(l, p) = {} /\ CutBefore(m, l, p)
    BY <2>1
  <2> HIDE DEF m, p, c
  <2>3. TextFound(l, text, M!Arguments(m, p))
    BY <2>2, ArgumentsFind
  <2> QED BY <2>1, <2>3 DEF m, p
<1>5. CASE head.next = 0
  <2>1. copy' = head.mem /\ info' = [info EXCEPT !.sender = sender, !.cmd = <<>>]
    BY <1>1, <1>5
  <2> HIDE DEF sender, head
  <2>2. info'.argv = info.argv /\ info'.tail = info.tail /\ InfoTyped(info')
    BY <1>2, <2>1 DEF InfoTyped
  <2>3. M!TextAt(l) = {}
    BY <1>4, <1>5 
  <2> QED BY <1>3, <2>1, <2>2, <2>3
<1>6. CASE head.next # 0
  <2>1. /\ copy' = args.mem
        /\ info' = [sender |-> sender, cmd |-> M!String(c.mem, head.next), argv |-> args.argv,
                    tail |-> IF args.tail = 0 THEN info.tail ELSE args.tail]
    BY <1>1, <1>6
  <2>2. head.next \in 1 .. BUFLEN
    BY <1>3, <1>6
  <2> HIDE DEF head
  <2>3. c.mem \in Memory /\ c.next \in 0 .. BUFLEN
    BY <1>3, <2>2, CutIs
  <2> HIDE DEF c
  <2>4. args \in Gathered /\ Len(args.argv) \in 0 .. INFO_MAXARG
    <3> DEFINE m == c.mem
               p == c.next
    <3>1. m \in Memory /\ p \in 0 .. BUFLEN
      BY <2>3
    <3> HIDE DEF m, p
    <3>2. PICK f : Turns(m, p, f)
      BY <3>1, TurnsAre
    <3>3. INFO_MAXARG \in 0 .. INFO_MAXARG
      BY InfoAssumption
    <3> QED BY <3>2, <3>3 DEF Turns, m, p
  <2> HIDE DEF args, sender
  <2>5. args.mem \in Memory /\ args.argv \in Seq(1 .. BUFLEN) /\ args.tail \in 0 .. BUFLEN
    BY <2>4 DEF Gathered
  <2>6. info'.argv = args.argv /\ info'.tail = IF args.tail = 0 THEN info.tail ELSE args.tail
    BY <2>1
  <2>7. InfoTyped(info')
    BY <1>2, <2>1, <2>4, <2>5 DEF InfoTyped
  <2>8. ASSUME NEW text \in M!TextAt(l)
        PROVE  CutBefore(copy', l, text) /\ Listed(info'.argv, l, text) /\ info'.tail = text + 1
    <3>1. args.tail = text + 1 /\ Listed(args.argv, l, text) /\ CutBefore(args.mem, l, text)
      BY <1>4 DEF TextFound
    <3>2. text + 1 # 0
      BY TextIs
    <3> QED BY <2>1, <2>6, <3>1, <3>2
  <2> QED BY <2>1, <2>5, <2>7, <2>8
<1> QED BY <1>5, <1>6

\* The text of the module is put together as that of ListProofs.
LEMMA InfoFlatten == \A s : M!FlattenSeq(s) = FlattenSeq(s)
BY DEF M!FlattenSeq, FlattenSeq

\* Three sequences one behind the other
Three(S, s, t, u) == s \in Seq(S) /\ t \in Seq(S) /\ u \in Seq(S)

\* It does not matter which two are put together first.
LEMMA Associates ==
  ASSUME NEW S, NEW s, NEW t, NEW u, Three(S, s, t, u)
  PROVE  (s \o t) \o u = s \o (t \o u)
BY ConcatAssociative DEF Three

\* One list of lists behind another
LEMMA FlattenConcat ==
  ASSUME NEW A, NEW s \in Seq(Seq(A)), NEW t \in Seq(Seq(A))
  PROVE  FlattenSeq(s \o t) = FlattenSeq(s) \o FlattenSeq(t)
<1> DEFINE W == Len(t)
           u(k) == SubSeq(t, 1, k)
           T == {k \in 0 .. W : FlattenSeq(s \o u(k)) = FlattenSeq(s) \o FlattenSeq(u(k))}
<1>1. W \in Nat /\ \A i \in 1 .. W : t[i] \in Seq(A)
  BY ElementOfSeq, LenProperties
<1>2. ASSUME NEW k \in 0 .. W
      PROVE  u(k) \in Seq(Seq(A)) /\ Len(u(k)) = k /\ \A i \in 1 .. k : u(k)[i] = t[i]
  <2>1. 1 \in Int /\ k \in Int /\ \A i \in 1 .. k : t[i] \in Seq(A)
    BY <1>1
  <2>2. /\ u(k) \in Seq(Seq(A)) /\ Len(u(k)) = IF 1 <= k THEN k - 1 + 1 ELSE 0
        /\ \A i \in 1 .. k - 1 + 1 : u(k)[i] = t[1 + i - 1]
    BY <2>1, SubSeqProperties
  <2> HIDE DEF u
  <2> QED BY <1>1, <2>2
<1> HIDE DEF u
<1>3. 0 \in T
  <2>1. 0 \in 0 .. W
    BY <1>1
  <2>2. u(0) = <<>> /\ FlattenSeq(<<>>) = <<>> /\ FlattenSeq(s) \in Seq(A)
    <3>1. u(0) \in Seq(Seq(A)) /\ Len(u(0)) = 0
      BY <1>2, <2>1
    <3>2. FlattenSeq(u(0)) = <<>>
      BY <3>1, FlattenedIs
    <3>3. u(0) = <<>>
      BY <3>1, EmptySeq
    <3> QED BY <3>2, <3>3, FlattenType
  <2>3. s \o u(0) = s /\ FlattenSeq(s) \o FlattenSeq(u(0)) = FlattenSeq(s)
    BY <2>2, ConcatEmptySeq
  <2> QED BY <2>1, <2>3
<1>4. ASSUME NEW k \in 0 .. W - 1, k \in T PROVE k + 1 \in T
  <2> DEFINE a == u(k)
             b == u(k + 1)
             e == t[k + 1]
  <2>1. k \in 0 .. W /\ k + 1 \in 0 .. W /\ k + 1 \in 1 .. W /\ k \in Nat
    BY <1>1
  <2>2. /\ a \in Seq(Seq(A)) /\ Len(a) = k /\ (\A i \in 1 .. k : a[i] = t[i]) /\ e \in Seq(A)
        /\ b \in Seq(Seq(A)) /\ Len(b) = k + 1 /\ \A i \in 1 .. k + 1 : b[i] = t[i]
    BY <1>1, <1>2, <2>1
  <2>3. b = Append(a, e)
    <3> HIDE DEF a, b
    <3> DEFINE d == Append(a, e)
    <3>1. /\ d \in Seq(Seq(A)) /\ Len(d) = k + 1
          /\ \A i \in 1 .. k + 1 : d[i] = IF i <= k THEN a[i] ELSE e
      <4>1. /\ d \in Seq(Seq(A)) /\ Len(d) = Len(a) + 1
            /\ (\A i \in 1 .. Len(a) : d[i] = a[i]) /\ d[Len(a) + 1] = e
        BY <2>2, AppendProperties
      <4> HIDE DEF d, e
      <4> QED BY <2>1, <2>2, <4>1
    <3> HIDE DEF d, e
    <3>2. ASSUME NEW i \in 1 .. k + 1 PROVE d[i] = b[i]
      <4>1. i \in 1 .. k \/ (i = k + 1 /\ ~ (k + 1 <= k))
        BY <2>1
      <4>2. e = t[k + 1]
        BY DEF e
      <4>3. CASE i \in 1 .. k
        <5>1. i <= k /\ i \in 1 .. k + 1
          BY <2>1, <4>3
        <5>2. a[i] = t[i] /\ b[i] = t[i]
          BY <2>2, <4>3, <5>1, Zenon
        <5>3. d[i] = IF i <= k THEN a[i] ELSE e
          BY <3>1, <5>1, Zenon
        <5> QED BY <5>1, <5>2, <5>3, Zenon
      <4>4. CASE i = k + 1 /\ ~ (k + 1 <= k)
        BY <2>1, <2>2, <3>1, <4>2, <4>4
      <4> QED BY <4>1, <4>3, <4>4
    <3>3. d = b
      BY <2>2, <3>1, <3>2, SeqEqual, SMTT(30)
    <3> QED BY <3>3 DEF d
  <2>4. FlattenSeq(s \o a) = FlattenSeq(s) \o FlattenSeq(a)
    BY <1>4
  <2> HIDE DEF a, b, e, T
  <2>5. s \o b = Append(s \o a, e) /\ s \o a \in Seq(Seq(A))
    <3> DEFINE S == Seq(A)
    <3>1. s \in Seq(S) /\ a \in Seq(S) /\ e \in S
      BY <2>2
    <3> HIDE DEF S
    <3>2. s \o a \in Seq(S)
      BY <3>1, ConcatProperties
    <3> DEFINE one == <<e>>
    <3>3. Append(a, e) = a \o one /\ Append(s \o a, e) = (s \o a) \o one /\ one \in Seq(S)
      BY <3>1, <3>2, AppendIsConcat
    <3> HIDE DEF one
    <3>4. (s \o a) \o one = s \o (a \o one)
      <4>1. Three(S, s, a, one)
        BY <3>1, <3>3 DEF Three
      <4> QED BY ONLY <4>1, Associates
    <3>5. s \o b = Append(s \o a, e)
      BY ONLY <2>3, <3>3, <3>4, Zenon
    <3> QED BY <3>2, <3>5 DEF S
  <2>6. FlattenSeq(s \o b) = FlattenSeq(s \o a) \o e /\ FlattenSeq(b) = FlattenSeq(a) \o e
    BY <2>2, <2>3, <2>5, FlattenAppend
  <2>7. FlattenSeq(s) \in Seq(A) /\ FlattenSeq(a) \in Seq(A)
    BY <2>2, FlattenType
  <2>8. (FlattenSeq(s) \o FlattenSeq(a)) \o e = FlattenSeq(s) \o (FlattenSeq(a) \o e)
    <3> DEFINE x == FlattenSeq(s)
               y == FlattenSeq(a)
    <3>1. x \in Seq(A) /\ y \in Seq(A) /\ e \in Seq(A)
      BY <2>2, <2>7
    <3> HIDE DEF x, y
    <3>2. (x \o y) \o e = x \o (y \o e)
      <4>1. Three(A, x, y, e)
        BY <3>1 DEF Three
      <4> QED BY ONLY <4>1, Associates, SMTT(30)
    <3> QED BY <3>2 DEF x, y
  <2>9. FlattenSeq(s \o b) = FlattenSeq(s) \o FlattenSeq(b)
    BY ONLY <2>4, <2>6, <2>8, Zenon
  <2> QED BY <2>1, <2>9 DEF b, T
<1> HIDE DEF T
<1>5. 0 .. W \subseteq T
  BY <1>1, <1>3, <1>4, InductiveUpTo
<1>6. W \in T
  BY <1>1, <1>5
<1>7. FlattenSeq(s \o u(W)) = FlattenSeq(s) \o FlattenSeq(u(W))
  BY <1>6 DEF T
<1>8. u(W) = t
  <2>1. W \in 0 .. W
    BY <1>1
  <2>2. u(W) \in Seq(Seq(A)) /\ Len(u(W)) = W /\ \A i \in 1 .. W : u(W)[i] = t[i]
    BY <1>2, <2>1
  <2> QED BY <2>2, SeqEqual
<1> QED BY <1>7, <1>8

\* What is left of cells without the spaces is put together from what is left of their parts.
LEMMA SolidConcat ==
  ASSUME NEW a \in Seq(Cells), NEW b \in Seq(Cells)
  PROVE  /\ M!Solid(a) \in Seq(Cells) /\ M!Solid(b) \in Seq(Cells)
         /\ M!Solid(a \o b) = M!Solid(a) \o M!Solid(b)
<1> DEFINE Bit(c) == IF c = "space" THEN <<>> ELSE <<c>>
           Bits(s) == [i \in 1 .. Len(s) |-> Bit(s[i])]
<1>1. \A c \in Cells : Bit(c) \in Seq(Cells)
  OBVIOUS
<1>2. ASSUME NEW s \in Seq(Cells)
      PROVE  /\ Bits(s) \in Seq(Seq(Cells)) /\ Len(Bits(s)) = Len(s) /\ Len(s) \in Nat
             /\ \A i \in 1 .. Len(s) : Bits(s)[i] = Bit(s[i])
             /\ M!Solid(s) = FlattenSeq(Bits(s)) /\ M!Solid(s) \in Seq(Cells)
  <2>1. Len(s) \in Nat /\ DOMAIN s = 1 .. Len(s) /\ \A i \in 1 .. Len(s) : s[i] \in Cells
    BY ElementOfSeq, LenProperties
  <2>2. M!Solid(s) = FlattenSeq(Bits(s))
    <3>1. M!Solid(s) = M!FlattenSeq([i \in DOMAIN s |-> Bit(s[i])])
      BY DEF M!Solid
    <3>2. [i \in DOMAIN s |-> Bit(s[i])] = Bits(s)
      BY <2>1
    <3> QED BY <3>1, <3>2, InfoFlatten, Zenon
  <2> DEFINE z == Bits(s)
  <2>3. z = [i \in 1 .. Len(s) |-> Bit(s[i])]
    OBVIOUS
  <2> HIDE DEF Bit, z
  <2>4. z \in [1 .. Len(s) -> Seq(Cells)] /\ \A i \in 1 .. Len(s) : z[i] = Bit(s[i])
    BY <1>1, <2>1, <2>3
  <2>5. z \in Seq(Seq(Cells)) /\ Len(z) = Len(s)
    <3> DEFINE S == Seq(Cells)
               n == Len(s)
    <3>1. z \in [1 .. n -> S] /\ n \in Nat
      BY <2>1, <2>4
    <3> HIDE DEF S, n
    <3>2. z \in Seq(S) /\ Len(z) = n
      BY ONLY <3>1
    <3> QED BY <3>2 DEF S, n
  <2>6. FlattenSeq(z) \in Seq(Cells)
    BY <2>5, FlattenType
  <2> QED BY <2>1, <2>2, <2>4, <2>5, <2>6 DEF z
<1> HIDE DEF Bits, Bit
<1>3. /\ a \o b \in Seq(Cells) /\ Len(a \o b) = Len(a) + Len(b)
      /\ \A i \in 1 .. Len(a) + Len(b) : (a \o b)[i] = IF i <= Len(a) THEN a[i] ELSE b[i - Len(a)]
  BY ConcatProperties
<1>4. Bits(a \o b) = Bits(a) \o Bits(b)
  <2> DEFINE x == Bits(a)
             y == Bits(b)
             z == Bits(a \o b)
             K == Len(a)
             W == Len(b)
             S == Seq(Cells)
  <2>1. /\ x \in Seq(S) /\ y \in Seq(S) /\ z \in Seq(S) /\ Len(x) = K /\ Len(y) = W /\ Len(z) = K + W
        /\ K \in Nat /\ W \in Nat
        /\ \A i \in 1 .. K : x[i] = Bit(a[i])
        /\ \A i \in 1 .. W : y[i] = Bit(b[i])
        /\ \A i \in 1 .. K + W : z[i] = Bit((a \o b)[i])
    BY <1>2, <1>3
  <2> HIDE DEF x, y, z, S
  <2>2. /\ x \o y \in Seq(S) /\ Len(x \o y) = K + W
        /\ \A i \in 1 .. K + W : (x \o y)[i] = IF i <= K THEN x[i] ELSE y[i - K]
    <3> HIDE DEF K, W
    <3>1. /\ x \o y \in Seq(S) /\ Len(x \o y) = Len(x) + Len(y)
          /\ \A i \in 1 .. Len(x) + Len(y) : (x \o y)[i] = IF i <= Len(x) THEN x[i] ELSE y[i - Len(x)]
      BY ONLY <2>1, ConcatProperties
    <3>2. Len(x) = K /\ Len(y) = W
      BY <2>1
    <3> QED BY ONLY <3>1, <3>2
  <2>3. ASSUME NEW i \in 1 .. K + W PROVE z[i] = (x \o y)[i]
    <3>1. CASE i <= K
      <4>1. i \in 1 .. K /\ (a \o b)[i] = a[i]
        BY <1>3, <2>1, <3>1
      <4> QED BY <2>1, <2>2, <3>1, <4>1
    <3>2. CASE ~ (i <= K)
      <4>1. i - K \in 1 .. W /\ (a \o b)[i] = b[i - K]
        BY <1>3, <2>1, <3>2
      <4>2. (x \o y)[i] = y[i - K]
        BY <2>2, <3>2
      <4> QED BY <2>1, <4>1, <4>2
    <3> QED BY <3>1, <3>2
  <2>4. z = x \o y
    BY <2>1, <2>2, <2>3, SeqEqual
  <2> QED BY <2>4 DEF x, y, z
<1>5. FlattenSeq(Bits(a) \o Bits(b)) = FlattenSeq(Bits(a)) \o FlattenSeq(Bits(b))
  BY <1>2, FlattenConcat
<1> QED BY <1>2, <1>3, <1>4, <1>5

\* What is left of a line from t on, without the spaces
Rest(l, t) == M!Solid(SubSeq(l, t, Len(l)))

\* It is what is left up to q and what is left from there.
LEMMA RestSplits ==
  ASSUME NEW l \in Seq(Cells), NEW t \in 1 .. Len(l) + 1, NEW q \in t .. Len(l) + 1
  PROVE  /\ Rest(l, t) \in Seq(Cells) /\ Rest(l, q) \in Seq(Cells) /\ M!Solid(SubSeq(l, t, q - 1)) \in Seq(Cells)
         /\ Rest(l, t) = M!Solid(SubSeq(l, t, q - 1)) \o Rest(l, q)
<1> DEFINE W == Len(l)
           a == SubSeq(l, t, q - 1)
           b == SubSeq(l, q, W)
           c == SubSeq(l, t, W)
<1>1. W \in Nat /\ t \in Nat /\ q \in Nat /\ t \in 1 .. q /\ q <= W + 1 /\ \A i \in 1 .. W : l[i] \in Cells
  BY ElementOfSeq, LenProperties
<1>2. /\ a \in Seq(Cells) /\ Len(a) = q - t /\ \A i \in 1 .. q - t : a[i] = l[t + i - 1]
  <2>1. t \in Int /\ q - 1 \in Int /\ \A i \in t .. q - 1 : l[i] \in Cells
    BY <1>1
  <2>2. /\ a \in Seq(Cells) /\ Len(a) = IF t <= q - 1 THEN (q - 1) - t + 1 ELSE 0
        /\ \A i \in 1 .. (q - 1) - t + 1 : a[i] = l[t + i - 1]
    BY <2>1, SubSeqProperties
  <2> HIDE DEF a
  <2> QED BY <1>1, <2>2
<1>3. /\ b \in Seq(Cells) /\ Len(b) = (W + 1) - q /\ \A i \in 1 .. (W + 1) - q : b[i] = l[q + i - 1]
  <2>1. q \in Int /\ W \in Int /\ \A i \in q .. W : l[i] \in Cells
    BY <1>1
  <2>2. /\ b \in Seq(Cells) /\ Len(b) = IF q <= W THEN W - q + 1 ELSE 0
        /\ \A i \in 1 .. W - q + 1 : b[i] = l[q + i - 1]
    BY <2>1, SubSeqProperties
  <2> HIDE DEF b, W
  <2> QED BY <1>1, <2>2
<1>4. /\ c \in Seq(Cells) /\ Len(c) = (W + 1) - t /\ \A i \in 1 .. (W + 1) - t : c[i] = l[t + i - 1]
  <2>1. t \in Int /\ W \in Int /\ \A i \in t .. W : l[i] \in Cells
    BY <1>1
  <2>2. /\ c \in Seq(Cells) /\ Len(c) = IF t <= W THEN W - t + 1 ELSE 0
        /\ \A i \in 1 .. W - t + 1 : c[i] = l[t + i - 1]
    BY <2>1, SubSeqProperties
  <2> HIDE DEF c, W
  <2> QED BY <1>1, <2>2
<1> HIDE DEF a, b, c, W
<1>5. /\ a \o b \in Seq(Cells) /\ Len(a \o b) = Len(a) + Len(b)
      /\ \A i \in 1 .. Len(a) + Len(b) : (a \o b)[i] = IF i <= Len(a) THEN a[i] ELSE b[i - Len(a)]
  BY <1>2, <1>3, ConcatProperties
<1>6. Len(a \o b) = (W + 1) - t /\ Len(a) + Len(b) = (W + 1) - t
  BY <1>1, <1>2, <1>3, <1>5
<1>7. ASSUME NEW i \in 1 .. (W + 1) - t PROVE c[i] = (a \o b)[i]
  <2>1. c[i] = l[t + i - 1] /\ (a \o b)[i] = IF i <= q - t THEN a[i] ELSE b[i - (q - t)]
    BY <1>2, <1>4, <1>5, <1>6
  <2>2. CASE i <= q - t
    <3>1. i \in 1 .. q - t
      BY <1>1, <2>2
    <3> QED BY <1>2, <2>1, <2>2, <3>1
  <2>3. CASE ~ (i <= q - t)
    <3>1. i - (q - t) \in 1 .. (W + 1) - q /\ q + (i - (q - t)) - 1 = t + i - 1
      BY <1>1, <2>3
    <3> QED BY <1>3, <2>1, <2>3, <3>1
  <2> QED BY <2>2, <2>3
<1>8. c = a \o b
  BY <1>4, <1>5, <1>6, <1>7, SeqEqual
<1>9. /\ M!Solid(a) \in Seq(Cells) /\ M!Solid(b) \in Seq(Cells) /\ M!Solid(a \o b) = M!Solid(a) \o M!Solid(b)
      /\ M!Solid(c) \in Seq(Cells)
  BY <1>2, <1>3, <1>4, SolidConcat
<1>10. Rest(l, t) = M!Solid(c) /\ Rest(l, q) = M!Solid(b)
  BY DEF Rest, b, c, W
<1> QED BY <1>8, <1>9, <1>10 DEF a

\* What is left of one cell, and of none
LEMMA SolidOne ==
  ASSUME NEW x \in Cells
  PROVE  M!Solid(<<x>>) = (IF x = "space" THEN <<>> ELSE <<x>>) /\ M!Solid(<<>>) = <<>>
<1> DEFINE bit == IF x = "space" THEN <<>> ELSE <<x>>
<1>1. bit \in Seq(Cells)
  OBVIOUS
<1>2. M!Solid(<<x>>) = FlattenSeq(<<bit>>)
  <2>1. [i \in DOMAIN <<x>> |-> IF <<x>>[i] = "space" THEN <<>> ELSE <<<<x>>[i]>>] = <<bit>>
    OBVIOUS
  <2>2. M!Solid(<<x>>) = M!FlattenSeq(<<bit>>)
    BY <2>1 DEF M!Solid
  <2> QED BY <2>2, InfoFlatten, Zenon
<1>3. M!Solid(<<>>) = FlattenSeq(<<>>)
  <2>1. [i \in DOMAIN <<>> |-> IF <<>>[i] = "space" THEN <<>> ELSE <<<<>>[i]>>] = <<>>
    OBVIOUS
  <2>2. M!Solid(<<>>) = M!FlattenSeq(<<>>)
    BY <2>1 DEF M!Solid
  <2> QED BY <2>2, InfoFlatten, Zenon
<1> HIDE DEF bit
<1>4. FlattenSeq(<<>>) = <<>>
  <2>1. <<>> \in Seq(Seq(Cells)) /\ Len(<<>>) = 0
    OBVIOUS
  <2> QED BY <2>1, FlattenedIs
<1>5. FlattenSeq(<<bit>>) = bit
  <2>1. <<>> \in Seq(Seq(Cells)) /\ <<bit>> = Append(<<>>, bit)
    OBVIOUS
  <2>2. FlattenSeq(<<bit>>) = FlattenSeq(<<>>) \o bit
    BY <1>1, <2>1, FlattenAppend
  <2>3. <<>> \o bit = bit
    BY <1>1, ConcatEmptySeq
  <2> QED BY <1>4, <2>2, <2>3
<1> QED BY <1>2, <1>3, <1>4, <1>5 DEF bit

\* A cell in front of the rest
LEMMA RestNext ==
  ASSUME NEW l \in Seq(Cells), NEW t \in 1 .. Len(l)
  PROVE  /\ Rest(l, t + 1) \in Seq(Cells) /\ Rest(l, Len(l) + 1) = <<>>
         /\ l[t] = "space" => Rest(l, t) = Rest(l, t + 1)
         /\ l[t] # "space" => Rest(l, t) = <<l[t]>> \o Rest(l, t + 1)
<1>1. Len(l) \in Nat /\ l[t] \in Cells /\ t \in 1 .. Len(l) + 1 /\ t + 1 \in t .. Len(l) + 1 /\ (t + 1) - 1 = t
  BY ElementOfSeq, LenProperties
<1>2. Rest(l, t + 1) \in Seq(Cells) /\ Rest(l, t) = M!Solid(SubSeq(l, t, t)) \o Rest(l, t + 1)
  BY <1>1, RestSplits
<1>3. SubSeq(l, t, t) = <<l[t]>> /\ SubSeq(l, Len(l) + 1, Len(l)) = <<>>
  <2>1. t \in Int /\ \A i \in t .. t : l[i] \in Cells
    BY <1>1
  <2> DEFINE one == SubSeq(l, t, t)
             x == l[t]
  <2>2. one \in Seq(Cells) /\ Len(one) = (IF t <= t THEN t - t + 1 ELSE 0) /\ \A i \in 1 .. t - t + 1 : one[i] = l[t + i - 1]
    BY <2>1, SubSeqProperties
  <2>3. t + 1 - 1 = t /\ t - t + 1 = 1 /\ t <= t
    BY <1>1
  <2>4. one \in Seq(Cells) /\ Len(one) = 1 /\ one[1] = x
    <3> HIDE DEF one
    <3> QED BY <2>2, <2>3
  <2> HIDE DEF one, x
  <2>5. one = <<x>>
    BY <2>4
  <2>6. Len(l) + 1 \in Int /\ Len(l) \in Int /\ Len(l) < Len(l) + 1
    BY <1>1
  <2>7. SubSeq(l, Len(l) + 1, Len(l)) = <<>>
    BY <2>6, SubSeqEmpty
  <2> QED BY <2>5, <2>7 DEF one, x
<1>4. M!Solid(<<l[t]>>) = (IF l[t] = "space" THEN <<>> ELSE <<l[t]>>) /\ M!Solid(<<>>) = <<>>
  BY <1>1, SolidOne
<1>5. <<>> \o Rest(l, t + 1) = Rest(l, t + 1)
  BY <1>2, ConcatEmptySeq
<1>6. Rest(l, Len(l) + 1) = <<>>
  BY <1>3, <1>4 DEF Rest
<1> QED BY <1>2, <1>3, <1>4, <1>5, <1>6

\* Spaces in front of it do not count.
LEMMA RestSkips ==
  ASSUME NEW l \in Seq(Cells), NEW t \in 1 .. Len(l) + 1, NEW q \in t .. Len(l) + 1,
         \A j \in t .. q - 1 : l[j] = "space"
  PROVE  Rest(l, t) = Rest(l, q)
<1> DEFINE W == q - t
           T == {k \in 0 .. W : Rest(l, t) = Rest(l, t + k)}
<1>1. Len(l) \in Nat /\ W \in Nat /\ t \in Nat /\ q \in Nat /\ q <= Len(l) + 1 /\ 1 <= t
  BY LenProperties
<1>2. 0 \in T
  BY <1>1
<1>3. ASSUME NEW k \in 0 .. W - 1, k \in T PROVE k + 1 \in T
  <2> DEFINE x == t + k
  <2>1. x \in t .. q - 1 /\ x \in 1 .. Len(l) /\ k + 1 \in 0 .. W /\ x + 1 = t + (k + 1)
    BY <1>1
  <2>2. Rest(l, x) = Rest(l, x + 1)
    <3> HIDE DEF x
    <3> QED BY <2>1, RestNext
  <2>3. Rest(l, t) = Rest(l, x)
    BY <1>3
  <2> QED BY <2>1, <2>2, <2>3
<1> HIDE DEF T
<1>4. 0 .. W \subseteq T
  BY <1>1, <1>2, <1>3, InductiveUpTo
<1>5. W \in T
  BY <1>1, <1>4
<1>6. Rest(l, t) = Rest(l, t + W)
  BY <1>5 DEF T
<1>7. t + W = q
  BY <1>1
<1> QED BY <1>6, <1>7

\* In front of the text the copy is cut at the spaces.
FrontCut(mem, l, text) == \A i \in 1 .. text - 1 : mem[i] = IF l[i] = "space" THEN "nul" ELSE l[i]

\* What the plugin got of the text and what it has in front of it
Left(mem, l, text, tail, got) ==
  /\ got \in Seq(Cells)
  /\ \/ tail = 0 /\ got = Rest(l, text + 1)
     \/ /\ tail \in text + 1 .. Len(l) + 1 /\ mem[Len(l) + 1] = "nul" /\ \A i \in tail .. Len(l) : mem[i] = l[i]
        /\ got \o Rest(l, tail) = Rest(l, text + 1)

\* The plugin has the arguments of the line, and its text.
Given(l, text) ==
  FrontCut(copy, l, text) /\ Listed(info.argv, l, text) /\ Left(copy, l, text, info.tail, taken)

InfoInv ==
  /\ buf \in Memory /\ copy \in Memory /\ InfoTyped(info)
  /\ line = <<>> \/ (Readable(line) /\ CutBefore(buf, line, 1))
  /\ line # <<>> => \A text \in M!TextAt(line) : Given(line, text)

\* A plugin is called with a copy that irc_makeinfo has cut, and has taken nothing (irc.c:403).
LEMMA CalledWith ==
  ASSUME NEW l, Readable(l), NEW mem, CutBefore(mem, l, 1), InfoTyped(info), M!MakeInfo(mem), taken' = <<>>
  PROVE  /\ copy' \in Memory /\ InfoTyped(info')
         /\ \A text \in M!TextAt(l) :
              /\ FrontCut(copy', l, text) /\ Listed(info'.argv, l, text) /\ Left(copy', l, text, info'.tail, taken')
<1>1. /\ copy' \in Memory /\ InfoTyped(info')
      /\ \A text \in M!TextAt(l) :
           CutBefore(copy', l, text) /\ Listed(info'.argv, l, text) /\ info'.tail = text + 1
  BY MakeInfoStep
<1>2. ASSUME NEW text \in M!TextAt(l)
      PROVE  FrontCut(copy', l, text) /\ Listed(info'.argv, l, text) /\ Left(copy', l, text, info'.tail, taken')
  <2>1. CutBefore(copy', l, text) /\ Listed(info'.argv, l, text) /\ info'.tail = text + 1
    BY <1>1
  <2>2. /\ copy'[Len(l) + 1] = "nul" /\ FrontCut(copy', l, text) /\ \A i \in text .. Len(l) : copy'[i] = l[i]
    BY <2>1 DEF CutBefore, FrontCut
  <2>3. text \in 2 .. Len(l) /\ Len(l) \in Nat /\ l \in Seq(Cells)
    BY TextIs DEF Readable
  <2>4. text + 1 \in 1 .. Len(l) + 1 /\ text + 1 \in text + 1 .. Len(l) + 1 /\ \A i \in text + 1 .. Len(l) : i \in text .. Len(l)
    BY <2>3
  <2>5. Rest(l, text + 1) \in Seq(Cells)
    BY <2>3, <2>4, RestSplits
  <2>6. <<>> \o Rest(l, text + 1) = Rest(l, text + 1) /\ <<>> \in Seq(Cells)
    BY <2>5, ConcatEmptySeq, EmptySeq
  <2>7. Left(copy', l, text, info'.tail, taken')
    BY <2>1, <2>2, <2>4, <2>6 DEF Left
  <2> QED BY <2>1, <2>2, <2>7
<1> QED BY <1>1, <1>2

\* A line of the server is one.
LEMMA LinesAre == \A l \in ServerLine : Readable(l) /\ l # <<>>
<1> SUFFICES ASSUME NEW l \in ServerLine PROVE Readable(l) /\ l # <<>>
  OBVIOUS
<1>1. l \in Seq(Token \cup {"space", "colon"}) /\ Len(l) \in 1 .. BUFLEN - 1
  BY InfoAssumption
<1>2. \A i \in 1 .. Len(l) : l[i] \in Token \cup {"space", "colon"} /\ l[i] # "nul"
  <2>1. \A i \in 1 .. Len(l) : l[i] \in Token \cup {"space", "colon"}
    BY <1>1, ElementOfSeq
  <2>2. "nul" \notin Token
    BY InfoAssumption
  <2> QED BY <2>1, <2>2
<1>3. l \in Seq(Cells)
  <2> DEFINE S == Token \cup {"space", "colon"}
  <2>1. l \in Seq(S) /\ S \subseteq Cells
    BY <1>1 DEF Cells
  <2> HIDE DEF S
  <2> QED BY <2>1
<1> QED BY <1>1, <1>2, <1>3 DEF Readable

\* A line arrives (irc.c:398).
LEMMA ReceiveStep ==
  ASSUME InfoInv, NEW l \in ServerLine, M!Receive(l)
  PROVE  InfoInv'
<1>1. /\ line' = l /\ buf' = l \o <<"nul">> \o SubSeq(buf, Len(l) + 2, BUFLEN) /\ taken' = <<>>
      /\ M!MakeInfo(buf')
  BY DEF M!Receive
<1>2. Readable(l) /\ l # <<>> /\ l \in Seq(Cells) /\ Len(l) \in 1 .. BUFLEN - 1 /\ BUFLEN \in Nat /\ Len(l) \in Nat
  BY LinesAre, InfoAssumption DEF Readable
<1>3. CutBefore(buf', l, 1)
  <2> DEFINE W == Len(l)
             a == l \o <<"nul">>
             b == SubSeq(buf, W + 2, BUFLEN)
  <2>1. "nul" \in Cells /\ buf \in [1 .. BUFLEN -> Cells] /\ buf[BUFLEN] = "nul"
    BY DEF Cells, InfoInv, Memory
  <2>2. /\ b \in Seq(Cells) /\ Len(b) = BUFLEN - (W + 1)
        /\ \A i \in 1 .. BUFLEN - (W + 1) : b[i] = buf[(W + 1) + i]
    <3>1. W + 2 \in Int /\ BUFLEN \in Int /\ \A i \in W + 2 .. BUFLEN : buf[i] \in Cells
      BY <1>2, <2>1
    <3>2. /\ b \in Seq(Cells) /\ Len(b) = IF W + 2 <= BUFLEN THEN BUFLEN - (W + 2) + 1 ELSE 0
          /\ \A i \in 1 .. BUFLEN - (W + 2) + 1 : b[i] = buf[(W + 2) + i - 1]
      BY <3>1, SubSeqProperties
    <3> HIDE DEF b, W
    <3>3. W \in Nat /\ W + 1 <= BUFLEN /\ BUFLEN \in Nat
      BY <1>2 DEF W
    <3>4. /\ BUFLEN - (W + 2) + 1 = BUFLEN - (W + 1) /\ (W + 2 <= BUFLEN \/ BUFLEN - (W + 1) = 0)
          /\ \A i \in Nat : (W + 2) + i - 1 = (W + 1) + i
      BY <3>3
    <3> QED BY <3>2, <3>3, <3>4
  <2>3. /\ a \in Seq(Cells) /\ Len(a) = W + 1 /\ a[W + 1] = "nul" /\ \A i \in 1 .. W : a[i] = l[i]
    <3> DEFINE z == <<"nul">>
    <3>1. z \in Seq(Cells) /\ Len(z) = 1 /\ z[1] = "nul"
      BY <2>1
    <3> HIDE DEF z
    <3>2. /\ l \o z \in Seq(Cells) /\ Len(l \o z) = W + Len(z)
          /\ \A i \in 1 .. W + Len(z) : (l \o z)[i] = IF i <= W THEN l[i] ELSE z[i - W]
      BY <1>2, <3>1, ConcatProperties
    <3>3. a = l \o z
      BY DEF z
    <3> HIDE DEF a
    <3>4. a[W + 1] = "nul"
      <4>1. W + 1 \in 1 .. W + Len(z) /\ ~ (W + 1 <= W) /\ (W + 1) - W = 1
        BY <1>2, <3>1
      <4> QED BY <3>1, <3>2, <3>3, <4>1
    <3> QED BY <1>2, <3>1, <3>2, <3>3, <3>4
  <2>4. buf' = a \o b
    BY <1>1
  <2> HIDE DEF a, b
  <2>5. /\ buf' \in Seq(Cells) /\ Len(buf') = BUFLEN
        /\ \A i \in 1 .. W + 1 : buf'[i] = a[i]
        /\ \A i \in W + 2 .. BUFLEN : buf'[i] = buf[i]
    <3>1. /\ a \o b \in Seq(Cells) /\ Len(a \o b) = Len(a) + Len(b)
          /\ \A i \in 1 .. Len(a) + Len(b) : (a \o b)[i] = IF i <= Len(a) THEN a[i] ELSE b[i - Len(a)]
      BY <2>2, <2>3, ConcatProperties
    <3>2. Len(a) + Len(b) = BUFLEN
      BY <1>2, <2>2, <2>3
    <3>3. \A i \in 1 .. W + 1 : (a \o b)[i] = a[i]
      BY <1>2, <2>3, <3>1, <3>2
    <3>4. ASSUME NEW i \in W + 2 .. BUFLEN PROVE (a \o b)[i] = buf[i]
      <4>1. i \in 1 .. BUFLEN /\ ~ (i <= W + 1) /\ i - (W + 1) \in 1 .. BUFLEN - (W + 1) /\ (W + 1) + (i - (W + 1)) = i
        BY <1>2
      <4>2. (a \o b)[i] = b[i - (W + 1)]
        BY <2>3, <3>1, <3>2, <4>1
      <4> QED BY <2>2, <4>1, <4>2
    <3> QED BY <2>4, <3>1, <3>2, <3>3, <3>4
  <2>6. buf' \in [1 .. BUFLEN -> Cells]
    BY <1>2, <2>5
  <2>7. buf'[BUFLEN] = "nul"
    <3>1. CASE BUFLEN = W + 1
      BY <1>2, <2>3, <2>5, <3>1
    <3>2. CASE BUFLEN # W + 1
      <4>1. BUFLEN \in W + 2 .. BUFLEN
        BY <1>2, <3>2
      <4> QED BY <2>1, <2>5, <4>1
    <3> QED BY <3>1, <3>2
  <2>8. buf'[W + 1] = "nul" /\ \A i \in 1 .. W : buf'[i] = l[i]
    BY <1>2, <2>3, <2>5
  <2> QED BY <2>6, <2>7, <2>8 DEF CutBefore, Memory
<1>4. InfoTyped(info)
  BY DEF InfoInv
<1> DEFINE m == buf'
<1>5. CutBefore(m, l, 1) /\ M!MakeInfo(m)
  BY <1>1, <1>3
<1>6. /\ copy' \in Memory /\ InfoTyped(info')
      /\ \A text \in M!TextAt(l) :
           /\ FrontCut(copy', l, text) /\ Listed(info'.argv, l, text) /\ Left(copy', l, text, info'.tail, taken')
  BY <1>1, <1>2, <1>4, <1>5, CalledWith
<1>7. buf' \in Memory
  BY <1>3 DEF CutBefore
<1>8. \A text \in M!TextAt(l) : Given(l, text)'
  BY <1>6 DEF Given
<1>9. \A text \in M!TextAt(line') : Given(line, text)'
  BY <1>1, <1>6 DEF Given
<1> QED BY <1>1, <1>2, <1>3, <1>6, <1>7, <1>9 DEF InfoInv

\* The next plugin begins anew (irc.c:403).
LEMMA NextPluginStep ==
  ASSUME InfoInv, M!NextPlugin
  PROVE  InfoInv'
<1>1. line # <<>> /\ taken' = <<>> /\ M!MakeInfo(buf) /\ buf' = buf /\ line' = line
  BY DEF M!NextPlugin
<1>2. Readable(line) /\ CutBefore(buf, line, 1) /\ InfoTyped(info) /\ buf \in Memory
  BY <1>1 DEF InfoInv
<1>3. /\ copy' \in Memory /\ InfoTyped(info')
      /\ \A text \in M!TextAt(line) :
           /\ FrontCut(copy', line, text) /\ Listed(info'.argv, line, text) /\ Left(copy', line, text, info'.tail, taken')
  BY <1>1, <1>2, CalledWith
<1>4. \A text \in M!TextAt(line') : Given(line, text)'
  BY <1>1, <1>3 DEF Given
<1> QED BY <1>1, <1>2, <1>3, <1>4 DEF InfoInv

\* tail_getp and skip_nick go to the first cell that is no space; there is one (util.c:234).
LEMMA SkipIs ==
  ASSUME copy \in Memory, NEW p \in 1 .. BUFLEN
  PROVE  /\ M!SkipSpaces(p) \in p .. BUFLEN /\ copy[M!SkipSpaces(p)] # "space"
         /\ \A j \in p .. M!SkipSpaces(p) - 1 : copy[j] = "space"
<1>1. BUFLEN \in Nat /\ p \in Nat /\ copy[BUFLEN] = "nul"
  BY InfoAssumption DEF Memory
<1> DEFINE hits == {i \in p .. BUFLEN : copy[i] # "space"}
           At(i) == copy[i] # "space" /\ \A j \in p .. i - 1 : copy[j] = "space"
<1>2. hits \subseteq Nat /\ hits # {}
  BY <1>1
<1>3. PICK i \in hits : \A j \in hits : i <= j
  BY <1>2, LeastIn
<1>4. ASSUME NEW j \in p .. i - 1 PROVE copy[j] = "space"
  <2>1. j \in p .. BUFLEN /\ ~ (i <= j)
    BY <1>1, <1>3
  <2> QED BY <1>3, <2>1
<1>5. \E z \in p .. BUFLEN : At(z)
  BY <1>3, <1>4
<1>6. M!SkipSpaces(p) = CHOOSE z \in p .. BUFLEN : At(z)
  BY DEF M!SkipSpaces
<1> HIDE DEF At
<1>7. M!SkipSpaces(p) \in p .. BUFLEN /\ At(M!SkipSpaces(p))
  BY <1>5, <1>6, Zenon
<1> QED BY <1>7 DEF At

\* A piece of the copy behind the cuts is the piece of the line.
LEMMA SamePiece ==
  ASSUME NEW l, Readable(l), NEW mem \in Memory, NEW t \in 1 .. Len(l) + 1, NEW q \in t .. Len(l) + 1,
         \A i \in t .. q - 1 : mem[i] = l[i]
  PROVE  SubSeq(mem, t, q - 1) = SubSeq(l, t, q - 1)
<1>1. /\ Len(l) \in Nat /\ t \in Nat /\ q \in Nat /\ q <= Len(l) + 1 /\ t \in 1 .. q /\ l \in Seq(Cells)
      /\ BUFLEN \in Nat /\ Len(l) < BUFLEN
  BY InfoAssumption DEF Readable
<1>2. t \in Int /\ q - 1 \in Int /\ \A i \in t .. q - 1 : l[i] \in Cells /\ mem[i] \in Cells
  BY <1>1, ElementOfSeq
<1> DEFINE a == SubSeq(mem, t, q - 1)
           b == SubSeq(l, t, q - 1)
<1>3. /\ a \in Seq(Cells) /\ Len(a) = IF t <= q - 1 THEN (q - 1) - t + 1 ELSE 0
      /\ \A i \in 1 .. (q - 1) - t + 1 : a[i] = mem[t + i - 1]
  BY <1>2, SubSeqProperties
<1>4. /\ b \in Seq(Cells) /\ Len(b) = IF t <= q - 1 THEN (q - 1) - t + 1 ELSE 0
      /\ \A i \in 1 .. (q - 1) - t + 1 : b[i] = l[t + i - 1]
  BY <1>2, SubSeqProperties
<1> HIDE DEF a, b
<1>5. Len(a) = q - t /\ Len(b) = q - t
  BY <1>1, <1>3, <1>4
<1>6. ASSUME NEW i \in 1 .. q - t PROVE a[i] = b[i]
  <2>1. i \in 1 .. (q - 1) - t + 1 /\ t + i - 1 \in t .. q - 1
    BY <1>1
  <2> QED BY <1>3, <1>4, <2>1
<1>7. a = b
  BY <1>3, <1>4, <1>5, <1>6, SeqEqual
<1> QED BY <1>7 DEF a, b

\* A plugin that takes the cells up to q leaves the rest from there.
LEMMA Moved ==
  ASSUME NEW l, Readable(l), NEW text \in 1 .. Len(l), NEW got \in Seq(Cells), NEW t \in text + 1 .. Len(l) + 1,
         got \o Rest(l, t) = Rest(l, text + 1), NEW q \in t .. Len(l) + 1
  PROVE  /\ got \o M!Solid(SubSeq(l, t, q - 1)) \in Seq(Cells)
         /\ (got \o M!Solid(SubSeq(l, t, q - 1))) \o Rest(l, q) = Rest(l, text + 1)
<1>1. l \in Seq(Cells) /\ Len(l) \in Nat /\ t \in 1 .. Len(l) + 1
  BY InfoAssumption DEF Readable
<1> DEFINE a == M!Solid(SubSeq(l, t, q - 1))
           b == Rest(l, q)
<1>2. a \in Seq(Cells) /\ b \in Seq(Cells) /\ Rest(l, t) = a \o b
  BY <1>1, RestSplits
<1> HIDE DEF a, b
<1>3. Three(Cells, got, a, b)
  BY <1>2 DEF Three
<1>4. (got \o a) \o b = got \o (a \o b)
  BY <1>3, Associates, SMTT(30)
<1>5. got \o a \in Seq(Cells)
  BY <1>2, ConcatProperties
<1>6. (got \o a) \o b = Rest(l, text + 1)
  BY <1>2, <1>4
<1> QED BY <1>5, <1>6 DEF a, b


\* A plugin that goes on in its text keeps the arguments, and the line.
LEMMA TextStep ==
  ASSUME InfoInv, UNCHANGED <<buf, line>>, copy' \in Memory, NEW z \in 0 .. BUFLEN,
         info' = [info EXCEPT !.tail = z],
         line # <<>> => \A text \in M!TextAt(line) : FrontCut(copy', line, text) /\ Left(copy', line, text, z, taken')
  PROVE  InfoInv'
<1>1. InfoTyped(info) /\ buf \in Memory /\ (line = <<>> \/ (Readable(line) /\ CutBefore(buf, line, 1)))
  BY DEF InfoInv
<1>2. info'.argv = info.argv /\ info'.tail = z /\ InfoTyped(info')
  BY <1>1 DEF InfoTyped
<1>3. ASSUME line' # <<>>, NEW text \in M!TextAt(line') PROVE Given(line, text)'
  <2>1. line # <<>> /\ text \in M!TextAt(line) /\ line' = line
    BY <1>3
  <2>2. Listed(info.argv, line, text)
    BY <2>1 DEF InfoInv, Given
  <2>3. FrontCut(copy', line, text) /\ Left(copy', line, text, z, taken')
    BY <2>1
  <2> QED BY <1>2, <2>1, <2>2, <2>3 DEF Given
<1> QED BY <1>1, <1>2, <1>3 DEF InfoInv

\* What a plugin that has some text to look at has in front of it
LEMMA TextThere ==
  ASSUME InfoInv, line # <<>>, NEW text \in M!TextAt(line), info.tail # 0
  PROVE  /\ Readable(line) /\ Len(line) \in Nat /\ Len(line) < BUFLEN /\ text \in 2 .. Len(line) /\ line \in Seq(Cells)
         /\ FrontCut(copy, line, text) /\ info.tail \in text + 1 .. Len(line) + 1 /\ copy[Len(line) + 1] = "nul"
         /\ \A i \in info.tail .. Len(line) : copy[i] = line[i] /\ line[i] # "nul"
         /\ taken \in Seq(Cells) /\ taken \o Rest(line, info.tail) = Rest(line, text + 1)
<1>1. Readable(line) /\ Given(line, text)
  BY DEF InfoInv
<1>2. /\ Len(line) \in Nat /\ text \in 2 .. Len(line) /\ Len(line) < BUFLEN /\ line \in Seq(Cells)
      /\ \A i \in 1 .. Len(line) : line[i] # "nul"
  BY <1>1, TextIs, InfoAssumption DEF Readable
<1>3. FrontCut(copy, line, text) /\ Left(copy, line, text, info.tail, taken)
  BY <1>1 DEF Given
<1>4. /\ info.tail \in text + 1 .. Len(line) + 1 /\ copy[Len(line) + 1] = "nul"
      /\ \A i \in info.tail .. Len(line) : copy[i] = line[i]
      /\ taken \in Seq(Cells) /\ taken \o Rest(line, info.tail) = Rest(line, text + 1)
  BY <1>3 DEF Left
<1> QED BY <1>1, <1>2, <1>3, <1>4

\* A word that is there is taken, and the space behind it (util.c:191).
LEMMA TailCmdStep ==
  ASSUME InfoInv, NEW word \in Commands, M!TailCmd(word)
  PROVE  InfoInv'
<1> DEFINE t == info.tail
<1>1. /\ t # 0 /\ copy[t] = word /\ taken' = taken \o M!Solid(<<word>>)
      /\ \/ copy[t + 1] = "nul" /\ info' = [info EXCEPT !.tail = 0]
         \/ copy[t + 1] = "space" /\ info' = [info EXCEPT !.tail = @ + 2]
      /\ buf' = buf /\ copy' = copy /\ line' = line
  BY DEF M!TailCmd, M!Got
<1>2. /\ word \in Cells /\ word # "space" /\ word # "nul" /\ BUFLEN \in Nat
  BY InfoAssumption DEF Cells
<1>3. copy \in Memory /\ copy[BUFLEN] = "nul" /\ t \in 0 .. BUFLEN
  BY DEF InfoInv, InfoTyped, Memory
<1>4. t \in 1 .. BUFLEN - 1
  BY <1>1, <1>2, <1>3
<1> DEFINE z == IF copy[t + 1] = "nul" THEN 0 ELSE t + 2
<1>5. info' = [info EXCEPT !.tail = z] /\ ((z = 0 /\ copy[t + 1] = "nul") \/ (z = t + 2 /\ copy[t + 1] = "space"))
  BY <1>1
<1>6. z \in 0 .. BUFLEN
  BY <1>2, <1>3, <1>4, <1>5
<1> HIDE DEF z
<1>7. ASSUME line # <<>>, NEW text \in M!TextAt(line)
      PROVE  FrontCut(copy', line, text) /\ Left(copy', line, text, z, taken')
  <2> DEFINE W == Len(line)
  <2>1. /\ Readable(line) /\ W \in Nat /\ W < BUFLEN /\ text \in 2 .. W /\ line \in Seq(Cells)
        /\ FrontCut(copy, line, text) /\ t \in text + 1 .. W + 1 /\ copy[W + 1] = "nul"
        /\ \A i \in t .. W : copy[i] = line[i] /\ line[i] # "nul"
        /\ taken \in Seq(Cells) /\ taken \o Rest(line, t) = Rest(line, text + 1)
    BY <1>1, <1>7, TextThere
  <2> HIDE DEF t, W
  <2>2. t \in text + 1 .. W /\ t \in 1 .. W /\ line[t] = word
    <3>1. copy[t] = word /\ copy[W + 1] # word
      BY <1>1, <1>2, <2>1
    <3>2. t # W + 1
      BY <3>1
    <3>3. t \in text + 1 .. W /\ t \in 1 .. W /\ t \in t .. W
      BY <2>1, <3>2
    <3> QED BY <2>1, <3>1, <3>3
  <2>3. SubSeq(line, t, (t + 1) - 1) = <<word>>
    <3>1. t \in Int /\ (t + 1) - 1 = t /\ \A i \in t .. t : line[i] \in Cells
      BY <1>2, <2>2
    <3> DEFINE one == SubSeq(line, t, t)
    <3>2. one \in Seq(Cells) /\ Len(one) = (IF t <= t THEN t - t + 1 ELSE 0) /\ \A i \in 1 .. t - t + 1 : one[i] = line[t + i - 1]
      BY <3>1, SubSeqProperties
    <3> HIDE DEF one
    <3>3. one \in Seq(Cells) /\ Len(one) = 1 /\ one[1] = word
      <4>1. t \in Nat /\ t - t + 1 = 1 /\ t + 1 - 1 = t /\ t <= t
        BY <2>1, <2>2
      <4> QED BY <2>2, <3>2, <4>1
    <3>4. one = <<word>>
      BY <3>3
    <3> QED BY <3>1, <3>4 DEF one
  <2>4. t + 1 \in t .. W + 1 /\ t \in 1 .. W + 1 /\ text \in 1 .. W
    BY <2>1, <2>2
  <2>5. taken' \in Seq(Cells) /\ taken' \o Rest(line, t + 1) = Rest(line, text + 1)
    <3>1. /\ taken \o M!Solid(SubSeq(line, t, (t + 1) - 1)) \in Seq(Cells)
          /\ (taken \o M!Solid(SubSeq(line, t, (t + 1) - 1))) \o Rest(line, t + 1) = Rest(line, text + 1)
      BY <2>1, <2>4, Moved DEF W
    <3> QED BY <1>1, <2>3, <3>1
  <2>6. CASE z = 0 /\ copy[t + 1] = "nul"
    <3>1. t + 1 = W + 1
      <4>1. ASSUME t # W PROVE FALSE
        <5>1. t + 1 \in t .. W
          BY <2>1, <2>2, <4>1
        <5> QED BY <2>1, <2>6, <5>1
      <4> QED BY <4>1
    <3>2. Rest(line, t + 1) = <<>>
      BY <2>1, <2>2, <3>1, RestNext DEF W
    <3>3. taken' = Rest(line, text + 1)
      BY <2>5, <3>2, ConcatEmptySeq
    <3> QED BY <1>1, <2>1, <2>5, <2>6, <3>3 DEF Left
  <2>7. CASE z = t + 2 /\ copy[t + 1] = "space"
    <3>1. t + 1 \in 1 .. W /\ line[t + 1] = "space" /\ (t + 1) + 1 = t + 2
      <4>1. copy[W + 1] # copy[t + 1]
        BY <2>1, <2>7
      <4>2. t # W
        BY <4>1
      <4>3. t + 1 \in 1 .. W /\ t + 1 \in t .. W /\ (t + 1) + 1 = t + 2
        BY <2>1, <2>2, <4>2
      <4> QED BY <2>1, <2>7, <4>3
    <3>2. Rest(line, t + 1) = Rest(line, t + 2)
      BY <2>1, <3>1, RestNext DEF W
    <3>3. z \in text + 1 .. W + 1 /\ \A i \in z .. W : i \in t .. W
      BY <2>1, <2>2, <2>7, <3>1
    <3>4. \A i \in z .. W : copy[i] = line[i]
      BY <2>1, <3>3
    <3>5. taken' \o Rest(line, z) = Rest(line, text + 1)
      BY <2>5, <2>7, <3>2
    <3> QED BY <1>1, <2>1, <2>5, <3>3, <3>4, <3>5 DEF Left, W
  <2> QED BY <1>5, <2>6, <2>7
<1>8. copy' \in Memory /\ UNCHANGED <<buf, line>>
  BY <1>1, <1>3
<1> HIDE DEF t
<1>9. line # <<>> => \A text \in M!TextAt(line) : FrontCut(copy', line, text) /\ Left(copy', line, text, z, taken')
  BY <1>7
<1> QED BY <1>5, <1>6, <1>8, <1>9, TextStep


\* The next word is taken, with the spaces around it (util.c:228).
LEMMA TailGetpStep ==
  ASSUME InfoInv, M!TailGetp
  PROVE  InfoInv'
<1> DEFINE t == info.tail
           from == M!SkipSpaces(t)
           cut == M!CutAt(copy, from)
           z == IF cut.next # 0 /\ cut.mem[cut.next] # "nul" THEN cut.next ELSE 0
<1>1. /\ t # 0 /\ taken' = taken \o M!Solid(M!String(cut.mem, from)) /\ copy' = cut.mem
      /\ info' = [info EXCEPT !.tail = z] /\ buf' = buf /\ line' = line
  BY DEF M!TailGetp, M!Got
<1>2. copy \in Memory /\ copy[BUFLEN] = "nul" /\ t \in 0 .. BUFLEN /\ BUFLEN \in Nat
  BY InfoAssumption DEF InfoInv, InfoTyped, Memory
<1>3. t \in 1 .. BUFLEN
  BY <1>1, <1>2
<1>4. from \in t .. BUFLEN /\ copy[from] # "space" /\ \A j \in t .. from - 1 : copy[j] = "space"
  BY <1>2, <1>3, SkipIs
<1> HIDE DEF from, t
<1>5. from \in 1 .. BUFLEN
  BY <1>2, <1>3, <1>4
<1>6. /\ cut.mem \in Memory /\ cut.next \in 0 .. BUFLEN
      /\ \/ /\ cut = [mem |-> copy, next |-> 0]
            /\ \A i \in from .. BUFLEN : copy[i] = "space" => \E j \in from .. i - 1 : copy[j] = "nul"
         \/ \E s \in from .. BUFLEN - 1 :
              /\ copy[s] = "space" /\ \A j \in from .. s - 1 : copy[j] # "nul" /\ copy[j] # "space"
              /\ cut = [mem |-> [copy EXCEPT ![s] = "nul"], next |-> s + 1]
  BY <1>2, <1>5, CutIs
<1> HIDE DEF cut
<1>7. z \in 0 .. BUFLEN
  BY <1>2, <1>6
<1>8. z = IF cut.next # 0 /\ cut.mem[cut.next] # "nul" THEN cut.next ELSE 0
  OBVIOUS
<1> HIDE DEF z
<1>9. ASSUME line # <<>>, NEW text \in M!TextAt(line)
      PROVE  FrontCut(copy', line, text) /\ Left(copy', line, text, z, taken')
  <2> DEFINE W == Len(line)
  <2>1. /\ Readable(line) /\ W \in Nat /\ W < BUFLEN /\ text \in 2 .. W /\ line \in Seq(Cells)
        /\ FrontCut(copy, line, text) /\ t \in text + 1 .. W + 1 /\ copy[W + 1] = "nul"
        /\ \A i \in t .. W : copy[i] = line[i] /\ line[i] # "nul"
        /\ taken \in Seq(Cells) /\ taken \o Rest(line, t) = Rest(line, text + 1)
    BY <1>1, <1>9, TextThere DEF t
  <2> HIDE DEF W
  <2>2. from \in t .. W + 1
    <3>1. ASSUME W + 1 < from PROVE FALSE
      <4>1. W + 1 \in t .. from - 1
        BY <1>2, <1>4, <2>1, <3>1
      <4> QED BY <1>4, <2>1, <4>1
    <3> QED BY <1>2, <1>4, <2>1, <3>1
  <2>3. Rest(line, t) = Rest(line, from)
    <3>1. t \in 1 .. W + 1 /\ from \in t .. W + 1
      BY <2>1, <2>2
    <3>2. ASSUME NEW j \in t .. from - 1 PROVE line[j] = "space"
      <4>1. j \in t .. W
        BY <1>2, <2>1, <2>2
      <4> QED BY <1>4, <2>1, <4>1
    <3> QED BY <2>1, <3>1, <3>2, RestSkips DEF W
  <2>4. /\ text \in 1 .. W /\ from \in text + 1 .. W + 1 /\ from \in 1 .. W + 1 /\ from \in Nat
        /\ taken \o Rest(line, from) = Rest(line, text + 1) /\ \A i \in from .. W : i \in t .. W
    BY <2>1, <2>2, <2>3
  <2>4a. t \in Nat /\ from \in Nat /\ W \in Nat /\ BUFLEN \in Nat /\ W < BUFLEN /\ 1 <= t /\ t <= from
    <3>1. from \in t .. BUFLEN /\ t \in 1 .. BUFLEN
      BY <1>3, <1>4
    <3> QED BY <1>2, <2>1, <3>1
  <2>5. ASSUME NEW q \in from .. W + 1, cut.mem \in Memory, cut.mem[q] = "nul",
               \A j \in from .. q - 1 : cut.mem[j] = line[j], taken' = taken \o M!Solid(M!String(cut.mem, from))
        PROVE  taken' \in Seq(Cells) /\ taken' \o Rest(line, q) = Rest(line, text + 1)
    <3>1. /\ BUFLEN \in Nat /\ from \in 1 .. BUFLEN /\ q \in from .. BUFLEN /\ cut.mem \in [1 .. BUFLEN -> Cells]
      BY <1>2, <1>5, <2>1, <2>4, <2>5 DEF Memory
    <3>2. \A j \in from .. q - 1 : cut.mem[j] # "nul"
      <4> SUFFICES ASSUME NEW j \in from .. q - 1 PROVE cut.mem[j] # "nul"
        OBVIOUS
      <4>1. j \in from .. W
        BY <2>1, <2>4
      <4> QED BY <2>1, <2>4, <2>5, <4>1
    <3>3. M!String(cut.mem, from) = SubSeq(cut.mem, from, q - 1)
      BY <2>5, <3>1, <3>2, StringIs
    <3>4. SubSeq(cut.mem, from, q - 1) = SubSeq(line, from, q - 1)
      BY <2>1, <2>4, <2>5, SamePiece DEF W
    <3>5. /\ taken \o M!Solid(SubSeq(line, from, q - 1)) \in Seq(Cells)
          /\ (taken \o M!Solid(SubSeq(line, from, q - 1))) \o Rest(line, q) = Rest(line, text + 1)
      <4>1. /\ Readable(line) /\ text \in 1 .. Len(line) /\ from \in text + 1 .. Len(line) + 1
            /\ q \in from .. Len(line) + 1 /\ taken \in Seq(Cells) /\ taken \o Rest(line, from) = Rest(line, text + 1)
        BY <2>1, <2>4 DEF W
      <4> QED BY <4>1, Moved
    <3> QED BY <2>5, <3>3, <3>4, <3>5
  <2>6. Rest(line, W + 1) = <<>>
    BY <2>1, <2>4, RestNext DEF W
  <2>7. CASE /\ cut = [mem |-> copy, next |-> 0]
             /\ \A i \in from .. BUFLEN : copy[i] = "space" => \E j \in from .. i - 1 : copy[j] = "nul"
    <3>1. cut.mem = copy /\ cut.next = 0 /\ z = 0 /\ copy' = copy
      BY <1>1, <1>8, <2>7
    <3>2. W + 1 \in from .. W + 1 /\ \A j \in from .. (W + 1) - 1 : cut.mem[j] = line[j]
      <4>1. W + 1 \in from .. W + 1 /\ \A j \in from .. (W + 1) - 1 : j \in t .. W
        BY <2>4, <2>4a
      <4> QED BY <2>1, <3>1, <4>1
    <3>3. taken' \in Seq(Cells) /\ taken' \o Rest(line, W + 1) = Rest(line, text + 1)
      BY <1>1, <1>6, <2>1, <2>5, <3>1, <3>2
    <3>4. taken' = Rest(line, text + 1)
      BY <2>6, <3>3, ConcatEmptySeq
    <3> QED BY <2>1, <3>1, <3>3, <3>4 DEF Left
  <2>8. CASE \E s \in from .. BUFLEN - 1 :
               /\ copy[s] = "space" /\ \A j \in from .. s - 1 : copy[j] # "nul" /\ copy[j] # "space"
               /\ cut = [mem |-> [copy EXCEPT ![s] = "nul"], next |-> s + 1]
    <3>1. PICK s \in from .. BUFLEN - 1 :
               /\ copy[s] = "space" /\ \A j \in from .. s - 1 : copy[j] # "nul" /\ copy[j] # "space"
               /\ cut = [mem |-> [copy EXCEPT ![s] = "nul"], next |-> s + 1]
      BY <2>8
    <3>2. s \in from .. W
      <4>1. ASSUME W + 1 < s PROVE FALSE
        <5>1. W + 1 \in from .. s - 1
          BY <2>1, <2>4, <4>1
        <5> QED BY <2>1, <3>1, <5>1
      <4>2. s # W + 1
        BY <2>1, <3>1
      <4> QED BY <2>1, <2>4, <4>1, <4>2
    <3>3. /\ cut.next = s + 1 /\ cut.mem = [copy EXCEPT ![s] = "nul"] /\ copy' = cut.mem
      BY <1>1, <3>1
    <3>4. copy'[s] = "nul" /\ \A i \in 1 .. BUFLEN : i # s => copy'[i] = copy[i]
      <4>1. copy \in [1 .. BUFLEN -> Cells] /\ s \in 1 .. BUFLEN
        BY <1>2, <2>1, <2>4, <3>2 DEF Memory
      <4> QED BY <3>3, <4>1
    <3>5. ASSUME NEW j \in from .. s - 1 PROVE cut.mem[j] = line[j]
      <4>1. j \in 1 .. BUFLEN /\ j # s /\ j \in t .. W
        BY <2>4a, <3>2
      <4> QED BY <2>1, <3>3, <3>4, <4>1
    <3>6. taken' \in Seq(Cells) /\ taken' \o Rest(line, s) = Rest(line, text + 1)
      <4>1. s \in from .. W + 1 /\ cut.mem[s] = "nul"
        BY <2>1, <2>4, <3>2, <3>3, <3>4
      <4> QED BY <1>1, <1>6, <2>5, <3>5, <4>1
    <3>7. Rest(line, s) = Rest(line, s + 1) /\ line[s] = "space"
      <4>1. s \in 1 .. W /\ s \in t .. W
        BY <2>4a, <3>2
      <4>2. line[s] = "space"
        BY <2>1, <3>1, <4>1
      <4> QED BY <2>1, <4>1, <4>2, RestNext DEF W
    <3>8. FrontCut(copy', line, text)
      <4> SUFFICES ASSUME NEW i \in 1 .. text - 1 PROVE copy'[i] = IF line[i] = "space" THEN "nul" ELSE line[i]
        BY DEF FrontCut
      <4>1. i \in 1 .. BUFLEN /\ i # s
        BY <2>1, <2>4, <2>4a, <3>2
      <4> QED BY <2>1, <3>4, <4>1 DEF FrontCut
    <3>9. copy'[W + 1] = "nul" /\ \A i \in s + 1 .. W : copy'[i] = line[i]
      <4>1. W + 1 \in 1 .. BUFLEN /\ W + 1 # s
        BY <2>4a, <3>2
      <4>2. \A i \in s + 1 .. W : i \in 1 .. BUFLEN /\ i # s /\ i \in t .. W
        BY <2>4a, <3>2
      <4> QED BY <2>1, <3>4, <4>1, <4>2
    <3>10. CASE copy'[s + 1] = "nul"
      <4>1. s = W
        <5>1. ASSUME s # W PROVE FALSE
          <6>1. s + 1 \in s + 1 .. W /\ s + 1 \in t .. W
            BY <2>4a, <3>2, <5>1
          <6> QED BY <2>1, <3>9, <3>10, <6>1
        <5> QED BY <5>1
      <4>2. z = 0
        BY <1>8, <3>3, <3>10
      <4>3. taken' = Rest(line, text + 1)
        BY <2>6, <3>6, <3>7, <4>1, ConcatEmptySeq
      <4> QED BY <3>6, <3>8, <4>2, <4>3 DEF Left
    <3>11. CASE copy'[s + 1] # "nul"
      <4>1. z = s + 1
        BY <1>8, <2>4, <3>2, <3>3, <3>11
      <4>2. z \in text + 1 .. W + 1
        BY <2>1, <2>4, <3>2, <4>1
      <4> QED BY <3>6, <3>7, <3>8, <3>9, <4>1, <4>2 DEF Left, W
    <3> QED BY <3>10, <3>11
  <2> QED BY <1>6, <2>7, <2>8
<1>10. copy' \in Memory /\ UNCHANGED <<buf, line>>
  BY <1>1, <1>6
<1>11. line # <<>> => \A text \in M!TextAt(line) : FrontCut(copy', line, text) /\ Left(copy', line, text, z, taken')
  BY <1>9
<1> QED BY <1>1, <1>7, <1>10, <1>11, TextStep DEF z


\* The nick of the bot in front is skipped, with a colon and the spaces behind it (util.c:308).
LEMMA SkipNickStep ==
  ASSUME InfoInv, M!SkipNick
  PROVE  InfoInv'
<1> DEFINE t == info.tail
           n == IF copy[t + 1] = "colon" THEN 2 ELSE 1
           to == M!SkipSpaces(t + n)
<1>1. /\ t # 0 /\ copy[t] = Me /\ taken' = taken \o M!Solid(SubSeq(copy, t, to - 1))
      /\ info' = [info EXCEPT !.tail = to] /\ buf' = buf /\ copy' = copy /\ line' = line
  BY DEF M!SkipNick, M!Got
<1>2. copy \in Memory /\ copy[BUFLEN] = "nul" /\ t \in 0 .. BUFLEN /\ BUFLEN \in Nat /\ Me # "nul"
  BY InfoAssumption DEF InfoInv, InfoTyped, Memory
<1>3. t \in 1 .. BUFLEN - 1
  BY <1>1, <1>2
<1>4. n \in {1, 2} /\ (n = 2 => copy[t + 1] = "colon")
  OBVIOUS
<1> HIDE DEF n
<1>5. t + n \in 1 .. BUFLEN
  BY <1>2, <1>3, <1>4
<1>6. to \in t + n .. BUFLEN /\ copy[to] # "space" /\ \A j \in t + n .. to - 1 : copy[j] = "space"
  BY <1>2, <1>5, SkipIs
<1> HIDE DEF to, t
<1>7. to \in 0 .. BUFLEN
  BY <1>2, <1>3, <1>4, <1>6
<1>8. ASSUME line # <<>>, NEW text \in M!TextAt(line)
      PROVE  FrontCut(copy', line, text) /\ Left(copy', line, text, to, taken')
  <2> DEFINE W == Len(line)
  <2>1. /\ Readable(line) /\ W \in Nat /\ W < BUFLEN /\ text \in 2 .. W /\ line \in Seq(Cells)
        /\ FrontCut(copy, line, text) /\ t \in text + 1 .. W + 1 /\ copy[W + 1] = "nul"
        /\ \A i \in t .. W : copy[i] = line[i] /\ line[i] # "nul"
        /\ taken \in Seq(Cells) /\ taken \o Rest(line, t) = Rest(line, text + 1)
    BY <1>1, <1>8, TextThere DEF t
  <2> HIDE DEF W
  <2>2. t # W + 1 /\ (n = 2 => t + 1 # W + 1)
    BY <1>1, <1>2, <1>4, <2>1
  <2>3. /\ t \in Nat /\ W \in Nat /\ BUFLEN \in Nat /\ W < BUFLEN /\ t + n \in t .. W + 1
        /\ t \in text + 1 .. W + 1 /\ text \in 1 .. W
    BY <1>2, <1>4, <2>1, <2>2
  <2>4. to \in t + n .. W + 1
    <3>1. ASSUME W + 1 < to PROVE FALSE
      <4>1. W + 1 \in t + n .. to - 1
        BY <1>4, <1>6, <2>3, <3>1
      <4> QED BY <1>6, <2>1, <4>1
    <3> QED BY <1>4, <1>6, <2>3, <3>1
  <2>5. /\ to \in t .. W + 1 /\ to \in text + 1 .. W + 1 /\ t \in 1 .. W + 1
        /\ \A i \in to .. W : i \in t .. W
        /\ \A i \in t .. to - 1 : i \in t .. W
    BY <1>4, <2>3, <2>4
  <2>6. SubSeq(copy, t, to - 1) = SubSeq(line, t, to - 1)
    <3>1. \A i \in t .. to - 1 : copy[i] = line[i]
      BY <2>1, <2>5
    <3> QED BY <1>2, <2>1, <2>5, <3>1, SamePiece DEF W
  <2>7. taken' \in Seq(Cells) /\ taken' \o Rest(line, to) = Rest(line, text + 1)
    <3>1. /\ taken \o M!Solid(SubSeq(line, t, to - 1)) \in Seq(Cells)
          /\ (taken \o M!Solid(SubSeq(line, t, to - 1))) \o Rest(line, to) = Rest(line, text + 1)
      <4>1. /\ Readable(line) /\ text \in 1 .. Len(line) /\ t \in text + 1 .. Len(line) + 1
            /\ to \in t .. Len(line) + 1 /\ taken \in Seq(Cells) /\ taken \o Rest(line, t) = Rest(line, text + 1)
        BY <2>1, <2>3, <2>5 DEF W
      <4> QED BY <4>1, Moved
    <3> QED BY <1>1, <2>6, <3>1
  <2>8. \A i \in to .. W : copy[i] = line[i]
    BY <2>1, <2>5
  <2> QED BY <1>1, <2>1, <2>5, <2>7, <2>8 DEF Left, W
<1>9. copy' \in Memory /\ UNCHANGED <<buf, line>>
  BY <1>1, <1>2
<1>10. line # <<>> => \A text \in M!TextAt(line) : FrontCut(copy', line, text) /\ Left(copy', line, text, to, taken')
  BY <1>8
<1> QED BY <1>1, <1>7, <1>9, <1>10, TextStep

\* At first there is no line, and nothing in the buffers.
LEMMA InfoInit == M!Init => InfoInv
<1> SUFFICES ASSUME M!Init PROVE InfoInv
  OBVIOUS
<1>1. M!Blank = [i \in 1 .. BUFLEN |-> "nul"] /\ BUFLEN \in Nat \ {0}
  BY InfoAssumption DEF M!Blank
<1>2. M!Blank \in Memory
  BY <1>1 DEF Memory, Cells
<1>3. buf \in Memory /\ copy \in Memory /\ line = <<>> /\ info = [sender |-> <<>>, cmd |-> <<>>, argv |-> <<>>, tail |-> 0]
  BY <1>2 DEF M!Init
<1>4. InfoTyped(info)
  BY <1>1, <1>3, InfoAssumption DEF InfoTyped
<1> QED BY <1>3, <1>4 DEF InfoInv

\* Every step keeps it.
LEMMA InfoNext == InfoInv /\ [M!Next]_(M!vars) => InfoInv'
<1> SUFFICES ASSUME InfoInv, [M!Next]_(M!vars) PROVE InfoInv'
  OBVIOUS
<1>1. CASE \E l \in ServerLine : M!Receive(l)
  BY <1>1, ReceiveStep
<1>2. CASE M!NextPlugin
  BY <1>2, NextPluginStep
<1>3. CASE M!TailGetp
  BY <1>3, TailGetpStep
<1>4. CASE M!SkipNick
  BY <1>4, SkipNickStep
<1>5. CASE \E w \in Commands : M!TailCmd(w)
  BY <1>5, TailCmdStep
<1>6. CASE UNCHANGED M!vars
  <2>1. buf' = buf /\ copy' = copy /\ info' = info /\ line' = line /\ taken' = taken
    BY <1>6 DEF M!vars
  <2> QED BY <2>1 DEF InfoInv, Given
<1> QED BY <1>1, <1>2, <1>3, <1>4, <1>5, <1>6, Zenon DEF M!Next


\* The argument at p is the parameter of the line there, up to the next space (irc.c:285).
LEMMA ArgumentReads ==
  ASSUME InfoInv, line # <<>>, NEW text \in M!TextAt(line), NEW p \in Before(line, text)
  PROVE  M!String(copy, p) = SubSeq(line, p, M!Strchr(line, p, "space") - 1)
<1> DEFINE W == Len(line)
           s == M!Strchr(line, p, "space")
<1>1. /\ Readable(line) /\ W \in Nat /\ line \in Seq(Cells) /\ BUFLEN \in Nat /\ W < BUFLEN
      /\ line \in [1 .. W -> Cells] /\ \A i \in 1 .. W : line[i] # "nul"
  BY InfoAssumption DEF InfoInv, Readable
<1>2. text \in 2 .. W /\ line[text - 1] = "space"
  BY <1>1, TextIs
<1>3. p \in 1 .. text - 1 /\ p \in Nat \ {0} /\ text - 1 \in p .. W
  <2>1. p \in M!Params(line) /\ p < text
    BY DEF Before
  <2>2. p \in 2 .. W + 1
    BY <1>1, <2>1, ParamsAre
  <2> QED BY <1>1, <1>2, <2>1, <2>2
<1>4. \/ s = 0 /\ \A i \in p .. W : line[i] = "space" => \E j \in p .. i - 1 : line[j] = "nul"
      \/ s \in p .. W /\ line[s] = "space" /\ \A j \in p .. s - 1 : line[j] # "nul" /\ line[j] # "space"
  BY <1>1, <1>3, StrchrIs
<1> HIDE DEF s
<1>5. s \in p .. W /\ line[s] = "space" /\ \A j \in p .. s - 1 : line[j] # "nul" /\ line[j] # "space"
  <2>1. ASSUME NEW j \in p .. (text - 1) - 1 PROVE line[j] # "nul"
    <3>1. j \in 1 .. W
      BY <1>1, <1>2, <1>3
    <3> QED BY <1>1, <3>1
  <2> QED BY <1>2, <1>3, <1>4, <2>1
<1>6. s \in p .. text - 1
  <2>1. ASSUME text - 1 < s PROVE FALSE
    <3>1. text - 1 \in p .. s - 1
      BY <1>2, <1>3, <1>5, <2>1
    <3> QED BY <1>2, <1>5, <3>1
  <2> QED BY <1>2, <1>3, <1>5, <2>1
<1>7. copy \in Memory /\ FrontCut(copy, line, text)
  BY DEF InfoInv, Given
<1>8. copy[s] = "nul" /\ \A j \in p .. s - 1 : copy[j] = line[j] /\ copy[j] # "nul"
  <2>1. s \in 1 .. text - 1 /\ \A j \in p .. s - 1 : j \in 1 .. text - 1
    BY <1>2, <1>3, <1>6
  <2> QED BY <1>5, <1>7, <2>1 DEF FrontCut
<1>9. M!String(copy, p) = SubSeq(copy, p, s - 1)
  <2>1. copy \in [1 .. BUFLEN -> Cells] /\ p \in 1 .. BUFLEN /\ s \in p .. BUFLEN /\ BUFLEN \in Nat
    BY <1>1, <1>2, <1>3, <1>6, <1>7 DEF Memory
  <2>2. copy[s] = "nul" /\ \A j \in p .. s - 1 : copy[j] # "nul"
    BY <1>8
  <2> QED BY ONLY <2>1, <2>2, StringIs
<1>10. SubSeq(copy, p, s - 1) = SubSeq(line, p, s - 1)
  <2>1. p \in 1 .. Len(line) + 1 /\ s \in p .. Len(line) + 1
    BY <1>1, <1>2, <1>3, <1>6
  <2> QED BY <1>1, <1>7, <1>8, <2>1, SamePiece
<1> QED BY <1>9, <1>10 DEF s

\* What is taken and what is left are the text.
LEMMA TextReads ==
  ASSUME InfoInv, line # <<>>, NEW text \in M!TextAt(line)
  PROVE  taken \o M!Solid(M!String(copy, info.tail)) = M!Solid(SubSeq(line, text + 1, Len(line)))
<1>1. taken \in Seq(Cells)
  BY DEF InfoInv, Given, Left
<1>2. CASE info.tail = 0
  <2>1. M!String(copy, info.tail) = <<>>
    BY <1>2 DEF M!String
  <2>2. M!Solid(<<>>) = <<>>
    <3>1. "nul" \in Cells
      BY DEF Cells
    <3> QED BY <3>1, SolidOne
  <2>3. Given(line, text)
    BY DEF InfoInv
  <2>4. Readable(line) /\ Len(line) \in Nat /\ text \in 2 .. Len(line)
    BY TextIs DEF InfoInv
  <2>5. taken = Rest(line, text + 1)
    BY <1>2, <2>3, <2>4 DEF Given, Left
  <2>6. taken \o <<>> = taken
    BY <1>1, ConcatEmptySeq
  <2> QED BY <2>1, <2>2, <2>5, <2>6 DEF Rest
<1>3. CASE info.tail # 0
  <2> DEFINE W == Len(line)
             t == info.tail
  <2>1. /\ Readable(line) /\ W \in Nat /\ W < BUFLEN /\ text \in 2 .. W /\ t \in text + 1 .. W + 1
        /\ copy[W + 1] = "nul" /\ \A i \in t .. W : copy[i] = line[i] /\ line[i] # "nul"
        /\ taken \o Rest(line, t) = Rest(line, text + 1)
    BY <1>3, TextThere
  <2>2. copy \in [1 .. BUFLEN -> Cells] /\ copy \in Memory /\ BUFLEN \in Nat
    BY InfoAssumption DEF InfoInv, Memory
  <2> HIDE DEF t
  <2>3. /\ t \in 1 .. BUFLEN /\ W + 1 \in t .. BUFLEN /\ t \in 1 .. W + 1 /\ W + 1 \in t .. W + 1
        /\ (W + 1) - 1 = W
    <3> HIDE DEF W
    <3> QED BY <2>1, <2>2
  <2>4. \A i \in t .. (W + 1) - 1 : copy[i] # "nul" /\ copy[i] = line[i]
    BY <2>1, <2>3
  <2>5. M!String(copy, t) = SubSeq(copy, t, (W + 1) - 1)
    <3> HIDE DEF W
    <3>1. copy[W + 1] = "nul"
      BY <2>1
    <3> QED BY <2>2, <2>3, <2>4, <3>1, StringIs
  <2>6. SubSeq(copy, t, (W + 1) - 1) = SubSeq(line, t, (W + 1) - 1)
    BY <2>1, <2>2, <2>3, <2>4, SamePiece
  <2> QED BY <2>1, <2>3, <2>5, <2>6 DEF Rest, t
<1> QED BY <1>2, <1>3

\* The invariant implies the property.
LEMMA InfoImplies == InfoInv => TailOfLine
<1> SUFFICES ASSUME InfoInv PROVE M!TailOfLine
  BY DEF TailOfLine
<1>1. M!TypeOK
  <2>1. buf \in [1 .. BUFLEN -> Cells] /\ copy \in [1 .. BUFLEN -> Cells] /\ BUFLEN \in Nat /\ INFO_MAXARG \in Nat
    BY InfoAssumption DEF InfoInv, Memory
  <2>2. Len(buf) = BUFLEN /\ Len(copy) = BUFLEN
    BY <2>1
  <2>3. InfoTyped(info)
    BY DEF InfoInv
  <2>4. info.argv \in Seq(1 .. BUFLEN) /\ info.tail \in 0 .. BUFLEN /\ Len(info.argv) <= INFO_MAXARG
    BY <2>1, <2>3 DEF InfoTyped
  <2>5. M!ToSet(info.argv) \subseteq 1 .. BUFLEN
    <3> DEFINE argv == info.argv
    <3>1. argv \in Seq(1 .. BUFLEN)
      BY <2>4
    <3> HIDE DEF argv
    <3>2. \A k \in DOMAIN argv : argv[k] \in 1 .. BUFLEN
      <4>1. DOMAIN argv = 1 .. Len(argv)
        BY <3>1, LenProperties
      <4>2. \A k \in 1 .. Len(argv) : argv[k] \in 1 .. BUFLEN
        BY <3>1, ElementOfSeq
      <4> QED BY <4>1, <4>2
    <3> QED BY <3>2 DEF M!ToSet, argv
  <2> QED BY <2>2, <2>4, <2>5 DEF M!TypeOK
<1>2. ASSUME NEW text \in M!TextAt(line)
      PROVE  /\ taken \o M!Solid(M!String(copy, info.tail)) = M!Solid(SubSeq(line, text + 1, Len(line)))
             /\ LET before == {i \in M!Params(line) : i < text}
                    argv == info.argv
                IN  /\ Len(argv) = M!Cardinality(before) /\ M!ToSet(argv) \subseteq before
                    /\ \A k, m \in DOMAIN argv : k < m => argv[k] < argv[m]
                    /\ \A k \in DOMAIN argv :
                         M!String(copy, argv[k]) = SubSeq(line, argv[k], M!Strchr(line, argv[k], M!Space) - 1)
  <2>1. line # <<>>
    <3>1. ASSUME line = <<>> PROVE FALSE
      <4>1. Len(line) = 0
        BY <3>1
      <4>2. text \in 2 .. Len(line) + 1
        BY DEF M!TextAt, M!Params
      <4> QED BY <4>1, <4>2
    <3> QED BY <3>1
  <2> DEFINE argv == info.argv
  <2>2. Listed(argv, line, text) /\ argv \in Seq(1 .. BUFLEN)
    <3>1. InfoTyped(info) /\ Given(line, text)
      BY <2>1 DEF InfoInv
    <3> QED BY <3>1 DEF Given, InfoTyped
  <2> HIDE DEF argv
  <2>3. DOMAIN argv = 1 .. Len(argv)
    BY <2>2
  <2>4. Len(argv) = M!Cardinality(Before(line, text))
    BY <2>2, InfoCardinality DEF Listed
  <2>5. \A k \in DOMAIN argv : argv[k] \in Before(line, text)
    BY <2>2, <2>3 DEF Listed
  <2>6. M!ToSet(argv) \subseteq Before(line, text)
    BY <2>5 DEF M!ToSet
  <2>7. \A k, m \in DOMAIN argv : k < m => argv[k] < argv[m]
    BY <2>2, <2>3 DEF Listed
  <2>8. ASSUME NEW k \in DOMAIN argv
        PROVE  M!String(copy, argv[k]) = SubSeq(line, argv[k], M!Strchr(line, argv[k], M!Space) - 1)
    BY <2>1, <2>5, ArgumentReads
  <2>9. taken \o M!Solid(M!String(copy, info.tail)) = M!Solid(SubSeq(line, text + 1, Len(line)))
    BY <2>1, TextReads
  <2> QED BY <2>4, <2>6, <2>7, <2>8, <2>9, Zenon DEF argv, Before
<1> QED BY <1>1, <1>2, Zenon DEF M!TailOfLine

\* Whatever lines came before and whatever a plugin has cut off, what it has taken and what is left are the
\* text of the line that is handled, and its arguments are the parameters of it (irc.c:279, util.c:228).
THEOREM InfoTailOfLine == M!Spec => []TailOfLine
BY InfoInit, InfoNext, InfoImplies, PTL DEF M!Spec

=============================================================================
