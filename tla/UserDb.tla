------------------------------- MODULE UserDb -------------------------------
(***************************************************************************)
(* The user database, src/auth.c: the list of users in memory, who is      *)
(* logged in from where, and the file it is kept in.  storedb is modelled  *)
(* call by call, because the process may end between any two of them.      *)
(*                                                                         *)
(* A sender is the whole nick!user@host of a message.  Passwords and       *)
(* hashes are left out: an attempt has the right password or has not.      *)
(***************************************************************************)
EXTENDS Integers, Sequences

CONSTANTS
  Name,        \* names of users
  Sender,      \* senders of messages
  NoIdent,     \* the empty ident of a user who is not logged in
  Absent,      \* what is read from a file that does not exist
  FirstFile,   \* the databases an administrator may start with
  MaxUsers,    \* bound on registrations: none when the list is as long
  MaxCrashes,  \* bound on the ends of the process
  MaxStores    \* bound on the calls of storedb

NoAuth == 0
Nobody == 1
Op == 2
Master == 3

ASSUME UserDbAssumption ==
  /\ NoIdent \notin Sender
  /\ FirstFile \subseteq Seq([name : Name, level : Nobody .. Master]) \cup {Absent}
  /\ Absent \notin Seq([name : Name, level : Nobody .. Master])
  /\ {MaxUsers, MaxCrashes, MaxStores} \subseteq Nat

VARIABLES
  at,       \* "down", "unloaded" (the process runs without the plugin), "up" or "leaving" (in destroy)
  users,    \* the list: [name, level, ident]; ghost: found, the ident is what the memory held
  store,    \* where storedb is: "no", "open", "write", "closed" or "unlinked"
  file,     \* the database
  tmp,      \* its .tmp
  crashes,  \* ends of the process so far
  stores,   \* calls of storedb so far
  \* ghosts
  saved,    \* the list of the last storedb that has removed or replaced the database
  whole,    \* where that list is: "file" or "tmp"; "lost" once an error in it went unnoticed or
            \* storedb began anew over the only copy
  session   \* for each name the sender that gave its password last and has not logged out of it since

memory == <<at, users, session>>
disk == <<file, tmp, saved, whole>>
counts == <<crashes, stores>>
vars == <<memory, store, disk, counts>>

Record == [name : Name, level : Nobody .. Master]
User == [name : Name, level : Nobody .. Master, ident : Sender \cup {NoIdent}, found : BOOLEAN]

NoSession == [n \in Name |-> NoIdent]

\* What storedb writes of the users, and init reads.
Records(us) == [i \in DOMAIN us |-> [name |-> us[i].name, level |-> us[i].level]]

Init ==
  /\ at = "down" /\ users = <<>> /\ session = NoSession
  /\ store = "no" /\ crashes = 0 /\ stores = 0
  /\ file \in FirstFile /\ saved = file /\ tmp = Absent /\ whole = "file"

-----------------------------------------------------------------------------
(* Who is who *)

\* The users with a name, or logged in from a sender; finduser and findauth take the first.
Named(n) == {i \in DOMAIN users : users[i].name = n}
From(s) == {i \in DOMAIN users : users[i].ident = s}
First(is) == CHOOSE i \in is : \A j \in is : i <= j

\* query with AUTHCMD_GET
Query(s) == IF From(s) = {} THEN NoAuth ELSE users[First(From(s))].level

CheckAuth(s, level) == Query(s) >= level

Serving == at = "up" /\ store = "no"

CallStore == store' = "open" /\ stores < MaxStores /\ stores' = stores + 1

-----------------------------------------------------------------------------
(* reply: the commands of a private message *)

\* The new user is logged in at once.
Register(s, n) ==
  /\ Serving /\ Named(n) = {} /\ Len(users) < MaxUsers
  /\ users' = Append(users, [name |-> n, level |-> Nobody, ident |-> s, found |-> FALSE])
  /\ session' = [session EXCEPT ![n] = s]
  /\ UNCHANGED <<at, store, disk, counts>>

LogIn(n, s) == [users EXCEPT ![First(Named(n))] = [@ EXCEPT !.ident = s, !.found = FALSE]]

\* Mutant: the ident is set before the hashes are compared.
AuthEarly(s, n, right) ==
  /\ Serving /\ Named(n) # {}
  /\ users' = LogIn(n, s)
  /\ session' = IF right THEN [session EXCEPT ![n] = s] ELSE session
  /\ UNCHANGED <<at, store, disk, counts>>

\* An earlier login of the same sender stays, and may come first in the list.
Auth(s, n, right) ==
  /\ Serving /\ Named(n) # {} /\ right
  /\ users' = LogIn(n, s)
  /\ session' = [session EXCEPT ![n] = s]
  /\ UNCHANGED <<at, store, disk, counts>>

Logout(s) ==
  /\ Serving /\ From(s) # {}
  /\ LET i == First(From(s))
     IN  /\ users' = [users EXCEPT ![i] = [@ EXCEPT !.ident = NoIdent, !.found = FALSE]]
         /\ session' = [session EXCEPT ![users[i].name] = IF @ = s THEN NoIdent ELSE @]
  /\ UNCHANGED <<at, store, disk, counts>>

SetLevel(s, n, level) ==
  /\ Serving /\ CheckAuth(s, Master) /\ Named(n) # {} /\ level \in Nobody .. Master
  /\ users' = [users EXCEPT ![First(Named(n))].level = level]
  /\ UNCHANGED <<at, session, store, disk, counts>>

Promote(s, n) == Named(n) # {} /\ SetLevel(s, n, users[First(Named(n))].level + 1)

Demote(s, n) == Named(n) # {} /\ SetLevel(s, n, users[First(Named(n))].level - 1)

SaveAuth(s) ==
  /\ Serving /\ CheckAuth(s, Master)
  /\ CallStore
  /\ UNCHANGED <<memory, disk, crashes>>

-----------------------------------------------------------------------------
(* storedb, called by saveauth, destroy and init *)

\* What comes after storedb, whatever it returned: destroy frees the list.
Return ==
  /\ store' = "no"
  /\ IF at = "leaving"
     THEN at' = "unloaded" /\ users' = <<>> /\ session' = NoSession
     ELSE UNCHANGED memory
  /\ UNCHANGED counts

StoreOpen ==
  /\ store = "open"
  /\ store' = "write" /\ tmp' = <<>> /\ whole' = IF whole = "tmp" THEN "lost" ELSE whole
  /\ UNCHANGED <<memory, file, saved, counts>>

StoreRecord ==
  /\ store = "write" /\ Len(tmp) < Len(users)
  /\ tmp' = Append(tmp, Records(users)[Len(tmp) + 1])
  /\ UNCHANGED <<memory, store, file, saved, whole, counts>>

\* fopen fails, or fwrite does: then the new file is removed.
StoreFails ==
  /\ store \in {"open", "write"}
  /\ tmp' = IF store = "write" THEN Absent ELSE tmp
  /\ Return
  /\ UNCHANGED <<file, saved, whole>>

\* Mutant: the old database goes when the new one is opened.
StoreUnlinkFirst ==
  /\ store = "write" /\ store' = "closed" /\ file' = Absent
  /\ UNCHANGED <<memory, tmp, saved, whole, counts>>

\* The records are buffered and the result of fclose is not looked at: what is missing in tmp
\* then stays missing.
StoreClose ==
  /\ store = "write" /\ store' = "closed"
  /\ UNCHANGED <<memory, disk, counts>>

Replaced(place) == saved' = Records(users) /\ whole' = IF Len(tmp) = Len(users) THEN place ELSE "lost"

\* Neither unlink nor rename is asked whether it did what it should.
StoreUnlink ==
  /\ store = "closed" /\ store' = "unlinked"
  /\ \/ file' = Absent /\ Replaced("tmp")
     \/ UNCHANGED <<file, saved, whole>>
  /\ UNCHANGED <<memory, tmp, counts>>

StoreRename ==
  /\ store = "unlinked"
  /\ \/ file' = tmp /\ tmp' = Absent /\ Replaced("file")
     \/ UNCHANGED disk
  /\ Return

-----------------------------------------------------------------------------
(* init, destroy and the end of the process *)

\* adduser does not set the ident: it is whatever malloc found, be it some sender's or nobody's.
Garbage == Sender \cup {NoIdent}

Loaded(rs) ==
  {[i \in DOMAIN rs |-> [name |-> rs[i].name, level |-> rs[i].level, ident |-> g[i], found |-> TRUE]] :
     g \in [DOMAIN rs -> Garbage]}

OnDisk == IF file = Absent THEN <<>> ELSE file

HasMaster(rs) == \E i \in DOMAIN rs : rs[i].level >= Master

\* Without a master in the database the console is asked for one, whose name may be in use.
\* Without an answer there is no plugin.
Start ==
  /\ at \in {"down", "unloaded"} /\ store = "no"
  /\ \/ /\ HasMaster(OnDisk) /\ at' = "up" /\ users' \in Loaded(OnDisk)
        /\ UNCHANGED <<store, stores>>
     \/ /\ ~HasMaster(OnDisk) /\ at' = "up" /\ CallStore
        /\ \E n \in Name : users' \in Loaded(Append(OnDisk, [name |-> n, level |-> Master]))
     \/ ~HasMaster(OnDisk) /\ at' = "unloaded" /\ UNCHANGED <<users, store, stores>>
  /\ UNCHANGED <<session, disk, crashes>>

Destroy ==
  /\ Serving
  /\ at' = "leaving" /\ CallStore
  /\ UNCHANGED <<users, session, disk, crashes>>

\* Of the records in the buffer of stdio some may not have reached the file.
Crash ==
  /\ at # "down" /\ crashes < MaxCrashes
  /\ crashes' = crashes + 1
  /\ at' = "down" /\ users' = <<>> /\ session' = NoSession /\ store' = "no"
  /\ UNCHANGED <<disk, stores>>

Next ==
  \/ \E s \in Sender, n \in Name :
       Register(s, n) \/ Promote(s, n) \/ Demote(s, n) \/ \E right \in BOOLEAN : Auth(s, n, right)
  \/ \E s \in Sender : Logout(s) \/ SaveAuth(s)
  \/ StoreOpen \/ StoreRecord \/ StoreFails \/ StoreClose \/ StoreUnlink \/ StoreRename
  \/ Start \/ Destroy \/ Crash

Spec == Init /\ [][Next]_vars

-----------------------------------------------------------------------------
TypeOK ==
  /\ at \in {"down", "unloaded", "up", "leaving"}
  /\ users \in Seq(User) /\ session \in [Name -> Sender \cup {NoIdent}]
  /\ store \in {"no", "open", "write", "closed", "unlinked"}
  /\ file \in Seq(Record) \cup {Absent} /\ tmp \in Seq(Record) \cup {Absent}
  /\ saved \in Seq(Record) \cup {Absent} /\ whole \in {"file", "tmp", "lost"}
  /\ crashes \in 0 .. MaxCrashes /\ stores \in 0 .. MaxStores

\* Wherever the process ends and whichever call fails, the list of the last storedb that removed or
\* replaced the database is on the disk, whole (auth.c:117): in the database, or, from the unlink to the
\* rename and after a rename that failed, under the other name, and there until the next storedb opens
\* it to write.  It is lost if only fclose saw an error.
FileWhole ==
  /\ TypeOK
  /\ whole = "file" => file = saved
  /\ whole = "tmp" => tmp = saved /\ file = Absent

\* A sender has the level of a user whose password it gave last of all, without having logged out of it
\* since, although logins as several users, from several senders and reloads cross (auth.c:49) - or of a
\* user that nobody has logged in to since it was loaded: who that is taken for depends on what malloc
\* found (auth.c:80).
LevelEarned ==
  \A s \in Sender : Query(s) > NoAuth =>
    LET u == users[First(From(s))] IN u.found \/ session[u.name] = s
=============================================================================
