------------------------------ MODULE Reminder ------------------------------
(***************************************************************************)
(* The plugin src/reminder.c: messages put off to a later time.  It knows  *)
(* a user by the nick alone and follows the NICK lines it sees, so the     *)
(* module has people who come, go and rename beside it.                    *)
(*                                                                         *)
(* Times are relative: what is kept of a reminder is how long it is off.   *)
(* The texts are left out.  join.so, which tells who is in the channel, is *)
(* taken to be right (see Channels).                                       *)
(***************************************************************************)
EXTENDS Lists, SequencesExt, FiniteSets

CONSTANTS
  Person,
  Nick,
  Offline,     \* for the nick of a person who is not there
  MAX_TIMER,   \* reminders at a time
  MaxDuration, \* 31536000, the longest one in seconds
  Minute,      \* 60
  Hour,        \* 3600
  Word,        \* 2 ^ w, for the w bits of an unsigned long
  Late         \* bound on the seconds between two runs of the timer

VARIABLES
  nick,        \* what each person is called
  member,      \* who is in the channel
  listening,   \* the bot is connected and sees what the others do
  reminders,   \* [nick, channel, due]; newest first; ghosts: who set it, and whether he was seen ever since
  remindercnt,
  \* ghost
  given        \* what the last run of the timer has sent

people == <<nick, member, listening>>
vars == <<people, reminders, remindercnt, given>>

Present == {p \in Person : nick[p] # Offline}
Free == Nick \ {nick[p] : p \in Person}

Init ==
  /\ nick \in [Person -> Nick \cup {Offline}]
  /\ \A p, q \in Present : nick[p] = nick[q] => p = q
  /\ member \in SUBSET Present /\ listening = TRUE
  /\ reminders = <<>> /\ remindercnt = 0 /\ given = {}

-----------------------------------------------------------------------------
(* The plugin *)

\* The duration as it is stored, or -1: the product is that of two unsigned longs.
Seconds(n, unit) == LET d == (n * unit) % Word IN IF d > MaxDuration THEN -1 ELSE d

Durations == {Seconds(n, unit) : n \in 0 .. Word - 1, unit \in {1, Minute, Hour}} \ {-1}

\* reply, "reminder": refused when the table is full or the duration too long
Remind(p, inChannel, d) ==
  /\ p \in Present /\ listening /\ (inChannel => p \in member)
  /\ remindercnt < MAX_TIMER
  /\ reminders' = <<[nick |-> nick[p], channel |-> inChannel, due |-> d, by |-> p, seen |-> TRUE]>>
                  \o reminders
  /\ remindercnt' = remindercnt + 1 /\ given' = {}
  /\ UNCHANGED people

\* Mutant: the first reminder of the nick alone is changed.
RenamedFirst(rs, old, new) ==
  [i \in DOMAIN rs |->
     IF rs[i].nick = old /\ \A j \in 1 .. i - 1 : rs[j].nick # old
     THEN [rs[i] EXCEPT !.nick = new] ELSE rs[i]]

\* reply, NICK: all reminders of the old nick go to the new one
Renamed(rs, old, new) ==
  [i \in DOMAIN rs |-> IF rs[i].nick = old THEN [rs[i] EXCEPT !.nick = new] ELSE rs[i]]

\* Who the members of the channel are, by name; GET_USERLVL is -1 for others.
Here(n) == \E p \in member : nick[p] = n

\* timer: all that are due are sent, or dropped when their user is not in the channel
Timer(passed) ==
  LET after == [i \in DOMAIN reminders |-> [reminders[i] EXCEPT !.due = @ - passed]]
      due == {i \in DOMAIN after : after[i].due <= 0}
  IN  /\ given' = {[to |-> after[i].nick, by |-> after[i].by, seen |-> after[i].seen] :
                     i \in {i \in due : after[i].channel => Here(after[i].nick)}}
      /\ reminders' = Sublist(after, DOMAIN after \ due)
      /\ remindercnt' = remindercnt - Cardinality(due)
  /\ UNCHANGED people

\* destroy, and the plugin loaded again
Reload ==
  /\ reminders' = <<>> /\ remindercnt' = 0 /\ given' = {}
  /\ UNCHANGED people

-----------------------------------------------------------------------------
(* The people *)

Unseen(rs, lost) == [i \in DOMAIN rs |-> [rs[i] EXCEPT !.seen = @ /\ rs[i].by \notin lost]]

\* A NICK line reaches the bot if they share the channel.
Rename(p, n) ==
  /\ p \in Present /\ n \in Free
  /\ nick' = [nick EXCEPT ![p] = n]
  /\ reminders' = IF listening /\ p \in member THEN Renamed(reminders, nick[p], n)
                  ELSE Unseen(reminders, {p})
  /\ given' = {} /\ UNCHANGED <<member, listening, remindercnt>>

\* QUIT is not looked at; who comes back may have another nick.
Quit(p) ==
  /\ p \in Present
  /\ nick' = [nick EXCEPT ![p] = Offline] /\ member' = member \ {p}
  /\ reminders' = Unseen(reminders, {p})
  /\ given' = {} /\ UNCHANGED <<listening, remindercnt>>

Come(p, n) ==
  /\ p \notin Present /\ n \in Free
  /\ nick' = [nick EXCEPT ![p] = n]
  /\ given' = {} /\ UNCHANGED <<member, listening, reminders, remindercnt>>

Join(p) ==
  /\ p \in Present \ member /\ member' = member \cup {p}
  /\ given' = {} /\ UNCHANGED <<nick, listening, reminders, remindercnt>>

Part(p) ==
  /\ p \in member /\ member' = member \ {p}
  /\ given' = {} /\ UNCHANGED <<nick, listening, reminders, remindercnt>>

\* While the bot is away nobody is seen, and those who rename meanwhile are lost.
Disconnect ==
  /\ listening' = ~listening
  /\ given' = {} /\ UNCHANGED <<nick, member, reminders, remindercnt>>

Next ==
  \/ \E p \in Person :
       \/ \E inChannel \in BOOLEAN, d \in Durations : Remind(p, inChannel, d)
       \/ \E n \in Nick : Rename(p, n) \/ Come(p, n)
       \/ Quit(p) \/ Join(p) \/ Part(p)
  \/ \E passed \in 1 .. Late : Timer(passed)
  \/ Reload \/ Disconnect

Spec == Init /\ [][Next]_vars

-----------------------------------------------------------------------------
TypeOK ==
  /\ nick \in [Person -> Nick \cup {Offline}] /\ member \subseteq Present /\ listening \in BOOLEAN
  /\ \A i \in DOMAIN reminders : reminders[i] \in
       [nick : Nick, channel : BOOLEAN, due : Nat, by : Person, seen : BOOLEAN]
  /\ remindercnt \in Nat

\* The count is the number of reminders, so that the table neither overflows nor stays full
\* (reminder.c:60).
CountTrue == remindercnt = Len(reminders) /\ remindercnt <= MAX_TIMER

\* A reminder goes to the one who set it, under whatever nick by then, if the bot has seen all the
\* renames in between (reminder.c:114); and none is kept longer than a year, whatever the
\* multiplication made of its duration (reminder.c:98).
ReachesOwner ==
  /\ TypeOK /\ CountTrue
  /\ \A g \in given : g.seen => g.to = nick[g.by]
  /\ \A i \in DOMAIN reminders : reminders[i].due \in 0 .. MaxDuration
=============================================================================
