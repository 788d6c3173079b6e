--------------------------------- MODULE Yx ---------------------------------
(***************************************************************************)
(* The plugin src/yx.c: the bot keeps hours.  In the morning and in the    *)
(* evening it is there (IRC), in between it has left (S3), at night it is  *)
(* out of work (KDF, and talks) or has to get up early (AMF).  A change    *)
(* sets the time of the next one from the clock as it is then, so a        *)
(* machine that was asleep puts the bot out of step for a while.           *)
(*                                                                         *)
(* The clock goes in slots; Hour of them are an hour.                      *)
(***************************************************************************)
EXTENDS Integers

CONSTANTS
  Hour,    \* slots of an hour
  Sleeps   \* for how many slots the machine may be suspended

Day == 24 * Hour

VARIABLES
  now,           \* time of the day
  cur_state,
  left,          \* slots to change_state; -1 when it has passed
  ran,           \* the timer has run in this slot
  said,          \* what it was that the bot said last in this slot: see Sayings
  \* ghost
  since          \* slots since the machine was suspended, Day at most

vars == <<now, cur_state, left, ran, said, since>>

\* rrand(m) minutes, in slots
Upto(m) == 0 .. ((m - 1) * Hour) \div 60

At(hour) == hour * Hour
HourNow == now \div Hour
MinNow == now % Hour

\* mktime, and a day more if that has passed
Until(slot) == IF slot <= now THEN slot + Day - now ELSE slot - now

\* init
Start(state, l) ==
  \/ /\ HourNow >= 20 \/ HourNow < 6
     /\ state = "KDF" /\ \E j \in Upto(20) : l = Until(At(6) + j)
  \/ /\ HourNow \in 11 .. 17
     /\ state = "S3" /\ \E j \in Upto(23) : l = Until(At(18) + MinNow + j)
  \/ /\ HourNow \in (6 .. 10) \cup {18, 19}
     /\ state = "IRC" /\ \E j \in Upto(10) : l = Until(At(IF HourNow < 14 THEN 11 ELSE 20) + j)

States == {"IRC", "S3", "AMF", "KDF"}

\* A word is said of its own accord, an answer to the command.
Sayings == {"nothing", "word", "answer"}

Init ==
  /\ now \in 0 .. Day - 1 /\ cur_state \in States /\ left \in 1 .. Day
  /\ Start(cur_state, left)
  /\ ran = TRUE /\ said = "nothing" /\ since = Day

Change(state, slot) == cur_state' = state /\ left' = Until(slot)

\* Mutant: who comes from the night goes on to the evening.
ChangeOfStateLate ==
  \/ /\ cur_state = "IRC" /\ HourNow < 14 /\ said' = "word"
     /\ \E j \in Upto(23) : Change("S3", At(18) + MinNow + j)
  \/ /\ cur_state = "IRC" /\ HourNow >= 14 /\ said' = "word"
     /\ \E s \in {"KDF", "AMF"}, j \in Upto(20) : Change(s, At(6) + j)
  \/ /\ cur_state \in {"S3", "AMF", "KDF"} /\ said' = "word"
     /\ \E j \in Upto(10) : Change("IRC", At(20) + j)

\* timer, past change_state
ChangeOfState ==
  \/ /\ cur_state = "IRC" /\ HourNow < 14 /\ said' = "word"
     /\ \E j \in Upto(23) : Change("S3", At(18) + MinNow + j)
  \/ /\ cur_state = "IRC" /\ HourNow >= 14 /\ said' = "word"
     /\ \E s \in {"KDF", "AMF"}, j \in Upto(20) : Change(s, At(6) + j)
  \/ /\ cur_state = "S3" /\ said' = "word"
     /\ \E j \in Upto(10) : Change("IRC", At(20) + j)
  \/ /\ cur_state \in {"AMF", "KDF"} /\ said' = "nothing"
     /\ \E j \in Upto(60) : Change("IRC", At(11) + MinNow + j)

Awake == cur_state \in {"IRC", "KDF"}

\* timer, before it: a word now and then
Chat == said' \in (IF Awake THEN {"nothing", "word"} ELSE {"nothing"}) /\ UNCHANGED <<cur_state, left>>

Timer ==
  /\ ~ran /\ ran' = TRUE
  /\ \/ left = -1 /\ ChangeOfState
     \/ left # -1 /\ Chat
  /\ UNCHANGED <<now, since>>

\* reply: somebody joins or talks
Reply == Awake /\ said' = "word" /\ UNCHANGED <<now, cur_state, left, ran, since>>

\* reply, "yx": how long the state will last, in any of them
Command == said' = "answer" /\ UNCHANGED <<now, cur_state, left, ran, since>>

\* The plugin is loaded again.
Reload ==
  /\ \E s \in States, l \in 1 .. Day : Start(s, l) /\ cur_state' = s /\ left' = l
  /\ said' = "nothing" /\ UNCHANGED <<now, ran, since>>

Later(slots) ==
  /\ now' = (now + slots) % Day
  /\ left' = IF left < slots THEN -1 ELSE left - slots
  /\ ran' = FALSE /\ said' = "nothing" /\ UNCHANGED cur_state

\* io_loop runs the timer at least once in a slot.
Tick == ran /\ Later(1) /\ since' = IF since = Day THEN Day ELSE since + 1

Suspend(slots) == ran /\ Later(slots) /\ since' = 0

Next == Timer \/ Reply \/ Command \/ Reload \/ Tick \/ \E d \in Sleeps : Suspend(d)

Spec == Init /\ [][Next]_vars

-----------------------------------------------------------------------------
TypeOK ==
  /\ now \in 0 .. Day - 1 /\ cur_state \in States /\ left \in -1 .. Day
  /\ since \in 0 .. Day /\ ran \in BOOLEAN /\ said \in Sayings

Within(from, to) == now \in At(from) .. At(to)

\* A day after the machine was suspended, however long that was and whenever, the bot keeps its hours
\* again: gone in the afternoon, when it does not say a word unless it is asked for its hours; at night
\* out of work (yx.c:86, 120).
Recovers ==
  /\ TypeOK
  /\ since = Day /\ ran =>
       /\ cur_state = "IRC" => Within(6, 13) \/ Within(18, 21)
       /\ cur_state = "S3" => Within(11, 20)
       /\ cur_state \in {"AMF", "KDF"} => Within(20, 24) \/ Within(0, 7)
       /\ Within(14, 17) => said # "word"
=============================================================================
