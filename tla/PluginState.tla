---------------------------- MODULE PluginState ----------------------------
(***************************************************************************)
(* Four of the plugins that keep state of their own, beside the database   *)
(* of auth.so, and what all of them are told of a line, for any values of  *)
(* their parameters: nick.so, reminder.so, eliza.so and yx.so.  None looks *)
(* at the variables of another.                                            *)
(***************************************************************************)
EXTENDS UserDb, Lists

CONSTANTS
  MaxNick, TakenNicks, MaxLines,                          \* Nick
  Person, Offline,                                   \* Reminder and Eliza
  Nickname, MAX_TIMER, MaxDuration, Minute, Hour, Word, Late          \* Reminder
CONSTANTS                                            \* Eliza
  Partner, Channel, Texts, KnowledgeFile, CONV_TIMEOUT, MaxDelay, MaxAnswers, MaxConversations
CONSTANTS Slots, Sleeps                              \* Yx
CONSTANTS Token, ServerLine, BUFLEN, INFO_MAXARG, Me, Commands                \* MessageInfo

\* There are nicks up to the last one, which no other user has.
ASSUME NickAssumption == MaxNick \in Nat /\ TakenNicks \subseteq 0 .. MaxNick - 1 /\ MaxLines \in Nat

\* Who is not there has no nick.  Products of durations are those of the machine.
ASSUME ReminderAssumption ==
  /\ Offline \notin Nickname /\ MAX_TIMER \in Nat /\ MaxDuration \in Nat
  /\ {Minute, Hour, Late} \subseteq Nat /\ Word \in Nat \ {0}

ASSUME ElizaAssumption == Offline \notin Partner /\ CONV_TIMEOUT \in Nat /\ MaxDelay \in Nat \ {0}

ASSUME YxAssumption == Slots \in Nat \ {0} /\ Sleeps \subseteq Nat

\* A line is made of words, spaces and colons and fits into a buffer; a plugin compares with words.
ASSUME InfoAssumption ==
  /\ BUFLEN \in Nat \ {0} /\ INFO_MAXARG \in Nat
  /\ \A l \in ServerLine : l \in Seq(Token \cup {"space", "colon"}) /\ Len(l) \in 1 .. BUFLEN - 1
  /\ {"space", "colon", "nul"} \cap Token = {} /\ {Me} \cup Commands \subseteq Token

VARIABLES own, user, others, up, down, me, wanted, rested, wish, forgotten           \* Nick
VARIABLES called, present, listening, reminders, remindercnt, given       \* Reminder
VARIABLES named, member, joined, conversations, answers, kb, sane, told           \* Eliza
VARIABLES now, cur_state, left, ran, said, since                          \* Yx
VARIABLES buf, copy, info, line, taken                                    \* MessageInfo

N == INSTANCE Nick WITH Taken <- TakenNicks

R == INSTANCE Reminder WITH Nick <- Nickname, nick <- called, member <- present

E == INSTANCE Eliza WITH Nick <- Partner, Files <- KnowledgeFile, nick <- named, alive <- sane

Y == INSTANCE Yx WITH Hour <- Slots

M == INSTANCE MessageInfo WITH Lines <- ServerLine, tmp <- copy

-----------------------------------------------------------------------------
\* The properties, stated and explained in the modules of the plugins: nick.c:44
KnowsName == N!KnowsName
\* reminder.c:98, 114
ReachesOwner == R!ReachesOwner
\* eliza.c:551
GoneForgotten == E!GoneForgotten
\* yx.c:82
Recovers == Y!Recovers
\* irc.c:279
TailOfLine == M!TailOfLine
=============================================================================
