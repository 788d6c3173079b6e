-------------------------------- MODULE Nick --------------------------------
(***************************************************************************)
(* The bot's nick: what src/nick.c takes it for while renames, refusals    *)
(* and the timer cross on their way, and how it gets a nick back that was  *)
(* in use.  irc_conn of src/irc.c forgets the nick with the connection.    *)
(*                                                                         *)
(* The server and the other users are external.  Nicks are numbers: n + 1  *)
(* is n with an underscore behind it, and 0 is the configured nick.        *)
(***************************************************************************)
EXTENDS Lists

CONSTANTS
  MaxNick,   \* the last nick
  Taken,     \* nicks that others may use; never the last one
  MaxLines   \* bound on the lines under way when a user or the timer adds one

NoNick == -1
Nick == 0 .. MaxNick
Configured == 0
User == -2      \* the USER line among the NICK lines

VARIABLES
  \* the server
  own,       \* the nick it has for the bot, NoNick if it has taken none yet
  user,      \* the USER line has come
  others,    \* nicks in use by others
  up,        \* lines to the server: nicks asked for, or User
  down,      \* lines to the bot
  \* the bot
  me,        \* irc.me
  wanted,    \* wantednick
  rested,    \* RETRYFREQ has passed since lasttry
  \* ghosts
  wish,      \* the last nick that was ordered, or the configured one if that was refused later,
             \* unless the bot has had it since
  forgotten  \* another nick was refused since, a substitute as a rule, and is wanted instead

server == <<own, user, others, up, down>>
vars == <<server, me, wanted, rested, wish, forgotten>>

Welcome(n) == [what |-> "001", new |-> n]
Rename(old, new) == [what |-> "NICK", old |-> old, new |-> new]
InUse(n) == [what |-> "433", new |-> n]
Command(n) == [what |-> "PRIVMSG", new |-> n]

Registered == own # NoNick /\ user

Init ==
  /\ own = NoNick /\ user = FALSE /\ others \in SUBSET Taken
  /\ up = <<0, User>> /\ down = <<>>
  /\ me = NoNick /\ wanted = NoNick /\ rested = TRUE /\ wish = NoNick /\ forgotten = FALSE

-----------------------------------------------------------------------------
(* The server and the others *)

Room == Len(up) + Len(down) < MaxLines

Tell(line) == down' = Append(down, line)

\* The nick that the bot has already is passed over in silence.
ServerNick ==
  /\ up # <<>> /\ Head(up) # User /\ up' = Tail(up)
  /\ LET n == Head(up)
     IN  \/ n \in others /\ Tell(InUse(n)) /\ UNCHANGED <<own, wish>>
         \/ n = own /\ UNCHANGED <<down, own, wish>>
         \/ /\ n \notin others \cup {own}
            /\ own' = n /\ wish' = IF n = wish THEN NoNick ELSE wish
            /\ IF ~user THEN UNCHANGED down
               ELSE Tell(IF own = NoNick THEN Welcome(n) ELSE Rename(own, n))
  /\ UNCHANGED <<user, others, me, wanted, rested, forgotten>>

ServerUser ==
  /\ up # <<>> /\ Head(up) = User /\ up' = Tail(up)
  /\ user' = TRUE
  /\ IF own = NoNick THEN UNCHANGED down ELSE Tell(Welcome(own))
  /\ UNCHANGED <<own, others, me, wanted, rested, wish, forgotten>>

OtherComes(n) ==
  /\ n \notin others \cup {own} /\ others' = others \cup {n}
  /\ UNCHANGED <<own, user, up, down, me, wanted, rested, wish, forgotten>>

\* The QUIT is not looked at by the plugin.
OtherLeaves(n) ==
  /\ n \in others /\ others' = others \ {n}
  /\ UNCHANGED <<own, user, up, down, me, wanted, rested, wish, forgotten>>

\* Seen by the bot if it shares a channel with the other.
OtherRenames(n, m) ==
  /\ n \in others /\ m \notin others \cup {own}
  /\ others' = (others \ {n}) \cup {m}
  /\ \/ Registered /\ Room /\ Tell(Rename(n, m))
     \/ UNCHANGED down
  /\ UNCHANGED <<own, user, up, me, wanted, rested, wish, forgotten>>

\* An operator says "nick n" to the bot.
Order(n) ==
  /\ Registered /\ Room /\ Tell(Command(n))
  /\ UNCHANGED <<own, user, others, up, me, wanted, rested, wish, forgotten>>

-----------------------------------------------------------------------------
(* The bot *)

\* A wish that crosses an earlier one may be forgotten when that one's NICK comes: it does not count.
Quiet ==
  /\ \A i \in DOMAIN up : up[i] = User
  /\ \A i \in DOMAIN down : down[i].what = "NICK" => down[i].new # own

Wish(n) == wish' = (IF Quiet /\ n # own THEN n ELSE NoNick) /\ forgotten' = FALSE

Ask(n) == up' = Append(up, n) /\ rested' = FALSE

\* Mutant: the nick is taken from the configuration.
ReplyWelcomeFirst(line) ==
  /\ line.what = "001" /\ me' = 0
  /\ UNCHANGED <<up, wanted, rested, wish, forgotten>>

\* reply, numeric 1
ReplyWelcome(line) ==
  /\ line.what = "001" /\ me' = line.new
  /\ UNCHANGED <<up, wanted, rested, wish, forgotten>>

\* reply, NICK: of the bot, of the one who has the wanted nick, of somebody else
ReplyNick(line) ==
  /\ line.what = "NICK"
  /\ \/ /\ line.old = me
        /\ me' = line.new /\ wanted' = IF line.new = wanted THEN NoNick ELSE wanted
        /\ UNCHANGED <<up, rested>>
     \/ line.old # me /\ line.old = wanted /\ Ask(wanted) /\ UNCHANGED <<me, wanted>>
     \/ line.old \notin {me, wanted} /\ UNCHANGED <<up, me, wanted, rested>>
  /\ UNCHANGED <<wish, forgotten>>

\* reply, numeric 433: only while there is no nick at all.  Whatever nick is refused then takes the
\* place of the wanted one, also a substitute that of the nick it was for.
ReplyInUse(line) ==
  /\ line.what = "433"
  /\ IF me = NoNick
     THEN /\ Ask(line.new + 1) /\ wanted' = line.new
          /\ IF line.new = Configured THEN Wish(Configured) ELSE wish' = wish /\ forgotten' = (line.new # wish)
     ELSE UNCHANGED <<up, wanted, rested, wish, forgotten>>
  /\ UNCHANGED me

\* reply, PRIVMSG of an operator
ReplyOrder(line) ==
  /\ line.what = "PRIVMSG" /\ Ask(line.new) /\ wanted' = line.new
  /\ Wish(line.new)
  /\ UNCHANGED me

Reply ==
  /\ down # <<>> /\ down' = Tail(down)
  /\ LET line == Head(down)
     IN  ReplyWelcome(line) \/ ReplyNick(line) \/ ReplyInUse(line) \/ ReplyOrder(line)
  /\ UNCHANGED <<own, user, others>>

\* Mutant: the nick is asked for once.
TimerOnce ==
  /\ wanted # NoNick /\ rested /\ Room /\ Ask(wanted) /\ wanted' = NoNick
  /\ UNCHANGED <<own, user, others, down, me, wish, forgotten>>

Timer ==
  /\ wanted # NoNick /\ rested /\ Room /\ Ask(wanted)
  /\ UNCHANGED <<own, user, others, down, me, wanted, wish, forgotten>>

Rest == ~rested /\ rested' = TRUE /\ UNCHANGED <<server, me, wanted, wish, forgotten>>

\* irc_conn: what waits in the bot's own queue goes out on the new connection, before NICK and USER.
Reconnect ==
  /\ \E i \in 0 .. Len(up) :
       LET kept == Sublist(up, {j \in i + 1 .. Len(up) : up[j] # User})
       IN  Len(kept) < MaxLines /\ up' = kept \o <<0, User>>
  /\ own' = NoNick /\ user' = FALSE /\ down' = <<>> /\ me' = NoNick
  /\ UNCHANGED <<others, wanted, rested, wish, forgotten>>

Next ==
  \/ ServerNick \/ ServerUser
  \/ \E n \in Taken : OtherComes(n) \/ OtherLeaves(n) \/ \E m \in Taken : OtherRenames(n, m)
  \/ Reply \/ Timer \/ Rest \/ Reconnect
  \/ \E n \in Nick : Order(n)

\* Lines arrive, io_loop runs the timer and time passes; the others and the connection do as they like.
Fairness == WF_vars(ServerNick) /\ WF_vars(ServerUser) /\ WF_vars(Reply) /\ WF_vars(Timer) /\ WF_vars(Rest)

Spec == Init /\ [][Next]_vars /\ Fairness

-----------------------------------------------------------------------------
TypeOK ==
  /\ own \in Nick \cup {NoNick} /\ user \in BOOLEAN /\ others \subseteq Taken
  /\ {me, wanted, wish} \subseteq Nick \cup {NoNick} /\ rested \in BOOLEAN

\* Once everything under way has arrived the bot knows the nick the server has for it, however renames
\* of the bot and of others have crossed (nick.c:44).
KnowsName == TypeOK /\ (Registered /\ down = <<>> => me = own)

\* A nick that was ordered, or the configured one if it was in use on connecting, is had at last if it
\* stays free and the connection lasts (nick.c:35), unless the substitute was in use too: from then on
\* that one is asked for (nick.c:58-61), and the configured one not until the next connection.
NickRegained ==
  \A n \in Nick : ~<>[](wish = n /\ ~forgotten /\ Registered /\ n \notin others \cup {own})
=============================================================================
