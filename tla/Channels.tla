------------------------------ MODULE Channels ------------------------------
(***************************************************************************)
(* The channel plugin src/join.c: its lists of channels and members, as    *)
(* the lines of the server and the orders of operators change them, and    *)
(* the timer that joins again.  src/qauth.c is the gate before any JOIN.   *)
(*                                                                         *)
(* The server is external.  Lines travel in order in both directions; a    *)
(* connection that breaks loses what is under way, but not what waits in   *)
(* the bot's own queue.  Keys, limits and the modes of channels are left   *)
(* out, and of the modes of members all but +o.                            *)
(***************************************************************************)
EXTENDS Integers, Sequences, SequencesExt

CONSTANTS
  Channel,
  Me,          \* the bot's nick
  Other,       \* nicks of other users
  Configured,  \* the channels in the "channel" entries of the configuration
  Heads,       \* those that come first in their entry
  MaxRetries,  \* max_retries
  MaxLines,    \* bound on the lines under way in one direction
  MaxTalk      \* bound on those under way to the bot when a user adds one

ASSUME ChannelsAssumption ==
  /\ IsFiniteSet(Channel) /\ Heads \subseteq Configured /\ Configured \subseteq Channel
  /\ Me \notin Other /\ "" \notin Other
  /\ {MaxRetries, MaxLines, MaxTalk} \subseteq Nat

VARIABLES
  \* the server
  srv,      \* Channel -> (its members -> has +o); the bot's own +o is not kept
  online,   \* the bot is registered there
  down,     \* lines to the bot
  up,       \* lines to the server
  \* the bot
  chans,    \* channels, by name: [retries, members], members as in srv
  qauth,    \* "none", or qauth.so "before" or "behind" join.so in the list of plugins
  authed,   \* qauth.authed
  \* ghosts
  ordered,  \* the channels that the configuration or the last order asks for
  doubt,    \* channels with an order that was crossed by lines under way, or cut off
  blind,    \* channels the bot was in when join.so was loaded anew
  mixed,    \* channels with a MODE line of both signs since the bot came
  vain      \* Channel -> JOINs that did not bring the bot in since the channel is
            \* in the list or was last heard of, counted up to MaxRetries

server == <<srv, online, down, up>>
bot == <<chans, qauth, authed>>
ghosts == <<ordered, doubt, blind, mixed, vain>>
channelsVars == <<server, bot, ghosts>>

Nick == Other \cup {Me}
Nobody == <<>>

With(f, x, y) == [z \in DOMAIN f \cup {x} |-> IF z = x THEN y ELSE f[z]]
Without(f, x) == [z \in DOMAIN f \ {x} |-> f[z]]

In(ch) == Me \in DOMAIN srv[ch]

Ordered(ch) == [what |-> "JOIN", ch |-> ch]
Parting(ch) == [what |-> "PART", ch |-> ch]
Joined(ch, nick) == [what |-> "JOIN", ch |-> ch, nick |-> nick]
Parted(ch, nick) == [what |-> "PART", ch |-> ch, nick |-> nick]
Kicked(ch, nick) == [what |-> "KICK", ch |-> ch, nick |-> nick]
Names(ch, members) == [what |-> "353", ch |-> ch, members |-> members]
Welcoming == [what |-> "001"]

UnderWay(line, pipe) == line \in ToSet(pipe)
Tell(lines) == Len(down \o lines) <= MaxLines /\ down' = down \o lines
Send(lines) == Len(up \o lines) <= MaxLines /\ up' = up \o lines

ChannelsInit ==
  /\ srv = [ch \in Channel |-> Nobody] /\ online = FALSE /\ down = <<>> /\ up = <<>>
  /\ chans = [ch \in Configured |-> [retries |-> 0, members |-> Nobody]]
  /\ qauth \in {"none", "before", "behind"} /\ authed = FALSE
  /\ ordered = Configured /\ doubt = {} /\ blind = {} /\ mixed = {}
  /\ vain = [ch \in Channel |-> 0]

-----------------------------------------------------------------------------
(* What join.c does with its lists.  cs is the list of channels. *)

\* channel_add
ChannelAdd(cs, ch) ==
  IF ch \in DOMAIN cs THEN cs ELSE With(cs, ch, [retries |-> 0, members |-> Nobody])

ChannelDel(cs, ch) == Without(cs, ch)

\* member_add: one who is there already stays as he is.
MemberAdd(c, nick, op) ==
  [retries |-> 0,
   members |-> IF nick \in DOMAIN c.members THEN c.members ELSE With(c.members, nick, op)]

\* Of a channel that is not in the list channel_find and member_find are NULL.
MemberDel(cs, ch, nick) ==
  IF ch \in DOMAIN cs THEN [cs EXCEPT ![ch].members = Without(@, nick)] ELSE cs

\* member_delall
MemberDelAll(cs, ch) == IF ch \in DOMAIN cs THEN [cs EXCEPT ![ch].members = Nobody] ELSE cs

\* Mutant: the new name is put beside the old one.
NickAdded(members, old, new) ==
  IF old \notin DOMAIN members THEN members
  ELSE IF new = "" THEN Without(members, old)
  ELSE With(members, new, members[old])

\* nickchange in one channel; no new name means that the user is gone.
NickChange(members, old, new) ==
  IF old \notin DOMAIN members THEN members
  ELSE IF new = "" THEN Without(members, old)
  ELSE With(Without(members, old), new, members[old])

NickChangeAll(cs, old, new) ==
  [ch \in DOMAIN cs |-> [cs[ch] EXCEPT !.members = NickChange(@, old, new)]]

\* channel_modes: the first sign of the line counts for all its letters.
ChannelModes(members, changes) ==
  [n \in DOMAIN members |->
     IF \E i \in DOMAIN changes : changes[i].nick = n THEN changes[1].plus ELSE members[n]]

\* irc_query("qauth", 1) is -1, which is true, when there is no such plugin.
GateOpen(a) == qauth = "none" \/ a

\* Mutant: the last try is not made.
OutTooFew(cs) == {ch \in DOMAIN cs : cs[ch].members = Nobody /\ cs[ch].retries < MaxRetries - 1}

\* The channels that try_rejoin(0) tries.
Out(cs) == {ch \in DOMAIN cs : cs[ch].members = Nobody /\ cs[ch].retries < MaxRetries}

JoinLines(S) == SetToSeq({Ordered(ch) : ch \in S})

\* Ghost: the JOINs of the bot and the answers to them among these lines were
\* in vain; of the channels in S they are counted anew.
InVain(lines, S) ==
  [ch \in Channel |->
     IF ch \in S THEN 0
     ELSE LET n == vain[ch] + Cardinality({i \in DOMAIN lines : lines[i] \in {Ordered(ch), Joined(ch, Me)}})
          IN IF n < MaxRetries THEN n ELSE MaxRetries]

-----------------------------------------------------------------------------
(* reply: one action for each kind of line. *)

Got(what) == down # <<>> /\ Head(down).what = what /\ down' = Tail(down)
line == Head(down)

\* Numeric 1.  Whichever of the two plugins comes first in the list acts first.
Welcome ==
  LET emptied == [ch \in DOMAIN chans |-> [chans[ch] EXCEPT !.members = Nobody]]
      open == GateOpen(authed /\ qauth # "before")
      joins == IF open THEN JoinLines(DOMAIN chans) ELSE <<>>
      auth == IF qauth = "none" THEN <<>> ELSE <<[what |-> "AUTH"]>>
  IN /\ Got("001")
     /\ chans' = IF open THEN [ch \in DOMAIN chans |-> [emptied[ch] EXCEPT !.retries = 0]] ELSE emptied
     /\ Send(IF qauth = "before" THEN auth \o joins ELSE joins \o auth)
     /\ authed' = FALSE /\ blind' = {} /\ mixed' = {}
     /\ vain' = IF qauth = "before" THEN vain ELSE InVain(<<>>, Channel)
     /\ UNCHANGED <<srv, online, qauth, ordered, doubt>>

LoggedIn ==
  /\ Got("NOTICE") /\ authed' = TRUE
  /\ UNCHANGED <<srv, online, up, chans, qauth, ghosts>>

UserJoined ==
  /\ Got("JOIN")
  /\ chans' = [ChannelAdd(chans, line.ch) EXCEPT ![line.ch] = MemberAdd(@, line.nick, FALSE)]
  /\ blind' = IF line.nick = Me THEN blind \ {line.ch} ELSE blind
  /\ vain' = InVain(<<>>, {line.ch})
  /\ UNCHANGED <<srv, online, up, qauth, authed, ordered, doubt, mixed>>

\* member_add for every name of a 353
AddAll(c, members) ==
  [retries |-> 0, members |-> [n \in DOMAIN c.members \cup DOMAIN members |->
     MemberAdd(c, n, IF n \in DOMAIN members THEN members[n] ELSE FALSE).members[n]]]

\* The request for the modes of the channel that follows is left out.
NamesCame ==
  /\ Got("353")
  /\ chans' = [ChannelAdd(chans, line.ch) EXCEPT ![line.ch] = AddAll(@, line.members)]
  /\ UNCHANGED <<srv, online, up, qauth, authed, ghosts>>

\* Mutant: the own PART only empties the channel.
PartedKeeps(cs, ch, nick) == IF nick = Me THEN MemberDelAll(cs, ch) ELSE MemberDel(cs, ch, nick)

UserPartedFrom(cs, ch, nick) ==
  IF nick = Me THEN ChannelDel(cs, ch) ELSE MemberDel(cs, ch, nick)

Fresh(ghost) == IF line.nick = Me THEN ghost \ {line.ch} ELSE ghost

UserParted ==
  /\ Got("PART")
  /\ chans' = UserPartedFrom(chans, line.ch, line.nick)
  /\ blind' = Fresh(blind) /\ mixed' = Fresh(mixed)
  /\ UNCHANGED <<srv, online, up, qauth, authed, ordered, doubt, vain>>

UserKicked ==
  /\ Got("KICK")
  /\ chans' = IF line.nick = Me THEN MemberDelAll(chans, line.ch) ELSE MemberDel(chans, line.ch, line.nick)
  /\ blind' = Fresh(blind) /\ mixed' = Fresh(mixed)
  /\ UNCHANGED <<srv, online, up, qauth, authed, ordered, doubt, vain>>

UserRenamed ==
  /\ Got("NICK") /\ chans' = NickChangeAll(chans, line.nick, line.new)
  /\ UNCHANGED <<srv, online, up, qauth, authed, ghosts>>

UserQuit ==
  /\ Got("QUIT") /\ chans' = NickChangeAll(chans, line.nick, "")
  /\ UNCHANGED <<srv, online, up, qauth, authed, ghosts>>

ModesChanged ==
  /\ Got("MODE")
  /\ chans' = IF line.ch \in DOMAIN chans
              THEN [chans EXCEPT ![line.ch].members = ChannelModes(@, line.changes)] ELSE chans
  /\ mixed' = IF \E i \in DOMAIN line.changes : line.changes[i].plus # line.changes[1].plus
              THEN mixed \cup {line.ch} ELSE mixed
  /\ UNCHANGED <<srv, online, up, qauth, authed, ordered, doubt, blind, vain>>

Receive ==
  \/ Welcome \/ LoggedIn \/ UserJoined \/ NamesCame \/ UserParted \/ UserKicked
  \/ UserRenamed \/ UserQuit \/ ModesChanged

-----------------------------------------------------------------------------
(* The timer, orders of operators and reloads.  An order comes by PRIVMSG: it *)
(* is taken at any point among the lines, which stands for a line of its own. *)

\* try_rejoin(0).  While offline the lines wait in the queue of irc.c.
Timer ==
  /\ GateOpen(authed) /\ Out(chans) # {} /\ Send(JoinLines(Out(chans)))
  /\ chans' = [ch \in DOMAIN chans |->
                 IF ch \in Out(chans) THEN [chans[ch] EXCEPT !.retries = @ + 1] ELSE chans[ch]]
  /\ doubt' = doubt \cup (Out(chans) \ ordered)
  /\ UNCHANGED <<srv, online, down, qauth, authed, ordered, blind, mixed, vain>>

Listening == online /\ ~UnderWay(Welcoming, down)

Doubtful(ch, crossed) == doubt' = IF crossed THEN doubt \cup {ch} ELSE doubt \ {ch}

\* "join": only the timer sends the JOIN.
OrderJoin(ch) ==
  /\ Listening
  /\ chans' = ChannelAdd(chans, ch)
  /\ ordered' = ordered \cup {ch}
  /\ Doubtful(ch, UnderWay(Parting(ch), up) \/ UnderWay(Parted(ch, Me), down))
  /\ vain' = InVain(<<>>, {ch} \ DOMAIN chans)
  /\ UNCHANGED <<server, qauth, authed, blind, mixed>>

\* "part"
OrderPart(ch) ==
  /\ Listening
  /\ chans' = ChannelDel(chans, ch) /\ Send(<<Parting(ch)>>)
  /\ ordered' = ordered \ {ch}
  /\ Doubtful(ch, UnderWay(Kicked(ch, Me), down))
  /\ UNCHANGED <<srv, online, down, qauth, authed, blind, mixed, vain>>

AboutIt(ch, pipe) == \E i \in DOMAIN pipe : "ch" \in DOMAIN pipe[i] /\ pipe[i].ch = ch

\* "preload join.so": destroy, and init with empty lists, in the same place in
\* the list of plugins.  The first init has put a NUL behind the first name of
\* every entry (join.c:208-215), and the names behind it are lost: in doubt.
\* qauth.so has no such action: its init would free a string of the
\* configuration for the second time (qauth.c:123).
ReloadJoin ==
  /\ Listening
  /\ chans' = [ch \in Heads |-> [retries |-> 0, members |-> Nobody]]
  /\ LET busy == {ch \in Channel : In(ch) \/ AboutIt(ch, down)}
     IN /\ blind' = busy
        /\ doubt' = busy \cup {ch \in Channel : AboutIt(ch, up)} \cup (Configured \ Heads)
  /\ ordered' = Configured /\ vain' = InVain(<<>>, Channel)
  /\ UNCHANGED <<server, qauth, authed, mixed>>

-----------------------------------------------------------------------------
(* The server and the users on it. *)

\* The suffix of the lines that was not sent in vain yet goes out after 001.
Connect ==
  /\ ~online /\ online' = TRUE
  /\ down' = <<Welcoming>>
  /\ \E k \in 0 .. Len(up) :
       up' = SubSeq(up, k + 1, Len(up)) /\ vain' = InVain(SubSeq(up, 1, k), {})
  /\ UNCHANGED <<srv, bot, ordered, doubt, blind, mixed>>

LoseConnection ==
  /\ online /\ online' = FALSE
  /\ srv' = [ch \in Channel |-> Without(srv[ch], Me)] /\ down' = <<>> /\ vain' = InVain(down, {})
  /\ doubt' = doubt \cup {ch \in Channel : UnderWay(Parting(ch), up) \/ UnderWay(Parted(ch, Me), down)}
  /\ UNCHANGED <<up, bot, ordered, blind, mixed>>

Takes(what) == online /\ up # <<>> /\ Head(up).what = what /\ up' = Tail(up)

\* A refusal is a numeric that no plugin reads, and so is the answer to a JOIN
\* of a member.
TakesJoin ==
  LET ch == Head(up).ch
  IN /\ Takes("JOIN")
     /\ \/ UNCHANGED <<srv, down>> /\ vain' = InVain(<<Head(up)>>, {})
        \/ /\ ~In(ch) /\ srv' = [srv EXCEPT ![ch] = With(@, Me, FALSE)]
           /\ Tell(<<Joined(ch, Me), Names(ch, srv'[ch])>>) /\ UNCHANGED vain
     /\ UNCHANGED <<online, bot, ordered, doubt, blind, mixed>>

TakesPart ==
  LET ch == Head(up).ch
  IN /\ Takes("PART")
     /\ IF In(ch)
        THEN srv' = [srv EXCEPT ![ch] = Without(@, Me)] /\ Tell(<<Parted(ch, Me)>>)
        ELSE UNCHANGED <<srv, down>>
     /\ UNCHANGED <<online, bot, ghosts>>

TakesAuth ==
  /\ Takes("AUTH") /\ (UNCHANGED down \/ Tell(<<[what |-> "NOTICE"]>>))
  /\ UNCHANGED <<srv, online, bot, ghosts>>

ServerTakes == TakesJoin \/ TakesPart \/ TakesAuth

\* The bot hears of a user while they share a channel.
TellIf(heard, lines) == IF heard THEN Tell(lines) ELSE UNCHANGED down
Shared(u) == \E ch \in Channel : {Me, u} \subseteq DOMAIN srv[ch]

Join(u, ch) ==
  /\ u \notin DOMAIN srv[ch] /\ srv' = [srv EXCEPT ![ch] = With(@, u, FALSE)]
  /\ TellIf(In(ch), <<Joined(ch, u)>>) /\ UNCHANGED doubt

Leave(u, ch) ==
  /\ u \in DOMAIN srv[ch] /\ srv' = [srv EXCEPT ![ch] = Without(@, u)]
  /\ TellIf(In(ch), <<Parted(ch, u)>>) /\ UNCHANGED doubt

Kick(n, ch) ==
  /\ n \in DOMAIN srv[ch] /\ srv' = [srv EXCEPT ![ch] = Without(@, n)]
  /\ TellIf(In(ch), <<Kicked(ch, n)>>)
  /\ doubt' = IF n = Me /\ UnderWay(Parting(ch), up) THEN doubt \cup {ch} ELSE doubt

Rename(u, new) ==
  /\ \E ch \in Channel : u \in DOMAIN srv[ch]
  /\ \A ch \in Channel : new \notin DOMAIN srv[ch]
  /\ srv' = [ch \in Channel |->
               IF u \in DOMAIN srv[ch] THEN With(Without(srv[ch], u), new, srv[ch][u]) ELSE srv[ch]]
  /\ TellIf(Shared(u), <<[what |-> "NICK", nick |-> u, new |-> new]>>) /\ UNCHANGED doubt

Quit(u) ==
  /\ \E ch \in Channel : u \in DOMAIN srv[ch]
  /\ srv' = [ch \in Channel |-> Without(srv[ch], u)]
  /\ TellIf(Shared(u), <<[what |-> "QUIT", nick |-> u]>>) /\ UNCHANGED doubt

\* One line changes one user, or two with one sign each.
Mode(ch, changes) ==
  /\ \A i \in DOMAIN changes : changes[i].nick \in DOMAIN srv[ch]
  /\ srv' = [srv EXCEPT ![ch] =
               [n \in DOMAIN @ |-> IF \E i \in DOMAIN changes : changes[i].nick = n
                                   THEN (CHOOSE c \in ToSet(changes) : c.nick = n).plus ELSE @[n]]]
  /\ TellIf(In(ch), <<[what |-> "MODE", ch |-> ch, changes |-> changes]>>) /\ UNCHANGED doubt

Users ==
  /\ Len(down) < MaxTalk
  /\ \/ \E u \in Other, ch \in Channel :
          \/ Join(u, ch)
          \/ Leave(u, ch)
          \/ \E sign \in BOOLEAN : Mode(ch, <<[plus |-> sign, nick |-> u]>>)
          \/ \E v \in Other \ {u}, sign \in BOOLEAN :
               Mode(ch, <<[plus |-> sign, nick |-> u], [plus |-> ~sign, nick |-> v]>>)
     \/ \E n \in Nick, ch \in Channel : Kick(n, ch)
     \/ \E u \in Other, new \in Other : Rename(u, new)
     \/ \E u \in Other : Quit(u)
  /\ UNCHANGED <<online, up, bot, ordered, blind, mixed, vain>>

-----------------------------------------------------------------------------
ChannelsNext ==
  \/ Receive \/ Timer \/ ReloadJoin
  \/ \E ch \in Channel : OrderJoin(ch) \/ OrderPart(ch)
  \/ Connect \/ LoseConnection \/ ServerTakes \/ Users

ChannelsSpec == ChannelsInit /\ [][ChannelsNext]_channelsVars

\* The loop hands over every line, the server answers, and the timer runs again
\* and again: it is off only while MaxLines keeps it off.
ChannelsFairSpec == ChannelsSpec /\ WF_channelsVars(Receive) /\ WF_channelsVars(ServerTakes) /\ SF_channelsVars(Timer)

-----------------------------------------------------------------------------
Quiet == up = <<>> /\ down = <<>>

\* The +o of every other member is what the server says (join.c:251-368 with the
\* prefixes of 353), but in channels with a MODE line of both signs.
OpsAgree ==
  \A ch \in DOMAIN chans \ mixed, u \in Other :
    u \in DOMAIN chans[ch].members \cap DOMAIN srv[ch] => chans[ch].members[u] = srv[ch][u]

\* When nothing is under way, the members the bot lists are those of the server
\* with their +o (join.c:490-578, all the lines together), but in channels it was in when
\* join.so was loaded anew: their members are never asked for again.
ViewAgrees ==
  online /\ Quiet =>
    /\ \A ch \in Channel \ blind :
         IF In(ch) THEN ch \in DOMAIN chans /\ DOMAIN chans[ch].members = DOMAIN srv[ch]
         ELSE ch \in DOMAIN chans => chans[ch].members = Nobody
    /\ OpsAgree

\* And the list holds the channels the configuration and the last orders ask
\* for (join.c:549-567, 512-514), unless an order and lines under way crossed.
OrdersKept == Quiet => DOMAIN chans \ doubt = ordered \ doubt

\* A channel in the list is joined again until the bot is in it, or until
\* max_retries JOINs were in vain since the channel came into the list, since a
\* JOIN in it was last heard and since the session began (join.c:383-397, 91),
\* unless join.so is loaded anew for ever.
\* Every JOIN is counted: one the server refuses, one sent while the bot is in
\* without knowing, one that is lost or whose answer is.  With qauth.so before join.so numeric 1
\* finds the gate shut, and those of the sessions before are counted too.
Rejoins ==
  <>[][~ReloadJoin]_channelsVars =>
    \A ch \in Channel :
      (ch \in DOMAIN chans /\ online /\ GateOpen(authed))
        ~> In(ch) \/ vain[ch] = MaxRetries \/ ch \notin DOMAIN chans \/ ~online \/ ~GateOpen(authed)

=============================================================================
