------------------------------- MODULE Eliza -------------------------------
(***************************************************************************)
(* The plugin src/eliza.c: whom it talks with, what it has yet to say, and *)
(* how conversations follow people who rename, leave or are thrown out,    *)
(* while the bot comes and goes itself.  ElizaText has the choice of an    *)
(* answer.                                                                 *)
(*                                                                         *)
(* Times are relative: a deadline is kept as the seconds left to it.  The  *)
(* people are external.                                                    *)
(***************************************************************************)
EXTENDS ElizaText, Lists

CONSTANTS
  Person,
  Nick,
  Offline,        \* for the nick of a person who is not there
  Channel,        \* channels the bot may be in
  Texts,          \* messages, each with what lies behind it in memory
  Files,          \* contents the knowledge file may have
  CONV_TIMEOUT,   \* seconds a conversation lasts without a word
  MaxDelay,       \* 3: an answer is due after at most so many seconds
  MaxAnswers,     \* bound on the answers that wait when one more is thought of
  MaxConversations \* bound on the conversations

VARIABLES
  nick,           \* what each person is called
  member,         \* pairs <<person, channel>>
  joined,         \* channels the bot is in
  conversations,  \* [nick, channel, left]; newest first; ghost: blind, nobody of that nick was there when it
                  \* was last kept up, or has left since where the plugin did not look
  answers,        \* [channel, of, left]; newest first
  kb,             \* syns and knows
  alive,
  \* ghost
  told            \* the last message, if an answer to it has been thought of, and the variant it is of

people == <<nick, member, joined>>
vars == <<people, conversations, answers, kb, alive, told>>

Present == {p \in Person : nick[p] # Offline}
Free == Nick \ {nick[p] : p \in Person}
Here(n, c) == \E p \in Present : nick[p] = n /\ <<p, c>> \in member

Init ==
  /\ nick \in [Person -> Nick \cup {Offline}]
  /\ \A p, q \in Present : nick[p] = nick[q] => p = q
  /\ member = {} /\ joined = {} /\ conversations = <<>> /\ answers = <<>>
  /\ kb \in {Load(f) : f \in Files} /\ alive = TRUE /\ told = {}

-----------------------------------------------------------------------------
(* The plugin *)

\* conv_find
Conv(c, n) == SelectInSeq(conversations, LAMBDA v : v.channel = c /\ v.nick = n)

\* conv_update
Update(c, n) ==
  LET v == [nick |-> n, channel |-> c, left |-> CONV_TIMEOUT, blind |-> ~Here(n, c)]
  IN  IF Conv(c, n) # 0 THEN [conversations EXCEPT ![Conv(c, n)] = v] ELSE <<v>> \o conversations

Bounded == Len(conversations') <= MaxConversations

Think(c, of, delay) == answers' = <<[channel |-> c, of |-> of, left |-> delay]>> \o answers

\* reply, a message to a channel: to a partner, or with the bot's nick in it ("mentioned"), or to the
\* bot ("addressed").  A variant without responses is a division by zero.
Message(p, c, to, text) ==
  /\ <<p, c>> \in member /\ c \in joined /\ Len(answers) < MaxAnswers
  /\ Conv(c, nick[p]) # 0 \/ to \in {"mentioned", "addressed"}
  /\ \E v \in Chosen(Words(text), kb.knows) :
       /\ told' = {[text |-> text, variant |-> v]}
       /\ IF v.resps = <<>>
          THEN alive' = FALSE /\ UNCHANGED <<answers, conversations>>
          ELSE /\ \E r \in ToSet(v.resps), d \in 0 .. MaxDelay : Think(c, r, d)
               /\ conversations' = Update(c, nick[p]) /\ UNCHANGED alive
  /\ Bounded /\ UNCHANGED <<people, kb>>

\* reply, "eliza c n" of an operator, in whatever channel the bot is: something to begin with, and the
\* conversation
Introduce(c, n) ==
  /\ Len(answers) < MaxAnswers
  /\ \/ kb.syns = <<>> /\ UNCHANGED answers
     \/ \E s \in ToSet(kb.syns), d \in 0 .. 1 : Think(c, s, d)
  /\ conversations' = Update(c, n)
  /\ Bounded /\ told' = {} /\ UNCHANGED <<people, kb, alive>>

\* reply, "uneliza c n": the first that is found
Uneliza(c, n) ==
  /\ Conv(c, n) # 0 /\ conversations' = Sublist(conversations, DOMAIN conversations \ {Conv(c, n)})
  /\ told' = {} /\ UNCHANGED <<people, answers, kb, alive>>

\* reply, NICK: every conversation of the old nick
Renamed(old, new) ==
  [i \in DOMAIN conversations |->
     IF conversations[i].nick = old THEN [conversations[i] EXCEPT !.nick = new] ELSE conversations[i]]

\* Mutant: the search ends with the first that is found.
DroppedFirst(n, channels) ==
  LET at == SelectInSeq(conversations, LAMBDA v : v.nick = n /\ v.channel \in channels)
  IN  IF at = 0 THEN conversations ELSE RemoveAt(conversations, at)

\* reply, QUIT and PART: every conversation of the nick, in all channels or in one
Dropped(n, channels) ==
  Sublist(conversations, {i \in DOMAIN conversations :
                            ~(conversations[i].nick = n /\ conversations[i].channel \in channels)})

Timer ==
  /\ answers' = Sublist(answers, {i \in DOMAIN answers : answers[i].left >= 0})
  /\ conversations' = Sublist(conversations, {i \in DOMAIN conversations : conversations[i].left >= 0})
  /\ told' = {} /\ UNCHANGED <<people, kb, alive>>

\* A deadline that has passed stays passed.
Pass ==
  LET Later(s) == [i \in DOMAIN s |-> [s[i] EXCEPT !.left = IF @ < 0 THEN @ ELSE @ - 1]]
  IN  /\ answers' = Later(answers) /\ conversations' = Later(conversations)
      /\ told' = {} /\ UNCHANGED <<people, kb, alive>>

\* destroy and init; the file may have changed
Reload ==
  /\ conversations' = <<>> /\ answers' = <<>> /\ kb' \in {Load(f) : f \in Files}
  /\ told' = {} /\ UNCHANGED <<people, alive>>

-----------------------------------------------------------------------------
(* The people, and what the plugin makes of their lines *)

Quietly == told' = {} /\ UNCHANGED <<answers, kb, alive>>

\* The bot sees a NICK or a QUIT of those it shares a channel with.
Seen(p) == \E c \in joined : <<p, c>> \in member

\* What the plugin is not told of, or does not look at, leaves the conversations of the nick.
Unseen(n, channels) ==
  [i \in DOMAIN conversations |->
     [conversations[i] EXCEPT !.blind =
        @ \/ (conversations[i].nick = n /\ conversations[i].channel \in channels)]]

Come(p, n) ==
  /\ p \notin Present /\ n \in Free /\ nick' = [nick EXCEPT ![p] = n]
  /\ Quietly /\ UNCHANGED <<member, joined, conversations>>

Join(p, c) ==
  /\ p \in Present /\ <<p, c>> \notin member /\ member' = member \cup {<<p, c>>}
  /\ Quietly /\ UNCHANGED <<nick, joined, conversations>>

Rename(p, n) ==
  /\ p \in Present /\ n \in Free /\ nick' = [nick EXCEPT ![p] = n]
  /\ conversations' = IF Seen(p) THEN Renamed(nick[p], n) ELSE Unseen(nick[p], Channel)
  /\ Quietly /\ UNCHANGED <<member, joined>>

Part(p, c) ==
  /\ <<p, c>> \in member /\ member' = member \ {<<p, c>>}
  /\ conversations' = IF c \in joined THEN Dropped(nick[p], {c}) ELSE Unseen(nick[p], {c})
  /\ Quietly /\ UNCHANGED <<nick, joined>>

Quit(p) ==
  /\ p \in Present /\ nick' = [nick EXCEPT ![p] = Offline] /\ member' = member \ ({p} \X Channel)
  /\ conversations' = IF Seen(p) THEN Dropped(nick[p], Channel) ELSE Unseen(nick[p], Channel)
  /\ Quietly /\ UNCHANGED joined

\* KICK is not looked at.
Kick(p, c) ==
  /\ <<p, c>> \in member /\ member' = member \ {<<p, c>>}
  /\ conversations' = Unseen(nick[p], {c})
  /\ Quietly /\ UNCHANGED <<nick, joined>>

\* The bot joins, is kicked or parts, or loses the connection: the conversations stay.
BotJoins(c) ==
  /\ c \notin joined /\ joined' = joined \cup {c}
  /\ Quietly /\ UNCHANGED <<nick, member, conversations>>

BotLeaves(channels) ==
  /\ channels # {} /\ joined' = joined \ channels
  /\ Quietly /\ UNCHANGED <<nick, member, conversations>>

Next ==
  /\ alive
  /\ \/ \E p \in Person :
          \/ \E c \in Channel :
               \/ \E to \in {"nobody", "mentioned", "addressed"}, t \in Texts : Message(p, c, to, t)
               \/ Join(p, c) \/ Part(p, c) \/ Kick(p, c)
          \/ \E n \in Nick : Come(p, n) \/ Rename(p, n)
          \/ Quit(p)
     \/ \E c \in Channel, n \in Nick : Introduce(c, n) \/ Uneliza(c, n)
     \/ \E c \in Channel : BotJoins(c) \/ (c \in joined /\ BotLeaves({c}))
     \/ BotLeaves(joined)
     \/ Timer \/ Pass \/ Reload

Spec == Init /\ [][Next]_vars

-----------------------------------------------------------------------------
TypeOK ==
  /\ nick \in [Person -> Nick \cup {Offline}] /\ member \subseteq Present \X Channel
  /\ joined \subseteq Channel
  /\ \A i \in DOMAIN conversations : conversations[i] \in
       [nick : Nick, channel : Channel, left : -1 .. CONV_TIMEOUT, blind : BOOLEAN]
  /\ \A i \in DOMAIN answers : answers[i].channel \in Channel /\ answers[i].left \in -1 .. MaxDelay

\* Nobody is spoken with any more who was seen to leave, by PART, QUIT or NICK, although a rename may
\* bring two conversations of one nick together and the bot goes and comes back itself (eliza.c:551, 556,
\* 563).  A conversation with nobody is one that nobody's part, quit or rename could end: its partner left
\* while the bot was away or was kicked, or was not there when an operator began it; and it has not been
\* kept up with somebody since.
GoneForgotten ==
  /\ TypeOK
  /\ \A i \in DOMAIN conversations :
       conversations[i].blind \/ Here(conversations[i].nick, conversations[i].channel)

\* The answer is one for the most urgent key that was said and for a variant no worse than one that has
\* the message word for word (eliza.c:497, 517) - if the text does not end in a separator: the words
\* behind such a text in memory are read as well, after its own (eliza.c:134).
ElizaReads ==
  \A t \in told :
    LET own == SubSeq(t.text, 1, SelectInSeq(t.text, LAMBDA cell : cell = Nul) - 1)
        words == SelectSeq(own, isword)
    IN  /\ IsPrefix(words, Words(t.text))
        /\ own # <<>> /\ isword(Last(own)) => Reads(t.variant, words, kb.knows)
=============================================================================
