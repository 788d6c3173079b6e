# boskop-ng in TLA+

boskop-ng is an IRC bot in C: one process, one thread, one `poll` loop, and a
set of shared objects ("plugins") that are loaded, reloaded and unloaded while
it runs.  Nothing runs in parallel, but almost everything is asynchronous: a
connection, a DNS answer, a page over HTTP, a timer and a line of IRC text each
arrive in a callback, in an order nobody chose, and each callback may close,
reopen or free what another one is going to use.  The modules in this directory
model those orders.  `PROJECT.json` says for every definition which lines of the
source it translates; the source files are in `src/src`, the headers in
`src/include`.

Checking: `tlc -config MCX.cfg MCX.tla` for each run (`MCMain` has a second
configuration, `MCMainDaemon.cfg`), and `tlapm XProofs.tla` for the proofs, with `X` one of `List`, `Buffer`,
`SendQueue`, `IoLoop`, `Irc`, `Network`, `Main` and `PluginState`.

## Inventory

| Part | State it keeps | Operations | What makes it correct |
|---|---|---|---|
| Stream buffer, `buffer.c` | ring of bytes, read and write position, full and empty flag | put, get, peek, delete, map, findchr, clear | bytes come out once and in order; a write is all or nothing; flags and positions agree |
| Event loop, `io.c` | `iolist`, `timerlist`, `iocnt`; entries are marked and purged later | register, unregister, close, want read/write, set and unset timers, one turn of the loop | callbacks may change the lists that are being walked; events go to the socket they were polled for; a turn ends |
| Sockets, `sock.c` | per object: state, descriptor, host, two buffers | connect (by address or by name), write, read, disconnect, free | no descriptor leaks; an answer or an error is only acted on by the attempt it belongs to |
| DNS client, `dns.c` | list of queries, next name server, write interest | ask, cancel, timer, send, receive | the answer reaches who asked; a query ends; every server is asked |
| IRC core, `irc.c` | socket object, line queue, times of the last line and of the last data, `nextserv` | connect, register, send, read lines, time out | lines whole, once and in order, both ways; rate limit; another attempt after every failure |
| Main program, `main.c` | run level, configuration, `plugins_loaded` | start, fork, session, quit, restart, reload | a session has its plugins, its socket and a usable configuration |
| Configuration, `confpar.y`, `confsym.l` | sections of keys and values; the files that are open around the one that is read | parse (frees the old one first), include, get | what is asked is what the files say, however they include each other and whatever parse failed before; nobody keeps a string of a freed configuration |
| Lines, `irc_makeinfo` of `irc.c`, `tail_` functions of `util.c` | one `info_t`, one copy of the line | cut into arguments and text; command, next word, skip the nick | every plugin finds the text of this line, not of another |
| Plugin registry, `plugins.c`, `plugin.c` | list of plugins, their timers | load with dependencies, unload, reload, hand a line round | no plugin without its dependencies, no timer without its plugin, every plugin sees every line |
| Channels, `join.c`; gate, `qauth.c` | channels, their members with flags, retries; logged in or not | lines of the server, the timer, orders join and part | the view equals the server's; orders are kept; the bot comes back to its channels |
| Nick, `nick.c`, `nickserv.c` | `irc.me`, the wanted nick | numerics 1 and 433, NICK, a timer | the bot knows its nick and gets the wanted one back |
| User database, `auth.c`, `mycrypt.c` | users with level, password and current login; a file | register, login, logout, promote, demote, save | levels only as granted; the file survives a crash |
| HTTP client, `http.c`, and its users `rss.c`, `weather.c`, `search.c` | per request: socket, parser state, body | get, three callbacks, free | one callback per request, whatever ends it; body as framed |
| Reminders, `reminder.c` | a list with a counter | remind, NICK, timer | a reminder reaches who set it; the table neither overflows nor stays full |
| Eliza, `eliza.c` | knowledge file, conversations, delayed answers | talk, introduce, NICK, QUIT, PART, timer | the answer fits the text; who has left is forgotten |
| Hours of the bot, `yx.c` | state, time of the next change | timer, reload | the bot comes back to its hours after any sleep of the machine |
| Lisp, `lisp.c`, `scheme.c` | linked list of contexts, with both ends and a counter | new, delete, run, list; print values | the list is a table of names; values are written within the memory counted for them |
| Games on a server, `blinddate.c`, `horde.c` | two nicks; a channel and its key | hand a line on | wording only |
| Answering plugins (19 files) | none, or a table read at start | one line in, one line out | wording only |
| Hashes and random numbers | none | pure functions | standard algorithms |

How they interact: `io_loop` calls the callbacks of sockets, the resolver and the
plugins' timers.  A socket object calls `dns_addquery` and is called back by
`dns_canread`; it calls `irc_cb_conn`, `irc_cb_err` and `irc_cb_data`, which
cuts lines and hands each one to all plugins in turn.  A plugin answers with
`irc_send`, asks another one with `irc_query`, and may load and unload plugins or
set the run level, which makes `io_loop` return to `main`.

What is hard to test: callbacks in every order (a DNS answer after a
reconnect), lists changed under a walk, boundaries of two rings, loss, delay and
duplication of datagrams and connections, time (two time-outs, a rate limit, a
clock difference that overflows), partial failure while plugins load, and long
sequences of legal calls (restarts, reloads).  `PROJECT.json` lists these under
"hazards", at their lines, with the properties that cover them.

## Modules

| Module | Models | State and actions |
|---|---|---|
| `ByteStream` | the promise of a buffer: a bounded stream | the sequence of bytes; the last call with result and bytes |
| `BufferOps` | the functions of `buffer.c` on a record like `buffer_t` | operators, used by `Buffer` and `SendQueue` |
| `Buffer` | one buffer under every sequence of calls | one action per operation; refines `ByteStream` |
| `IoLoop` | `io.c` | the two lists, `iocnt`, `pollfd` array, cursor; a callback is a bounded number of calls |
| `Connection` | the socket object, reconnects, queries for it, run levels | one action per callback, all calls included; the peer and the resolver are external |
| `Resolver` | `dns.c` in detail, with time in seconds | queries with retries, phase and id; datagrams may be lost, doubled and late |
| `LineReader` | `bufsock_canread` and the line cutting of `irc_cb_data` | stream from the server in chunks of any size; `recvbuf` is a `ByteStream` |
| `SendQueue` | `irc_send` down to `send(2)` | line queue, ring (`BufferOps`), the kernel, seconds; `timediff` with its width |
| `Main` | `main.c` | per process: place, run level, configuration, plugins, socket, `nextserv` |
| `Plugins` | `plugins.c`, `plugin.c` and the walk over the list in `irc_cb_data` | registry, timers, cursor of the walk |
| `Channels` | `join.c`, the gate of `qauth.c` | the server's channels, lines under way in both directions, the bot's lists |
| `Http` | `http.c` and the requests of `rss.c`, `search.c`, `weather.c` | one request: its stage, the parser's fields, `recvbuf`, the answer under way; the parser as operators on the request |
| `UserDb` | `auth.c`, storedb call by call | list of users, who gave which password last, the file and its `.tmp`; the process may end between any two calls, and each call may fail |
| `Nick` | `nick.c`, the reset in `irc_conn` | the bot's nick and wish, lines under way in both directions; server and other users external |
| `Reminder` | `reminder.c` | list and counter; people who come, go, rename, join and part beside it |
| `ElizaText` | how `eliza.c` reads its knowledge file and a text, and chooses | operators on words and variants |
| `Eliza` | the rest of `eliza.c` | conversations and answers that wait, with the seconds left to them; people as above, and the channels the bot is in |
| `Yx` | `yx.c` | time of day, state, slots to the next change, what was said last |
| `Contexts` | the promise of the Lisp commands: a table of names | the names in order, the slots that reloads have lost, the last answer |
| `LispPrint` | the two passes of `fmt_data_rec` | operators on values |
| `Lisp` | `lisp.c`, the interpreter external | heap of nodes, both ends of the list, counter; refines `Contexts` |
| `MessageInfo` | `irc_makeinfo`, `tail_cmd`, `tail_getp`, `skip_nick` | the buffers as cells, pointers as indices; one action per call |
| `Config` | `confpar.y`, `confsym.l` | files in blocks, the include list and the buffers of flex, the tree |
| `Lists` | the walk of `list.h` that deletes on its way, a list taken item by item | two operators, used by `IoLoop`, `Resolver`, `Plugins` and the plugins with lists |
| `PluginState` | `UserDb` beside `Nick`, `Reminder`, `Eliza`, `Yx` and `MessageInfo` | their variables and constants; the properties of the five by their names |
| `BufferProofs`, `SendQueueProofs`, `IoLoopProofs` | theorems about the module each is named after | |
| `IrcProofs` | theorems about `Connection` and `Channels` | |
| `MainProofs` | theorems about `Main`, `Plugins` and `Http` | |
| `PluginStateProofs` | theorems about the six modules of `PluginState` | |
| `NetworkProofs` | theorems about `Resolver` and `LineReader`, which have no name in common | |
| `ListProofs` | lemmas about lists, cited in the others | |

`MCX` instantiates `X` for TLC.  `MCPluginState` adds three modules to the six of `PluginState`: no two of them look
at the same variable, so a variable `part` says which one moves, and each is explored by itself from all its
first states.  `Buffer` is shown to implement `ByteStream`, `Lisp` to implement `Contexts`.
`LineReader` is built on `ByteStream` instead of the ring, and `Http` does the same with its own two operators; `SendQueue` uses the
ring itself, since the partial writes of `send` go through `buffer_map`, which is
where ring and stream differ.  `Connection` assumes of the resolver that a query
ends within one tick (half a minute): `ResolverEveryNameServerAsked` proves 27 seconds.
The type invariant of a module is the first part of one of its safety invariants.

Some operators carry a sibling commented `Mutant:`, a plausible error.  Put in place
of the operator after it, the property named in `PROJECT.json` fails: each property
can be broken by a mistake in the code it is about.

## Runs

| Run | Instance | What it shows |
|---|---|---|
| `buffer` | ring of 3, two bytes, writes of up to 4 | positions and flags agree; the ring is a bounded stream, with the loss on reading a full buffer stated in `ByteStream` |
| `io_loop` | 2 descriptors, 1 timer that may be set several times, 4 list entries, 2 calls per callback | what owners hold is what the loop serves, also when a socket is closed and its number reused within a turn; a timer is called for every time it is set; the walk neither stands on freed memory nor leaves the step with `fds`; a turn ends |
| `connection` | 2 servers, one by name and one by address, silent servers, IPv6 | no socket leaks; the bot talks to the server it chose; no query outlives its owner; it never stays offline; every server is tried |
| `resolver` | 2 requesters, 2 names, 2 ids, 2 name servers, one answer under way | right answers, lives of at most 27 s, every name server asked |
| `line_reader` | ring of 5, lines of 0, 1 and 3 bytes, line buffer of 2, bursts of up to 8 | every line once, in order, whole up to the line buffer, unless `Size` bytes waited at once |
| `send_queue` | 5 lines of 1 or 2 bytes, 2 connections, ring of 4 | conservation, rate limit, no muteness, delivery |
| `main` | configurations of 0 to 3 servers | sessions are complete; a missing server is only asked for after a reload; the configuration is read while no plugin is loaded |
| `main_daemon` | as above, 1 server | with `-d` no process is left: expected to fail, see below |
| `plugins` | 7 plugins, the dependencies of five real ones and a circle | dependencies and timers of what is loaded; no plugin misses a line |
| `channels` | 1 channel, 2 users, 2 retries | the bot's view equals the server's, orders are kept, a channel is joined again until as many `JOIN`s were in vain as the bot makes tries |
| `plugin_state` | 2 users, 2 senders, 1 crash, 2 calls of storedb; 3 nicks of which others use 2; 2 reminders, 2 people, 3 nicks; 2 knowledge files, 7 texts, 2 conversations; 3 contexts, 11 inputs; hours of 2 slots; 9 lines; 2 files with 12 contents | the database is whole wherever the process ends, or under its other name when a call failed, and a level is that of a user whose password was given last; the bot knows its nick and gets the wanted one back; reminders reach their owners; who is seen to leave is forgotten by Eliza, and her answers fit; the Lisp contexts are a table and values are written as lists; the bot recovers its hours; plugins get the text of the line; a configuration is what the files say |
| `http` | pages of 0 to 3 bytes by length, in chunks, or to the end; ring of 10 | the plugin is told the status and body that were sent, however the answer is split; a broken page is not handed over; it is told as soon as the answer has come |

Why the bounds are enough:

- *Rings.*  Three to five cells give all relations of the two positions: empty, full,
  wrapped, an exact fit, a refused write.  The proofs about `Buffer`, `LineReader` and `SendQueue` have no bound.
- *Event loop.*  A descriptor that closes, one that opens with its number, one
  entry that is marked and one that is live make four entries; two calls in one callback
  are a close and an open.  The proofs have no bound.
- *Connection.*  The number of servers enters only modulo; with one by name and one by
  address each kind of attempt follows each.  Time is counted in half minutes
  since only the order of three times matters: the life of two queries, for an IPv6 address and then for another,
  <= `CONNTIMEOUT` (54 and 360 seconds), PINGs more often than `CONNTIMEOUT`.  The proofs are for any number of servers.
- *Resolver.*  Two queries are enough for one to get the other's answer and to
  compete for the name servers.  Two ids are so few that one is drawn again while an answer to
  its former query is under way.  The proofs are for any number of queries and name servers.
- *Send queue.*  `HalfRange` is the range of an `int` of microseconds, scaled to three
  seconds; `Delay` is scaled to one.
- *Channels.*  Channels do not influence each other but through one walk over the list.  Two users
  give a rename and a `MODE` line of two signs.  Two retries make the second one differ from the first and from the
  last.  The configured channel does not come first in its entry (`Heads`), so that loading `join.so` anew loses it.  Users speak when nothing is under way to
  the bot (`MaxTalk`); orders, the timer and the server's answers cross freely.  The proofs have no bound.
- *HTTP.*  The parser is entered anew at every split of every answer.  A ring of ten cells holds all
  short answers and not the two-chunk ones, so that it fills up within a header line, a body and a chunk.  The proofs have no bound.
- *Users.*  Two names and two senders give a login as two users at once and as one from two places. Two calls
  of storedb with an end of the process in between reach a stale `.tmp`.  At first there is no file or one without a master, so that the
  console is asked; a file of two users with a master is what a restart then finds, and the ident of each may be any sender's.  The proofs have no bound.
- *Nick.*  Nicks are numbers, `n + 1` is `n` with an underscore; the last one is never taken, so that a refused nick
  is followed by another.  Three lines under way are enough for a wish, an older one and a rename to cross.
- *Reminder.*  A minute has 2 seconds, an hour 4, and an `unsigned long` holds 3 values, so that the product wraps
  and is also over `MaxDuration` without wrapping.
- *Eliza.*  Two people and three nicks swap and inherit nicks; a second conversation of one nick needs a rename.  One channel, which
  the bot joins and leaves any number of times.
- *Lisp.*  Deleting from three nodes has a first, a middle and a last one, and `malloc` may give any free cell again.
- *Yx.*  The five lengths of sleep end before, within and after the next change, and after the one behind it. Clock times are in slots of
  half an hour.
- *Lines.*  Two arguments, and lines with none, one and more than the table holds, with and without prefix and text.
- *Configuration.*  A block of 3 items is shorter than the main file and longer than some of the included ones; with
  `MaxIncludes = 1` a file that includes its includer, or what a failed parse has left, reaches the limit.

### Fairness

`Spec` has none; liveness is checked under `FairSpec` (`FairReaderSpec` of `LineReader`, `ChannelsFairSpec` of `Channels`).

- `io_loop` calls a ready descriptor and every due timer in each turn, so callbacks
  and timers are weakly fair, and time passes (`Tick`).
- `Connection` takes `IrcTimer` and the ends of handshakes as weakly fair, and two
  strong conditions: an attempt to connect at start, and one after a time-out, succeed in
  getting under way now and then, that is, the machine's own network is not down at
  every single attempt.  Servers need not accept.
- `SendQueue` and `LineReader` have strong fairness for `Send` and `Recv`: the kernel may
  say `EAGAIN` any number of times, but not for ever.
- `Nick` takes lines in both directions, the timer and the passing of `RETRYFREQ` as weakly fair.  Other users and the
  connection do as they like; `NickRegained` asks only for behaviours in which the nick stays free
  and the connection lasts from some time on.
- `Channels` has strong fairness for the timer, because `MaxLines`, which the
  code does not have, can disable it; the server handles every line, and may refuse
  every `JOIN`.

## Proofs

Each theorem says of a property that a run checks on an instance that it holds for every value of the constants.  In
each module an invariant is strengthened until every step keeps it, with a lemma for every action; the theorems
only put them together.  The invariants were checked with TLC before they were proved.

`ListProofs` has what all of them need.  Induction is a fact about a set of numbers there (`Inductive`, `InductiveUpTo`),
and what a recursive function computes is described by a relation that is kept from each position to the next: `SublistIs`
(a walk that deletes leaves the others, in order), `FlattenAppend` and `FlattenHeadTail` (lines behind one another),
`WalkExists`, `CountIs`.

`BufferProofs`, for every size, alphabet and length of writes: `BufferFlagsAgree`, `BufferMapOffersStream` and
`BufferImplementsStream`.  The invariant is `Consistent` (typed, not both full and
empty, positions meet exactly when one of the flags is set), lifted to the variable.
`FlagsAgree` alone is not inductive: without the types the sums modulo
`Size` say nothing.  All arithmetic goes through the two lemmas `ModOnce` and
`GapInRing`; every operation has a lemma that it keeps a buffer consistent, and one that says what it does to the
content of the ring.  With these the refinement is proved step by step: the empty ring is the empty stream, and each operation is the
operation of `ByteStream` of the same name.

`SendQueueProofs`, for any lines, delays and connections: `SendQueuePaced` and `SendQueueConservation`.  What is proved
about buffers is used for the ring by `INSTANCE`.  `Rhythm` adds to the pace what the code relies on: as long as nothing has
overflowed, `since` is the time since the last line, and lines wait only as long as that is at most the delay.
`Carries` says that what the kernel took, the ring and the queue, one behind the other, are the lines accepted, unless one of the
marked losses has occurred; the ring must start at cell 0 as long as no `send` was partial, or `buffer_map` would offer too much.

`IoLoopProofs`, for any numbers of descriptors, timers, entries and calls per callback: `IoLoopOwnersAgree`,
`IoLoopInStep` and `IoLoopNothingAddedBehind`.  `Served` says that each open descriptor has exactly one
live entry, and a timer one for every time it is set, which stand in front of its marked ones: otherwise unsetting could mark one
that is marked already.  That is what happens when one of several settings is unset (`thinned`), and then the timer has too many entries,
never too few.  `FdsInStep` says where the walk is: from its place on, the entries are those of `fds`, one by one.  A call in a callback
moves that place by one when it adds an entry in front, and by none otherwise; `io_purge` only runs between walks.

`IrcProofs`, for any number of servers, any of them by name or by address: `ConnectionOneSocket`,
`ConnectionTalksToChosenServer` and `ConnectionNoOrphanedQuery`.  The lemmas are about the record that a callback works on, function by
function.  `Held` and `Bound` tie the socket object to the socket table and the query; `Waits` says that there is at most one query.
A query may be pending when the silence of the server ends in a reconnect, unless the silence is no longer than that query and
the one before it have lived (`OnTime`): this needs `2 * QueryLife <= Timeout`.  With one query in the place of two,
`OnTime` is not an invariant.

For the channels, with any number of them, any users and any number of lines under way: `ChannelsViewAgrees` and `ChannelsOrdersKept`.  Neither
property says anything while lines are under way, so the invariants are about those.  A line says what the members of a
channel are when it is known what they were before (`RoomAfter`), and the server sends it only where it makes sense (`Legal`).  Thus the lines
to the bot tell a story of each channel, and `StoryOf` says that this story ends with the room the server has, and begins with one that the
bot's list agrees with, up to what a `PART` or `KICK` under way will end anyway.  The server only puts lines behind the story (`Says`), the
bot only takes its first one and does to its list what the line says (`Follows`); orders, the timer and reloads leave the beginning
right (`Fits`).  `OrderInv` says of a channel without doubt that is to be in that nothing under way takes it from the list, and of one that is to
be out that each of its `JOIN`s that waits has a `PART` behind it (`Gated`), and that the `PART` of one the bot is in still waits or has been answered.
That a `JOIN` or 353 read lists no channel anew that is to be out uses the story: the bot is in, or a later line takes it out.

`NetworkProofs`: `ResolverRightAnswer` and `ResolverEveryNameServerAsked`, for any number of requesters, queries and name servers, and
`LineReaderLossless`, for any size of `recvbuf` and any lines.  `ToLive` counts the seconds that a query may still live: four for
each try that is left, and the time to the next run of `dns_duty`.  Every step leaves its sum with the seconds lived at 27 or
less, which is the hypothesis `LifeBound >= 27` of that theorem.  The name servers that a lone query has met are
the last ones in the order of `nsnext` (`Recent`).  For `RightAnswer` an id tells the name among
the queries in the list, and an answer under way with that id is about this name or was under way when the id was drawn (`IdsTell`).  `Handed` says that the lines not handed over yet
are what `recvbuf` and the kernel hold; a line more is put behind them with `FlattenAppend` and the first one is taken off with
`FlattenHeadTail` and `FirstLineIs`.

`MainProofs`, for every number of servers: `MainCrashOnlyAfterReload`,
`MainSessionComplete` and `MainConfigReadUnplugged`.  The three properties speak of
a few places of the program each; the inductive invariant `Inv` says for every place of both
processes what is loaded, which run levels are possible there, and what is known of
the configuration (checked, or not checked because a reload brought it) and of
`nextserv`.  Each process changes only its own record, so the
step is proved for one process and an arbitrary other one.

For the registry, with any plugins, dependencies and timers: `PluginsNothingDangling` and `PluginsNoneMissed`.  `RegistryInv` says that no plugin is
listed twice, that each one stands in front of what it depends on, and that the timers are those of the list.  That nobody is
listed twice is the hard part, since a plugin is looked up before its dependencies are loaded and put in after them: `OpensOne` says of
`plugins_open` that whoever waits for what is being opened is not loaded meanwhile, also when dependencies form a circle.  It is proved by
induction on the depth, which `MAX_DEP` bounds.  For the walk, up to the plugin that has the line everyone of
the list at its start was given it, and the list changes at most once in a walk (`WalkHolds`).

For the HTTP client, with any size of `recvbuf`, any pieces of `recv` and any answers: `HttpRightAnswer` and `HttpNotHeldBack`.
`RightAnswer` only speaks of the callback, so the invariant is about the parser before it.  `Reads` says what `http_parse` keeps when
the first cells of an answer have come: how many of them it has taken, what the fields of the request are at that place of the stream
(within the header, in a body with or without an end, between two chunks or within one), and that `recvbuf` holds the others.
`StreamIs`, `ChunksAre` and `FlatIs` say which cell stands where.  A turn of each loop leads from one such place to the next one or changes
nothing (`HeaderTurnReads`, `ChunkTurnReads`), so that the loop has ended after as many turns as there are cells (`LoopEnds`, which is why
the two loops are written as functions on numbers); what it has left over is not enough to go on (`Enough`).  `Underway` says that what is
still to come goes on where the request is, up to where the connection ends; `EndReads` says what is told then.

`PluginStateProofs` has six parts.

- *User database*, for any names, senders and bounds: `UserDbFileWhole` and `UserDbLevelEarned`.
  Neither property is inductive.  `FileWhole` says nothing of the new file while it is being written; `Written` adds that it
  is the beginning of the list (`Beginning`), so that it is the whole list at the time of the unlink unless `fclose` hid an
  error, and that what was removed survives under the other name (`Survives`).  While storedb writes nobody changes the list, since it does not return in between: that is the
  guard `Serving` of every command.  `LevelEarned` speaks of the first user in the list who is logged in from a sender, and a logout
  brings the next one forward; `Earned` says it of every user: the
  ident is empty, found, or that of who gave the password last, and then no user of that name stands in front.
- *Nick*, `NickKnowsName`, for any nicks taken by others and any number of lines: once the bot has read all that is under way, its nick is the one
  the server has for it (`Follows`).  `Hears` goes through the lines one by one, as the bot will; a new line is put behind them, the first is taken off.
- *Reminder*, `ReminderReachesOwner`, for any people and widths: a reminder whose owner the bot has seen ever since has the owner's nick (`Known`), no two
  who are there have the same one, and the counter is the length of the list.
- *Eliza*, `ElizaGoneForgotten`, for any people, channels and knowledge files: each conversation whose partner did not go unseen has one in
  its channel (`Partnered`); a rename or a `QUIT` that the bot sees takes away exactly those that lose theirs, and whoever goes in a
  channel without the bot leaves conversations that are marked.
- *Hours*, `YxRecovers`, for any slots and any sleeps of the machine: the time left points at a change of the state that the bot is in, or at one
  that it will find wrong (`Aimed`, `Keeps`), and out of step it is for a day at most.
- *What a plugin is told of a line*, `InfoTailOfLine`, for any words, lines, size of a buffer and number of arguments.  `irc_makeinfo` is a
  loop of turns (`Turns`); before each one the copy is cut at every space in front of the pointer and nowhere else (`CutBefore`), and `argv` lists the
  parameters there (`Listed`), so the loop comes to the text unless the arguments are full.  From then on the plugin
  may cut only behind the start of the text: what is in front stays as it is (`FrontCut`), and what it has taken with the rest
  of the line from `tail` on is the text (`Left`).  A line without a text is excluded from both, but not from `InfoInv`: the stale `tail` it leaves stays
  within a buffer that ends in a NUL (`Memory`), and the next line with a text replaces it.

The assumptions are those of the constants, which TLC evaluates in the runs.  Beyond types they say: rings and
writes are not empty (`SizeAssumption`, `MaxWriteAssumption`, `LineReaderAssumption`), there are a server and a name server
(`MainAssumption`, `ConnectionAssumption`, `ResolverAssumption`), a line fits the ring and the delay fits the range of `timediff`
(`SendQueueAssumption`), PINGs come more often than `timediff` overflows (`PingAssumption`), two queries
take less than `CONNTIMEOUT` (`ConnectionAssumption`), NULL is no entry's address (`EntryAssumption`), and
names for nothing (`None`, `NoIdent`, `Absent`, `Offline`) are not names of something (`PluginsAssumption`, `UserDbAssumption`, `ReminderAssumption`,
`ElizaAssumption`); the bot's nick and no nick are none of the others, and the channels are finitely many (`ChannelsAssumption`); `recvbuf` and a piece have room, and no chunk but the last is empty (`HttpAssumption`); there is a nick that no one else has (`NickAssumption`), and neither a half hour nor a delay is empty (`YxAssumption`, `ElizaAssumption`); a line is not empty, fits its buffer with the NUL behind it, and is made of words, spaces and colons, which are none of each other (`InfoAssumption`).

Only model-checked:

- all liveness (no prover here does it);
- `ElizaReads` of `ElizaText`: what a recursive reading of a text gives is an induction over the text;
- `LispPrint` (and `Lisp` with it, so `ImplementsTable` too) and `Config`: they have RECURSIVE operators, for
  the recursion of `fmt_data_rec` and files within files, which the provers do not reach.

## What the code does that a reader may not expect

The properties are stated so that they hold; each exception they name is one of these.

- `bufsock_tcp_connect` for a name leaves the old socket open until the answer comes
  (sock.c:257).  If it becomes writable in between, the registration goes to the old server
  and the answer is ignored.  Hence `parted` in `Connection`.
- `irc_init` sets `irc_timer` in every session and nothing unsets it (irc.c:311, io.c:148): after three restarts it is
  called four times in a turn.  If two settings of one timer are unset in one turn, `io_unsettimer` marks one entry
  (io.c:171) and the other goes on being called.  Hence `thinned` in `IoLoop`.
- Servers given by address and no resolver: if all fail at once no descriptor is
  left, `io_loop` returns before the timers and there is no further attempt
  (io.c:206).  With `ByName = {}` and `DnsUp = FALSE` `ComesBack` fails.
- Deleting from a full buffer drops all of it (buffer.c:74).  The bytes after
  the first line of a full `recvbuf` are lost, and a `recvbuf` full without a line end makes the
  bot deaf.  Bytes that arrive with the end of the connection are not looked at.
- `irc_cb_data` writes `buf[len]` with `len` up to `sizeof(buf)` (irc.c:392): one past the
  end for the longest lines.
- `buffer_map` offers nothing of a full buffer, so an exactly full send ring stays
  full; after a partial `send` it may offer bytes behind the end of the array
  (buffer.c:175).  Hence `lossy` and `partial` in `SendQueue`.
- `timediff` overflows after 2147 silent seconds: until it is positive again nothing is sent.
  PINGs of the server keep it from happening.
- After a reload `main` runs on with whatever the parser left (main.c:265), and
  `nextserv` may be behind the last server of a shorter list.  Two commands in one turn overwrite each
  other's run level.
- `-d`: `fork` is followed by a switch that ends both processes (main.c:202).  The usage
  text says "Daemonize (fork to background)"; the run `main_daemon` shows it.
- `punload x` without `.so` is not stopped by plugins that depend on `x.so`.  A plugin whose
  `init` fails on reload leaves its timer behind, pointing into unmapped code.  `punload plugin.so`
  unmaps the code that runs.
- `dns_canread` looks at the id of an answer only (dns.c:118), and `dns_genid` at the ids of pending queries only
  (dns.c:347): an answer that is late meets a query that has drawn the same id since.  Hence `inherited` in `Resolver`.
- Two queries that take turns can each meet the same dead name server every time;
  a caller that asks without pause keeps the DNS timer from its work.
- An own `PART` that comes back deletes the channel even if `join` was ordered since.  A
  channel parted by order is listed again by the next `JOIN` in it; if the bot is kicked, loses
  the connection or the timer runs before the `PART` is back, the bot joins
  again against the order.  Hence `doubt` in `Channels`.
- `MODE +o-o a b` gives both `+o` (join.c:251): the first sign counts for all.  After
  `preload join.so` the bot does not know the members of the channels it is in, and of the configured channels finds only the
  first one of each entry, without its key, because the first `init` has cut the strings (join.c:208): `doubt` again.
- Every `JOIN` sent counts as a try of `max_retries`: one that is refused, one sent while the bot is in without knowing, one that is
  lost or whose answer is.  So the bot may give up a channel that never refused it.  Behind
  `join.so`, `qauth.so` does not keep the `JOIN`s of a reconnect back; before it,
  a reconnect does not reset the retries, so that the `JOIN`s of earlier sessions count too.  The bot's own `+o` is not learnt from 353.
- A request whose DNS query is dropped or whose server falls silent never ends: `rss.c` frees it
  after a minute, `search.c` and `weather.c` keep it, and they also keep one that `http_get` refused.
  Unloading them leaves the callback behind (`TODO` at search.c:131): the stage `crashed` of `Http`.
- `http_do` does not store its method: `http_post` and `http_head` send `GET`.
- A connection that breaks within the header of an answer: what is left of the line is handed
  over as the page (http.c:267).  An empty page is an error unless it is chunked, and with `Content-Length: 0` it is told
  only when the server closes (http.c:250).  An answer of 80 kB
  that is there at once fills `recvbuf`, and then status or header are lost with the rest
  (`overrun`).
- `qauth.c` frees a string of the configuration in `init` (qauth.c:123), again at each restart.
- `adduser` does not set the ident: after a start or `preload auth.so` it is what `malloc` returns (auth.c:66), any sender's or nobody's in the
  module, so that a sender may have the level of a user before anybody has logged in as that one.  Hence `found` in `UserDb`, which the first login
  clears.  Who has registered since the last storedb is lost when the process ends otherwise than by `destroy`.
- The database is under its other name between unlink and rename (auth.c:117), and for good if `rename` fails, since neither its result nor
  that of `unlink` and `fclose` is looked at.  The next start does not look at the `.tmp`: without the database it begins with no users, and
  its first storedb writes over them.  Hence `whole` in `UserDb`, which says where the last list is.
- A sender who logs in as a second user stays logged in as the first, and has the level of whichever comes first in the list.
- If the configured nick and the same with `_` are both in use, the second 433 makes the substitute the wanted nick (nick.c:58), and the configured
  one is not asked for again in this session, also when it becomes free.  Hence `forgotten` in `Nick`.
- 433 is only looked at before there is a nick (nick.c:58), and a wish that crosses the `NICK` of an earlier one may be
  forgotten.  Hence `Quiet` in `Nick`.
- A line without text finds `tail` as an earlier line or plugin has left it (irc.c:280).  `NICK new` without a colon is one.
  Hence only lines with a text in `TailOfLine`.
- A reminder stays with a nick: if its owner renames where the bot does not see it, who takes the nick gets the reminder.
- `eliza.c` reads on behind the end of a text that ends in a separator (eliza.c:134), divides by zero for a variant
  without responses (eliza.c:525) and does not look at `KICK`.  `uneliza` removes the first match only.
  Conversations outlive the bot's own kick, part and reconnect, and so does one whose partner leaves meanwhile: whoever comes with that nick
  is answered.  Hence `blind` in `Eliza`.
- `preload lisp.so` empties the list of contexts and does not lower the counter (lisp.c:370): their slots are lost until `punload`, and
  `eval-new-ctx` may say "No more context slots" with an empty list.  Hence `lost` in `Contexts`.
- `eval-new-ctx` without a name cuts the name before it looks whether there is one (lisp.c:275): the end of the
  process.  An integer of eleven characters takes one byte more than was counted.  `sprintf(out, "%s...", out)` has its
  result in its argument: undefined, taken to append.
- After a suspended machine the bot may keep the wrong hours for up to a day (yx.c:119).  The command `yx` is answered at all hours.  A clock that is set back and
  daylight saving time are left out.
- A parse that fails within an included file leaves the files around it open and listed.  At the end of the next parse
  the scanner goes on in them, where their last block of 8192 bytes ended (confpar.y:87); shorter files are at their end
  by then.  Hence `leftover` in `Config`.  Without that condition `ConfigAsWritten` fails.
- `include` as the value of a key has no string of its own (confsym.l:41): the key's is taken, and freed twice.
- `horde.c` takes a number modulo the members of its channel, which is zero from a reconnect until its names have come (horde.c:62).

## Not modelled

- *Answering plugins* (`achtball.c` to `xyzzy.c`): one line in, one line out, no state but a table read at start.
- *Games on a server*: `blinddate.c` keeps two nicks and hands lines on with names replaced; `horde.c` has only strings of its
  configuration.  What they do is what they say.
- *XML helpers*: three searches in a tree of libxml2.  *Hashes and random numbers*: standard algorithms.
- `mkstr` and the other formatting, regular expressions, options, names of commands, and how
  characters make tokens, words, labels of packets and numbers.
- `scheme.c` and `nickserv.c`: a line handed on, a notice answered.
- What a configuration's strings are used for after a reload, and who owns them (`qauth.c:123`).
- Allocation failures, except where the code goes on after them.  Plugins are abstract in `Plugins`: a
  reply does nothing but perhaps load or unload.

## Plan

Done: the core (buffer, loop, connection, resolver, lines both ways), the main program, the plugin registry, the
channels, the HTTP client, the plugins with state, the text of a line, the configuration; proofs of every safety
property of the core, of the main program, of the registry, of the channels, of the HTTP client, of the plugins with state and of the text of a line.

Left to model: the parsing of a packet in `dns_canread`, the split of a prefix, two users of `Http` that start
and stop with their plugins.

Left to prove: `ElizaReads`, `PrintsLists`, `ImplementsTable` and `ConfigAsWritten`, each beyond the provers for the
reason given under "Only model-checked".
