---------------------------- MODULE MessageInfo ----------------------------
(***************************************************************************)
(* What a plugin is told of a line: irc_makeinfo of src/irc.c cuts it into *)
(* prefix, command, arguments and text, in place, and the plugin goes on   *)
(* cutting with tail_cmd, tail_getp and skip_nick of src/util.c.  All of   *)
(* it works on one buffer and one info_t, which outlive the line.          *)
(*                                                                         *)
(* A line is a sequence of cells: words, Space and Colon.  A pointer is    *)
(* the index of a cell, NULL is 0.                                         *)
(***************************************************************************)
EXTENDS Integers, Sequences, SequencesExt, FiniteSets

CONSTANTS
  Lines,       \* what the server may send
  BUFLEN,      \* cells of a buffer
  INFO_MAXARG,
  Me,          \* the bot's nick
  Commands     \* words that plugins have for commands, with the prefix

Space == "space"
Colon == "colon"
Nul == "nul"
NULL == 0

VARIABLES
  buf,     \* irc_cb_data: the line, and behind its Nul what is left of others
  tmp,     \* the copy that is cut
  info,    \* [sender, cmd, argv, tail]; argv and tail are pointers into tmp
  \* ghost
  line,    \* the line that is being handled
  taken    \* the cells of its text that the plugin has got or skipped, without the spaces

vars == <<buf, tmp, info, line, taken>>

\* strchr, from p to the end of the string
Strchr(mem, p, cell) ==
  LET hits == {i \in p .. Len(mem) : mem[i] = cell /\ \A j \in p .. i - 1 : mem[j] # Nul}
  IN  IF hits = {} THEN NULL ELSE CHOOSE i \in hits : \A j \in hits : i <= j

\* The string at p
String(mem, p) == IF p = NULL THEN <<>> ELSE SubSeq(mem, p, Strchr(mem, p, Nul) - 1)

\* Cut at the next space: the pointer behind it, and the memory with a Nul in its place
CutAt(mem, p) ==
  LET s == Strchr(mem, p, Space)
  IN  IF s = NULL THEN [mem |-> mem, next |-> NULL]
      ELSE [mem |-> [mem EXCEPT ![s] = Nul], next |-> s + 1]

\* Mutant: the loop goes on when it has found the text.
ArgumentInText(a) ==
  IF a.p = NULL THEN a
  ELSE LET cut == CutAt(a.mem, a.p)
       IN  [p |-> cut.next, argv |-> Append(a.argv, a.p), mem |-> cut.mem,
            tail |-> IF a.mem[a.p] = Colon THEN a.p + 1 ELSE a.tail]

\* One turn of the loop of irc_makeinfo: the text is found, or there is an argument at p.
Argument(a) ==
  IF a.p = NULL THEN a
  ELSE IF a.mem[a.p] = Colon THEN [a EXCEPT !.tail = a.p + 1, !.p = NULL]
  ELSE LET cut == CutAt(a.mem, a.p)
       IN  [p |-> cut.next, argv |-> Append(a.argv, a.p), mem |-> cut.mem, tail |-> a.tail]

\* irc_makeinfo: the arguments, up to the text or to INFO_MAXARG
Arguments(mem, p) ==
  LET upto[i \in 0 .. INFO_MAXARG] ==
        IF i = 0 THEN [p |-> p, argv |-> <<>>, tail |-> NULL, mem |-> mem] ELSE Argument(upto[i - 1])
  IN  upto[INFO_MAXARG]

\* irc_makeinfo.  Without a text the tail stays what it was, without a prefix the sender; after a prefix
\* alone the arguments stay as well, and the caller does not look at the result.
MakeInfo(mem) ==
  LET prefix == mem[1] = Colon
      head == IF prefix THEN CutAt(mem, 1) ELSE [mem |-> mem, next |-> 1]
      sender == IF prefix THEN String(head.mem, 2) ELSE info.sender
      cmd == CutAt(head.mem, head.next)
      args == Arguments(cmd.mem, cmd.next)
  IN  IF head.next = NULL
      THEN /\ tmp' = head.mem
           /\ info' = [info EXCEPT !.sender = sender, !.cmd = <<>>]
      ELSE /\ tmp' = args.mem
           /\ info' = [sender |-> sender, cmd |-> String(cmd.mem, head.next), argv |-> args.argv,
                       tail |-> IF args.tail = NULL THEN info.tail ELSE args.tail]

Blank == [i \in 1 .. BUFLEN |-> Nul]

Init ==
  /\ buf = Blank /\ tmp = Blank /\ line = <<>> /\ taken = <<>>
  /\ info = [sender |-> <<>>, cmd |-> <<>>, argv |-> <<>>, tail |-> NULL]

\* irc_cb_data: a line, and the first plugin is called with it
Receive(l) ==
  /\ line' = l /\ buf' = l \o <<Nul>> \o SubSeq(buf, Len(l) + 2, BUFLEN) /\ taken' = <<>>
  /\ MakeInfo(buf')

\* irc_cb_data: the next plugin gets a copy of its own
NextPlugin ==
  /\ line # <<>> /\ taken' = <<>> /\ MakeInfo(buf) /\ UNCHANGED <<buf, line>>

-----------------------------------------------------------------------------
(* A plugin looks at the text. *)

Solid(cells) == FlattenSeq([i \in DOMAIN cells |-> IF cells[i] = Space THEN <<>> ELSE <<cells[i]>>])

Got(cells) == taken' = taken \o Solid(cells)

\* tail_cmd, and tail_cmp, with a word that is there
TailCmd(word) ==
  /\ info.tail # NULL /\ tmp[info.tail] = word /\ Got(<<word>>)
  /\ \/ tmp[info.tail + 1] = Nul /\ info' = [info EXCEPT !.tail = NULL]
     \/ tmp[info.tail + 1] = Space /\ info' = [info EXCEPT !.tail = @ + 2]
  /\ UNCHANGED <<buf, tmp, line>>

SkipSpaces(p) == CHOOSE i \in p .. BUFLEN : tmp[i] # Space /\ \A j \in p .. i - 1 : tmp[j] = Space

\* tail_getp: the next word, if there is one
TailGetp ==
  /\ info.tail # NULL
  /\ LET from == SkipSpaces(info.tail)
         cut == CutAt(tmp, from)
         more == cut.next # NULL /\ cut.mem[cut.next] # Nul
     IN  /\ Got(String(cut.mem, from))
         /\ tmp' = cut.mem /\ info' = [info EXCEPT !.tail = IF more THEN cut.next ELSE NULL]
  /\ UNCHANGED <<buf, line>>

\* skip_nick: the bot's nick in front, a colon behind it, and spaces
SkipNick ==
  /\ info.tail # NULL /\ tmp[info.tail] = Me
  /\ LET colon == tmp[info.tail + 1] = Colon
         to == SkipSpaces(info.tail + IF colon THEN 2 ELSE 1)
     IN  Got(SubSeq(tmp, info.tail, to - 1)) /\ info' = [info EXCEPT !.tail = to]
  /\ UNCHANGED <<buf, tmp, line>>

Next ==
  \/ \E l \in Lines : Receive(l)
  \/ NextPlugin \/ TailGetp \/ SkipNick \/ \E w \in Commands : TailCmd(w)

Spec == Init /\ [][Next]_vars

-----------------------------------------------------------------------------
(* A line as the protocol has it, without the cutting *)

\* Where parameters begin: behind the spaces, but for the one between prefix and command
Params(l) ==
  {i \in 2 .. Len(l) + 1 : l[i - 1] = Space /\ (l[1] = Colon => \E j \in 1 .. i - 2 : l[j] = Space)}

\* Where the text begins, if there is one that the arguments in front leave in reach
TextAt(l) ==
  {i \in Params(l) : /\ i <= Len(l) /\ l[i] = Colon
                     /\ \A j \in Params(l) : j < i => l[j] # Colon
                     /\ Cardinality({j \in Params(l) : j < i}) < INFO_MAXARG}

TypeOK ==
  /\ {Len(buf), Len(tmp)} = {BUFLEN} /\ info.tail \in 0 .. BUFLEN
  /\ Len(info.argv) <= INFO_MAXARG /\ ToSet(info.argv) \subseteq 1 .. BUFLEN

\* Of a line that has a text each plugin gets this very text, whatever lines and plugins came before: what
\* it has taken and what is left are the text, and the arguments are the parameters in front of it, in
\* their order.  Without a text the plugin finds whatever the last pointer points to (irc.c:280, 404,
\* util.c:236).
TailOfLine ==
  TypeOK /\ \A at \in TextAt(line) :
    /\ taken \o Solid(String(tmp, info.tail)) = Solid(SubSeq(line, at + 1, Len(line)))
    /\ LET before == {i \in Params(line) : i < at}
           argv == info.argv
       IN  /\ Len(argv) = Cardinality(before) /\ ToSet(argv) \subseteq before
           /\ \A k, m \in DOMAIN argv : k < m => argv[k] < argv[m]
           /\ \A k \in DOMAIN argv :
                String(tmp, argv[k]) = SubSeq(line, argv[k], Strchr(line, argv[k], Space) - 1)
=============================================================================
