------------------------------- MODULE Config -------------------------------
(***************************************************************************)
(* The configuration: the grammar of src/confpar.y, the scanner of         *)
(* src/confsym.l behind it, and files that include files.  The scanner     *)
(* reads a file block by block; what is open around the file it is in is   *)
(* kept twice, as the list config_inc and as the buffers of flex, and only *)
(* the buffers end with the parse.                                         *)
(*                                                                         *)
(* A file is a sequence of items: the head of a section, a key with its    *)
(* value, the end of a section, an include, or what is none of these.      *)
(***************************************************************************)
EXTENDS Integers, Sequences, SequencesExt

CONSTANTS
  File,
  Start,        \* the file that is given to config_parse
  Missing,      \* for a file that cannot be opened
  Contents,     \* what may be in the files: a set of functions from File
  Block,        \* items that are read at a time
  MaxIncludes   \* 1000

VARIABLES
  files,        \* what is in them
  parsing,
  yyin,         \* the file that is read: [ahead, rest], in the buffer of flex and not yet read
  config_inc,   \* the files around it, innermost first; config_inccount is the length
  buffers,      \* buffers of flex below that of yyin
  sections,     \* those so far: [name, keys]
  inside,       \* the last one is open
  config,       \* all of them; none if there is no configuration
  \* ghosts
  result,       \* what the last parse of the files, as they are now, came to
  leftover      \* config_inc when it began

reading == <<parsing, yyin, config_inc, buffers>>
tree == <<sections, inside, config>>
vars == <<files, reading, tree, result, leftover>>

Opened(text) == [ahead |-> <<>>, rest |-> text]

Init ==
  /\ files \in Contents /\ parsing = FALSE
  /\ yyin = Opened(<<>>) /\ config_inc = <<>> /\ buffers = 0
  /\ sections = <<>> /\ inside = FALSE /\ config = <<>>
  /\ result = "none" /\ leftover = <<>>

-----------------------------------------------------------------------------
(* The scanner *)

Filled(s) ==
  IF s.ahead # <<>> THEN s
  ELSE LET n == IF Len(s.rest) < Block THEN Len(s.rest) ELSE Block
       IN  [ahead |-> SubSeq(s.rest, 1, n), rest |-> SubSeq(s.rest, n + 1, Len(s.rest))]

AtEnd == Filled(yyin).ahead = <<>>
Item == Head(Filled(yyin).ahead)
Behind == [Filled(yyin) EXCEPT !.ahead = Tail(@)]

Take == yyin' = Behind /\ UNCHANGED <<parsing, config_inc, buffers>>

\* Mutant: the file is opened anew, without its buffer, and what was in that is lost.
WrapUnbuffered ==
  /\ config_inc # <<>> /\ config_inc' = Tail(config_inc)
  /\ yyin' = [Head(config_inc) EXCEPT !.ahead = <<>>]
  /\ buffers' = IF buffers = 0 THEN 0 ELSE buffers - 1

\* yywrap: back to the file around this one.  One that an earlier parse has left has no buffer any
\* more; it goes on where reading has come to.
Wrap ==
  /\ config_inc # <<>> /\ config_inc' = Tail(config_inc)
  /\ yyin' = IF buffers = 0 THEN [Head(config_inc) EXCEPT !.ahead = <<>>] ELSE Head(config_inc)
  /\ buffers' = IF buffers = 0 THEN 0 ELSE buffers - 1

-----------------------------------------------------------------------------
(* The grammar *)

\* config_parse: without the file it returns before it touches anything.
ConfigParse ==
  /\ ~parsing /\ files[Start] # Missing
  /\ parsing' = TRUE /\ yyin' = Opened(files[Start]) /\ buffers' = 0
  /\ sections' = <<>> /\ inside' = FALSE /\ config' = <<>>
  /\ result' = "none" /\ leftover' = config_inc /\ UNCHANGED <<files, config_inc>>

OpenSection ==
  /\ parsing /\ ~AtEnd /\ Item.what = "section" /\ ~inside /\ Take
  /\ sections' = Append(sections, [name |-> Item.name, keys |-> <<>>]) /\ inside' = TRUE
  /\ UNCHANGED <<files, config, result, leftover>>

Statement ==
  /\ parsing /\ ~AtEnd /\ Item.what = "key" /\ inside /\ Take
  /\ sections' = [sections EXCEPT ![Len(sections)].keys = Append(@, [name |-> Item.name, value |-> Item.value])]
  /\ UNCHANGED <<files, inside, config, result, leftover>>

CloseSection ==
  /\ parsing /\ ~AtEnd /\ Item.what = "end" /\ inside /\ Take /\ inside' = FALSE
  /\ UNCHANGED <<files, sections, config, result, leftover>>

\* config_include: what is too deep or missing is passed over with a warning.
Include ==
  /\ parsing /\ ~AtEnd /\ Item.what = "include"
  /\ IF Len(config_inc) > MaxIncludes \/ files[Item.name] = Missing THEN Take
     ELSE /\ config_inc' = <<Behind>> \o config_inc /\ yyin' = Opened(files[Item.name])
          /\ buffers' = buffers + 1 /\ UNCHANGED parsing
  /\ UNCHANGED <<files, tree, result, leftover>>

EndOfFile ==
  /\ parsing /\ AtEnd /\ Wrap
  /\ UNCHANGED <<files, parsing, tree, result, leftover>>

\* yyparse accepts.
Accept ==
  /\ parsing /\ AtEnd /\ config_inc = <<>> /\ ~inside
  /\ parsing' = FALSE /\ config' = sections /\ result' = "ok"
  /\ UNCHANGED <<files, yyin, config_inc, buffers, sections, inside, leftover>>

\* yyparse gives up at once, and yylex_destroy frees the buffers.
SyntaxError ==
  /\ parsing
  /\ IF AtEnd THEN config_inc = <<>> /\ inside
     ELSE Item.what \in (IF inside THEN {"bad", "section"} ELSE {"bad", "key", "end"})
  /\ parsing' = FALSE /\ buffers' = 0 /\ result' = "error"
  /\ UNCHANGED <<files, yyin, config_inc, tree, leftover>>

\* Somebody edits a file.
Edit ==
  /\ ~parsing /\ files' \in Contents /\ result' = "none"
  /\ UNCHANGED <<reading, tree, leftover>>

Next ==
  \/ ConfigParse \/ OpenSection \/ Statement \/ CloseSection \/ Include \/ EndOfFile
  \/ Accept \/ SyntaxError \/ Edit

Spec == Init /\ [][Next]_vars

-----------------------------------------------------------------------------
(* What the plugins ask *)

FindNode(list, name) == SelectInSeq(list, LAMBDA n : n.name = name)

ConfigFind(sec) == IF FindNode(config, sec) = 0 THEN <<>> ELSE config[FindNode(config, sec)].keys

ConfigGet(sec, name) ==
  LET keys == ConfigFind(sec)
  IN  IF FindNode(keys, name) = 0 THEN {} ELSE {keys[FindNode(keys, name)].value}

Matching(sec, name) == SelectSeq(ConfigFind(sec), LAMBDA k : k.name = name)

ConfigGetCnt(sec, name) == Len(Matching(sec, name))

\* The empty set for NULL
ConfigGetN(sec, name, n) == {Matching(sec, name)[i].value : i \in {n + 1} \cap DOMAIN Matching(sec, name)}

-----------------------------------------------------------------------------
(* The files as one reads them *)

\* The items of a file, with those of the files it includes in their places
RECURSIVE Flat(_, _)
Flat(file, depth) ==
  FlattenSeq([i \in DOMAIN files[file] |->
    LET item == files[file][i]
    IN  IF item.what # "include" THEN <<item>>
        ELSE IF depth > MaxIncludes \/ files[item.name] = Missing THEN <<>>
        ELSE Flat(item.name, depth + 1)])

\* Where an item stands: how many sections are open before it
Level(text, i) ==
  Len(SelectSeq(SubSeq(text, 1, i - 1), LAMBDA e : e.what = "section"))
  - Len(SelectSeq(SubSeq(text, 1, i - 1), LAMBDA e : e.what = "end"))

WellFormed(text) ==
  /\ \A i \in DOMAIN text : text[i].what # "bad" /\ Level(text, i) = IF text[i].what = "section" THEN 0 ELSE 1
  /\ Level(text, Len(text) + 1) = 0

\* The keys between the head of a section and the next end
KeysAt(text, i) ==
  {j \in i + 1 .. Len(text) : \A k \in i + 1 .. j : text[k].what = "key"}

\* The values of a key in the first section of a name, in order
Values(text, sec, key) ==
  LET heads == {i \in DOMAIN text : text[i].what = "section" /\ text[i].name = sec}
      first == CHOOSE i \in heads : \A j \in heads : i <= j
      between == SubSeq(text, first + 1, first + Len(SetToSeq(KeysAt(text, first))))
  IN  IF heads = {} THEN <<>>
      ELSE LET chosen == SelectSeq(between, LAMBDA e : e.name = key)
           IN  [i \in DOMAIN chosen |-> chosen[i].value]

Names == UNION {{t[i].name : i \in {i \in DOMAIN t : t[i].what \in {"section", "key"}}} :
                  t \in {c[f] : c \in Contents, f \in File} \ {Missing}}

TypeOK ==
  /\ files \in Contents /\ {parsing, inside} \subseteq BOOLEAN /\ result \in {"none", "ok", "error"}
  /\ buffers \in 0 .. Len(config_inc) /\ Len(config_inc) <= MaxIncludes + 1

\* A parse takes the files as one reads them: it fails where they are not well formed, and then leaves no
\* configuration, and otherwise the questions of the plugins are answered from them.  What a parse that
\* failed within an include has left behind does no harm if it fitted into one block (8192 bytes): it is
\* at its end already, and only counts towards the depth (confpar.y:87, 110).
ConfigAsWritten ==
  /\ TypeOK
  /\ result # "none" /\ (\A i \in DOMAIN leftover : leftover[i].rest = <<>>) =>
       LET text == Flat(Start, Len(leftover))
       IN  /\ result = IF WellFormed(text) THEN "ok" ELSE "error"
           /\ result = "error" => config = <<>>
           /\ result = "ok" => \A s, k \in Names :
                LET values == Values(text, s, k)
                IN  /\ ConfigGetCnt(s, k) = Len(values)
                    /\ \A n \in DOMAIN values : ConfigGetN(s, k, n - 1) = {values[n]}
                    /\ ConfigGet(s, k) = ConfigGetN(s, k, 0)
=============================================================================
