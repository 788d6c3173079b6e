----------------------------- MODULE ElizaText -----------------------------
(***************************************************************************)
(* How src/eliza.c reads a message and picks what to say: the words of the *)
(* text, the most urgent keyword, the variant that fits best.  Operators   *)
(* only; Eliza makes the plugin of them.                                   *)
(*                                                                         *)
(* A text is a sequence of cells, each a word (upper and lower case are    *)
(* one), Gap for one of the separators, or Nul.  No two words adjoin.      *)
(***************************************************************************)
EXTENDS Integers, Sequences, SequencesExt

Gap == "gap"
Nul == "nul"

\* isword: strchr finds the terminator of its string as well, so a NUL is a separator
isword(cell) == cell \notin {Gap, Nul}

\* wordlist_create: the skip over separators does not stop at the NUL; only one right behind a
\* word ends it.  What lies behind the text in memory is part of the argument.
Words(memory) ==
  LET ends == {k \in DOMAIN memory : memory[k] = Nul /\ (k = 1 \/ isword(memory[k - 1]))}
      stop == CHOOSE k \in ends : \A l \in ends : k <= l
  IN  SelectSeq(SubSeq(memory, 1, stop), isword)

\* wordlist_in: the first place of a word, or 0
WordIn(words, w) == SelectInSeq(words, LAMBDA v : v = w)

\* wordlist_replace: the first occurrence alone
Replaced(words, w, by) ==
  IF WordIn(words, w) = 0 THEN words ELSE [words EXCEPT ![WordIn(words, w)] = by]

\* Mutant: the search in the pattern starts over for every word.
MatchAnyOrder(words, pattern) == Len(SelectSeq(words, LAMBDA w : WordIn(pattern, w) # 0))

\* wordlist_match: each word is looked for behind the place of the one found before it
Match(words, pattern) ==
  LET Step(found, w) ==
        LET from == SubSeq(pattern, found.next, Len(pattern))
            at == WordIn(from, w)
        IN  IF at = 0 THEN found ELSE [cnt |-> found.cnt + 1, next |-> found.next + at]
  IN  FoldLeft(Step, [cnt |-> 0, next |-> 1], words).cnt

-----------------------------------------------------------------------------
(* The knowledge file: a sequence of statements [what, of] *)

NoGoto == "no goto"

\* kfile_load: lines that belong to no key, and responses before the first variant, are passed over.
\* list_add puts the newest key and the newest variant first.
Load(file) ==
  LET Variant(k, line) ==
        [k EXCEPT !.vars = <<[words |-> Words(line.of), resps |-> <<>>]>> \o @]
      Step(kb, line) ==
        CASE line.what = "syn" -> [kb EXCEPT !.syns = Append(@, line.of)]
          [] line.what = "key" ->
               [kb EXCEPT !.knows = <<[key |-> line.of, gto |-> NoGoto, pri |-> 0, vars |-> <<>>]>> \o @]
          [] line.what # "syn" /\ line.what # "key" /\ kb.knows = <<>> -> kb
          [] line.what = "pri" /\ kb.knows # <<>> -> [kb EXCEPT !.knows[1].pri = line.of]
          [] line.what = "goto" /\ kb.knows # <<>> ->
               [kb EXCEPT !.knows[1].gto = IF @ = NoGoto THEN line.of ELSE @]
          [] line.what = "var" /\ kb.knows # <<>> -> [kb EXCEPT !.knows[1] = Variant(@, line)]
          [] line.what = "resp" /\ kb.knows # <<>> ->
               IF kb.knows[1].vars = <<>> THEN kb
               ELSE [kb EXCEPT !.knows[1].vars[1].resps = Append(@, line.of)]
  IN  FoldLeft(Step, [syns |-> <<>>, knows |-> <<>>], file)

-----------------------------------------------------------------------------
(* reply: what the words of a message lead to *)

None == 0

\* The first of the most urgent keys that occur, or None
BestKey(words, knows) ==
  LET hit == {i \in DOMAIN knows : WordIn(words, knows[i].key) # 0}
      best == {i \in hit : \A j \in hit : knows[j].pri <= knows[i].pri}
  IN  IF hit = {} THEN None ELSE CHOOSE i \in best : \A j \in best : i <= j

\* One goto is followed, to the first key of that name; the word it stands for changes with it.
Followed(words, knows, key) ==
  LET to == SelectInSeq(knows, LAMBDA k : k.key = knows[key].gto)
  IN  IF to = 0 THEN [words |-> words, key |-> key]
      ELSE [words |-> Replaced(words, knows[key].key, knows[to].key), key |-> to]

\* Of the variants that share the most words, and one at least, the last in the list
BestVariant(words, vars) ==
  LET hit == {i \in DOMAIN vars : Match(words, vars[i].words) >= 1}
      best == {i \in hit : \A j \in hit : Match(words, vars[j].words) <= Match(words, vars[i].words)}
  IN  IF hit = {} THEN None ELSE CHOOSE i \in best : \A j \in best : j <= i

\* The variant a message is answered from, or None if it is not answered
Chosen(words, knows) ==
  LET key == BestKey(words, knows)
      then == Followed(words, knows, key)
      vars == knows[then.key].vars
      var == BestVariant(then.words, vars)
  IN  IF key = None \/ var = None THEN {} ELSE {vars[var]}
-----------------------------------------------------------------------------
(* What to expect of an answer, without the lists the code goes through *)

Shares(words, pattern) == ToSet(words) \cap ToSet(pattern) # {}

\* All words stand in the pattern, in order.
Contained(words, pattern) ==
  \E f \in [DOMAIN words -> DOMAIN pattern] :
    \A i, j \in DOMAIN words : words[i] = pattern[f[i]] /\ (i < j => f[i] < f[j])

\* v is a sensible variant for the words under key k: it shares a word with them, and if a variant of k
\* has all of them in order then so does v.
Sensible(v, words, k) ==
  /\ v \in ToSet(k.vars) /\ Shares(words, v.words)
  /\ (\E u \in ToSet(k.vars) : Contained(words, u.words)) => Contained(words, v.words)

\* Somebody said the words: the variant is one for a key that was among them, with none more urgent, or
\* for the one that key refers to.
Reads(v, words, knows) ==
  \E k \in ToSet(knows) :
    /\ k.key \in ToSet(words)
    /\ \A l \in ToSet(knows) : l.key \in ToSet(words) => l.pri <= k.pri
    /\ IF \E l \in ToSet(knows) : l.key = k.gto
       THEN \E l \in ToSet(knows) : l.key = k.gto /\ Sensible(v, Replaced(words, k.key, l.key), l)
       ELSE Sensible(v, words, k)
=============================================================================
