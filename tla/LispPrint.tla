----------------------------- MODULE LispPrint -----------------------------
(***************************************************************************)
(* How src/lisp.c writes a value: fmt_data_rec goes over it twice, once to *)
(* count the characters and once to write them.  Operators only.           *)
(*                                                                         *)
(* A value is [type, width], or a pair [type, car, cdr].  The width is     *)
(* that of a symbol's name, of a string, or of a number as it is written.  *)
(* The text is a sequence of tokens: punctuation, [type, width] too, and   *)
(* the values that are no lists.                                           *)
(***************************************************************************)
EXTENDS Integers, Sequences, SequencesExt

Nil == [type |-> "nil"]
Env == [type |-> "env"]
Prim == [type |-> "prim"]
Closure == [type |-> "closure"]   \* a pair for lisp_car, but is_compound_procedure
Atom(type, width) == [type |-> type, width |-> width]
Pair(a, b) == [type |-> "pair", car |-> a, cdr |-> b]

Sign(type) == Atom(type, Len(type))
Open == Sign("(")
Close == Sign(")")
Blank == Sign(" ")
Dot == Sign(" . ")

Brackets(text, parens) == IF parens THEN <<Open>> \o text \o <<Close>> ELSE text

\* Mutant: every pair gets its brackets.
RECURSIVE WriteNested(_, _)
WriteNested(d, parens) ==
  IF d.type # "pair" THEN <<d>>
  ELSE IF d.cdr = Nil THEN Brackets(WriteNested(d.car, TRUE), TRUE)
  ELSE Brackets(WriteNested(d.car, TRUE) \o <<Blank>> \o WriteNested(d.cdr, FALSE), TRUE)

\* fmt_data_rec with a buffer
RECURSIVE Write(_, _)
Write(d, parens) ==
  IF d.type # "pair" THEN <<d>>
  ELSE LET head == Write(d.car, TRUE)
           tail == IF d.cdr.type \in {"pair", "closure"} THEN <<Blank>> \o Write(d.cdr, FALSE)
                   ELSE <<Dot>> \o Write(d.cdr, TRUE)
       IN  Brackets(IF d.cdr = Nil THEN head ELSE head \o tail, parens)

\* Characters that are set aside for a value that is no list
Room(d) ==
  CASE d.type = "nil" -> 2
    [] d.type = "env" -> 5
    [] d.type \in {"prim", "closure"} -> 6
    [] d.type = "integer" -> 10
    [] d.type = "decimal" -> 16
    [] d.type = "symbol" -> d.width
    [] d.type = "string" -> 2 + d.width
    [] d.type = "error" -> 9 + d.width

\* fmt_data_rec without a buffer
RECURSIVE Count(_, _)
Count(d, parens) ==
  IF d.type # "pair" THEN Room(d)
  ELSE LET tail == IF d.cdr.type \in {"pair", "closure"} THEN 1 + Count(d.cdr, FALSE)
                   ELSE 3 + Count(d.cdr, TRUE)
       IN  (IF parens THEN 2 ELSE 0) + Count(d.car, TRUE) + IF d.cdr = Nil THEN 0 ELSE tail

-----------------------------------------------------------------------------
(* What to expect *)

\* Characters a token takes: () <env> <proc> 12 1.5 name "text" ERROR: "text"
Width(token) ==
  IF token.type \in {"(", ")", " ", " . ", "integer", "decimal"} THEN token.width ELSE Room(token)

Taken(text) == FoldLeft(LAMBDA n, token : n + Width(token), 0, text)

\* The elements of a list, and what it ends in
RECURSIVE Elements(_)
Elements(d) == IF d.type = "pair" THEN <<d.car>> \o Elements(d.cdr) ELSE <<>>

RECURSIVE End(_)
End(d) == IF d.type = "pair" THEN End(d.cdr) ELSE d

\* A list as one writes it: its elements with blanks between them, and a dot before an end that is
\* not Nil.  A procedure at the end, being a pair, gets no dot.
RECURSIVE Notation(_)
Notation(d) ==
  LET Next(text, e) == text \o (IF text = <<>> THEN <<>> ELSE <<Blank>>) \o Notation(e)
      end == End(d)
      rest == CASE end = Nil -> <<>>
                [] end = Closure -> <<Blank, end>>
                [] end # Nil /\ end # Closure -> <<Dot, end>>
  IN  IF d.type # "pair" THEN <<d>>
      ELSE <<Open>> \o FoldLeft(Next, <<>>, Elements(d)) \o rest \o <<Close>>
=============================================================================
