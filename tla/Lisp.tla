-------------------------------- MODULE Lisp --------------------------------
(***************************************************************************)
(* The plugin src/lisp.c: a linked list of named contexts, and evaluation  *)
(* of what somebody says in one of them or in the global one.  The         *)
(* interpreter behind it is a library, external: an expression it reads    *)
(* has a value, one it cannot read is Bad.                                 *)
(*                                                                         *)
(* Names stand for their first MAX_NAME characters, which is all that is   *)
(* compared.  malloc gives any cell that is free.                          *)
(***************************************************************************)
EXTENDS LispPrint, FiniteSets

CONSTANTS
  Name,
  Cell,       \* where malloc puts a node; at least MAX_CTX of them
  NULL,
  MAX_CTX,
  Inputs      \* what may be given to evaluate: sequences of values and Bad; never empty

Bad == [type |-> "syntax error"]

VARIABLES
  heap,          \* the nodes that are allocated: cell -> [name, next, last]
  ctx_list,      \* the first node
  ctx_list_head, \* the last one
  n_ctx,
  answer,        \* what the last command was answered with: [say, names]
  printed,       \* and the values with it: [value, text]
  alive

list == <<heap, ctx_list, ctx_list_head, n_ctx>>
vars == <<list, answer, printed, alive>>

Say(what) == [say |-> what, names |-> <<>>]
Silent == printed' = <<>> /\ UNCHANGED alive

Init ==
  /\ heap = <<>> /\ ctx_list = NULL /\ ctx_list_head = NULL /\ n_ctx = 0
  /\ answer = Say("none") /\ printed = <<>> /\ alive = TRUE

-----------------------------------------------------------------------------
(* The list *)

\* The nodes along the next pointers: what all the loops over the list see
Walk ==
  LET Nth[i \in 1 .. Cardinality(Cell)] ==
        IF i = 1 THEN ctx_list ELSE IF Nth[i - 1] = NULL THEN NULL ELSE heap[Nth[i - 1]].next
  IN  SelectSeq([i \in 1 .. Cardinality(Cell) |-> Nth[i]], LAMBDA c : c # NULL)

Names == LET cells == Walk IN [i \in DOMAIN cells |-> heap[cells[i]].name]

\* lookup_ctx and the loop of del_ctx: the first node of that name, or NULL
Find(n) ==
  LET cells == Walk
      at == SelectInSeq(cells, LAMBDA c : heap[c].name = n)
  IN  IF at = 0 THEN NULL ELSE cells[at]

\* new_node and create_ctx: at the end of the list
Create(n) ==
  \E c \in Cell \ DOMAIN heap :
    LET node == [name |-> n, next |-> NULL, last |-> IF ctx_list = NULL THEN NULL ELSE ctx_list_head]
    IN  /\ heap' = [a \in DOMAIN heap \cup {c} |->
                      IF a = c THEN node
                      ELSE IF ctx_list # NULL /\ a = ctx_list_head THEN [heap[a] EXCEPT !.next = c]
                      ELSE heap[a]]
        /\ ctx_list' = IF ctx_list = NULL THEN c ELSE ctx_list
        /\ ctx_list_head' = c /\ n_ctx' = n_ctx + 1

\* Mutant: the end of the list is not looked after.
DelNodeHead(node) ==
  LET next == heap[node].next
      last == heap[node].last
  IN  /\ ctx_list_head' = ctx_list_head
      /\ ctx_list' = IF node = ctx_list THEN next ELSE ctx_list
      /\ heap' = [a \in DOMAIN heap \ {node} |->
           [heap[a] EXCEPT !.next = IF a = last THEN next ELSE @, !.last = IF a = next THEN last ELSE @]]

\* del_node: the first of the list has nothing before it any more, whatever its last pointer says
DelNode(node) ==
  LET next == heap[node].next
      last == heap[node].last
      before == IF node = ctx_list THEN NULL ELSE last
  IN  /\ ctx_list_head' = IF node = ctx_list_head THEN last ELSE ctx_list_head
      /\ ctx_list' = IF node = ctx_list THEN next ELSE ctx_list
      /\ heap' = [a \in DOMAIN heap \ {node} |->
           [heap[a] EXCEPT !.next = IF a = before THEN next ELSE @, !.last = IF a = next THEN last ELSE @]]

-----------------------------------------------------------------------------
(* reply *)

\* runexp: one after the other, up to the end or to one that cannot be read
Evaluate(input) ==
  LET bad == SelectInSeq(input, LAMBDA e : e = Bad)
      upTo == IF bad = 0 THEN Len(input) ELSE bad - 1
  IN  printed' = [i \in 1 .. upTo |-> [value |-> input[i], text |-> Write(input[i], TRUE)]]

\* "eval-new-ctx n".  The table is looked at first, so that a full one is full for names it has too.
New(n) ==
  /\ IF n_ctx = MAX_CTX THEN answer' = Say("full") /\ UNCHANGED list
     ELSE IF Find(n) # NULL THEN answer' = Say("exists") /\ UNCHANGED list
     ELSE answer' = Say("new") /\ Create(n)
  /\ Silent

\* "eval-new-ctx" without a name: it is cut to MAX_NAME before it is looked at.
NewNothing ==
  /\ IF n_ctx = MAX_CTX THEN answer' = Say("full") /\ UNCHANGED alive
     ELSE alive' = FALSE /\ UNCHANGED answer
  /\ printed' = <<>> /\ UNCHANGED list

\* "eval-del-ctx n"
Del(n) ==
  /\ LET node == Find(n)
     IN  IF n_ctx = 0 \/ node = NULL THEN answer' = Say("not found") /\ UNCHANGED list
         ELSE answer' = Say("done") /\ DelNode(node) /\ n_ctx' = n_ctx - 1
  /\ Silent

\* "eval-run-ctx n ..." and "eval ...", in the global context
Run(n) ==
  /\ IF Find(n) = NULL THEN answer' = Say("not found") /\ printed' = <<>>
     ELSE answer' = Say("values") /\ \E input \in Inputs : Evaluate(input)
  /\ UNCHANGED <<list, alive>>

Eval(input) == answer' = Say("values") /\ Evaluate(input) /\ UNCHANGED <<list, alive>>

\* "eval-list-ctx"
List == answer' = [say |-> "contexts", names |-> Names] /\ Silent /\ UNCHANGED list

\* destroy: every node from the first on, and not the counter
Destroy ==
  /\ heap' = <<>> /\ ctx_list' = NULL /\ ctx_list_head' = NULL
  /\ answer' = Say("none") /\ Silent

\* preload runs destroy and init of the module as it is in memory.
Reload == Destroy /\ UNCHANGED n_ctx

\* punload and pload: the module is mapped anew.
Unload == Destroy /\ n_ctx' = 0

Next ==
  /\ alive
  /\ \/ \E n \in Name : New(n) \/ Del(n) \/ Run(n)
     \/ \E input \in Inputs : Eval(input)
     \/ NewNothing \/ List \/ Reload \/ Unload

Spec == Init /\ [][Next]_vars

-----------------------------------------------------------------------------
TypeOK ==
  /\ DOMAIN heap \subseteq Cell /\ {ctx_list, ctx_list_head} \subseteq Cell \cup {NULL}
  /\ n_ctx \in 0 .. MAX_CTX

\* The commands act on a table of names in order, no name twice, and the answers are those of that
\* table: the pointers and the counter never tell another story (lisp.c:75, 271), but for a preload, which
\* empties the table and does not give its slots back (lisp.c:370).
Table == INSTANCE Contexts WITH contexts <- Names, Slots <- MAX_CTX, lost <- n_ctx - Len(Names)
ImplementsTable == Table!Init /\ [][Table!Next]_<<Table!vars>>

\* A value is written as one writes a list, and within the memory that was counted for it, if no
\* number in it takes eleven characters (lisp.c:167, 200, 226).
PrintsLists ==
  /\ TypeOK
  /\ \A i \in DOMAIN printed :
       LET text == printed[i].text
           long == \E j \in DOMAIN text : text[j].type = "integer" /\ text[j].width > 10
       IN  /\ text = Notation(printed[i].value)
           /\ long \/ Taken(text) <= Count(printed[i].value, TRUE)
=============================================================================
