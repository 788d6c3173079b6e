------------------------------ MODULE Contexts ------------------------------
(***************************************************************************)
(* What the commands of src/lisp.c promise: a table of at most Slots       *)
(* contexts, each with a name of its own, listed in the order they were    *)
(* made in.  A reload empties it, and the slots are lost until the plugin  *)
(* is unloaded.  Lisp implements it with a linked list and a counter.      *)
(***************************************************************************)
EXTENDS Naturals, Sequences, SequencesExt

CONSTANTS Name, Slots

VARIABLES
  contexts,  \* the names, oldest first
  lost,      \* slots that reloads have lost
  answer     \* what the last command was answered with: [say, names]

table == <<contexts, lost>>
vars == <<table, answer>>

Say(what) == [say |-> what, names |-> <<>>]

Known(n) == \E i \in DOMAIN contexts : contexts[i] = n

Init == contexts = <<>> /\ lost = 0 /\ answer = Say("none")

New(n) ==
  IF Len(contexts) + lost = Slots THEN answer' = Say("full") /\ UNCHANGED table
  ELSE IF Known(n) THEN answer' = Say("exists") /\ UNCHANGED table
  ELSE answer' = Say("new") /\ contexts' = Append(contexts, n) /\ UNCHANGED lost

Del(n) ==
  /\ answer' = Say(IF Known(n) THEN "done" ELSE "not found")
  /\ contexts' = Remove(contexts, n) /\ UNCHANGED lost

Run(n) == answer' = Say(IF Known(n) THEN "values" ELSE "not found") /\ UNCHANGED table

Eval == answer' = Say("values") /\ UNCHANGED table

List ==
  /\ answer' = [say |-> "contexts", names |-> contexts]
  /\ UNCHANGED table

Empty == contexts' = <<>> /\ answer' = Say("none")

Reload == Empty /\ lost' = lost + Len(contexts)

Unload == Empty /\ lost' = 0

Next == List \/ Eval \/ Reload \/ Unload \/ \E n \in Name : New(n) \/ Del(n) \/ Run(n)

Spec == Init /\ [][Next]_vars
=============================================================================
