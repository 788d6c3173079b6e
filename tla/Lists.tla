-------------------------------- MODULE Lists --------------------------------
(***************************************************************************)
(* Walks over the linked lists of src/include/list.h that delete some of   *)
(* the entries on their way.  A list is the sequence of its entries, from  *)
(* the head on.                                                            *)
(***************************************************************************)
EXTENDS Integers, Sequences

\* What list_for_each_entry_safe leaves when it deletes the entries that are
\* not at the positions I: the others, in their order.
Sublist(s, I) ==
  LET upto[n \in 0 .. Len(s)] ==
        IF n = 0 THEN <<>>
        ELSE IF n \in I THEN Append(upto[n - 1], s[n]) ELSE upto[n - 1]
  IN  upto[Len(s)]

\* What becomes of x on a walk through n entries: step[<<i, v>>] is what entry i makes of v.
Through(n, x, step) ==
  LET upto[i \in 0 .. n] == IF i = 0 THEN x ELSE step[<<i, upto[i - 1]>>]
  IN  upto[n]
=============================================================================
