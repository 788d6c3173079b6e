----------------------------- MODULE MCResolver -----------------------------
\* Two requesters and names, two queries at a time, two name servers, and an answer
\* that may still be under way when its query is gone and its id drawn again.
EXTENDS Resolver, TLC

Permuted == Permutations(Requester) \cup Permutations(Name)
=============================================================================
