------------------------------ MODULE MCIoLoop ------------------------------
\* Two descriptors, one timer, entries enough for one of each to wait marked.
EXTENDS IoLoop, TLC

Permuted == Permutations(Entry) \cup Permutations(Descriptor)
=============================================================================
