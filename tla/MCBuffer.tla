------------------------------ MODULE MCBuffer ------------------------------
\* A ring of three cells and writes of up to four bytes: every write fits,
\* fits exactly, wraps around, or is refused.
EXTENDS Buffer
=============================================================================
