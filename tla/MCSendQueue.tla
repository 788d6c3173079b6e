---------------------------- MODULE MCSendQueue -----------------------------
\* Five lines of one or two bytes over up to two connections, through a ring
\* of four bytes.
EXTENDS SendQueue
=============================================================================
