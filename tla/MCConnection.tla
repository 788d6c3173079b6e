---------------------------- MODULE MCConnection ----------------------------
\* Two servers, the first one given by name and the second one by address; an
\* AAAA query comes before the A query and a server may fall silent.  One tick
\* ends a query, more than two ticks of silence are the connection timeout.
EXTENDS Connection
=============================================================================
