------------------------------- MODULE MCHttp -------------------------------
\* Empty pages and pages of up to three bytes, in up to two chunks; the buffer
\* holds a whole short answer but not the longest ones.
EXTENDS Http

MCSizes == {<<>>, <<1>>, <<3>>, <<1, 2>>}
=============================================================================
