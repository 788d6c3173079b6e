------------------------------- MODULE MCMain -------------------------------
\* Configurations of up to three servers, with and without the other settings.
EXTENDS Main
=============================================================================
