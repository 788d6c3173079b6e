---------------------------- MODULE MCLineReader ----------------------------
\* Lines shorter and longer than LineMax; bursts below and above Size.
EXTENDS LineReader
=============================================================================
