----------------------------- MODULE MCChannels -----------------------------
\* One configured channel and two users: a nick can change and a MODE line can
\* have both signs.  The channel is not the first of its entry, so that loading
\* join.so anew loses it; an order then leaves what loading it anew would with
\* the channel found.  Two retries tell the last try from the first.  Two lines
\* to the bot are a JOIN with its names, and users speak when there is none,
\* which leaves orders and the timer to cross what is under way.
EXTENDS Channels
=============================================================================
