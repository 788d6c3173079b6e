------------------------------ MODULE MCPlugins ------------------------------
\* The dependencies of plugin, auth, reminder, join and nick as in their
\* PLUGIN_DEF, and a circle of two.
EXTENDS Plugins

MCDeps == [plugin |-> <<"auth">>, auth |-> <<>>, reminder |-> <<"join">>,
           join |-> <<"nick">>, nick |-> <<>>, a |-> <<"b">>, b |-> <<"a">>]

MCConfigured == <<"reminder", "a", "join", "plugin", "b", "auth", "nick">>
=============================================================================
