-------------------------------- MODULE Main --------------------------------
(***************************************************************************)
(* src/main.c: starting, going to the background, and the loop of          *)
(* sessions that quit, restart and reload (src/quit.c) end.  A session is  *)
(* irc_init, the plugins, a connection, io_loop, irc_free.  The delays      *)
(* between attempts and between sessions are left out.                     *)
(***************************************************************************)
EXTENDS Integers

CONSTANT MaxServers  \* bound on "server" entries

ASSUME MainAssumption == MaxServers \in Nat \ {0}

VARIABLES
  daemonize,  \* settings.daemonize
  m           \* the memory of each process, and where its main is

vars == <<daemonize, m>>

Process == {"parent", "child"}

RL_OFFLINE == 0
RL_RUNNING == 1
RL_RESTART == 2
RL_RELOAD == 3

\* What checkconfig asks for: a server and, for all else, the port.
Config == [servers : 0 .. MaxServers, port : BOOLEAN]
NoConfig == [servers |-> 0, port |-> FALSE]

Fresh == [at |-> "none", code |-> 0, runlevel |-> RL_OFFLINE, config |-> NoConfig,
          nextserv |-> 0, bs |-> "none", loaded |-> FALSE, plugins |-> FALSE,
          shrunk |-> FALSE, unchecked |-> FALSE]

Init ==
  /\ daemonize \in BOOLEAN
  /\ m = [p \in Process |-> IF p = "parent" THEN [Fresh EXCEPT !.at = "parse"] ELSE Fresh]

Set(p, r) == m' = [m EXCEPT ![p] = r] /\ UNCHANGED daemonize

Exit(p, code) == Set(p, [m[p] EXCEPT !.at = "exit", !.code = code])

-----------------------------------------------------------------------------
(* Before the sessions. *)

\* Mutant: a port is not asked for.
CheckedServers(c) == c.servers > 0

Checked(c) == c.servers > 0 /\ c.port

\* config_parse and checkconfig
Parse(p) ==
  /\ m[p].at = "parse"
  /\ \/ Exit(p, -1)
     \/ \E c \in Config :
          IF Checked(c)
            THEN Set(p, [m[p] EXCEPT !.config = c, !.at = IF daemonize THEN "fork" ELSE "setup"])
            ELSE Exit(p, -1)

\* fork: the switch behind it knows -1 and all the rest.
AfterFork(pid) == IF pid = -1 THEN -1 ELSE 0

Fork(p) ==
  /\ m[p].at = "fork"
  /\ \/ Exit(p, AfterFork(-1))
     \/ /\ m' = [m EXCEPT !["parent"] = [@ EXCEPT !.at = "exit", !.code = AfterFork(1)],
                          !["child"] = [m["parent"] EXCEPT !.at = "exit", !.code = AfterFork(0)]]
        /\ UNCHANGED daemonize

\* secure_it and dns_init
Setup(p) ==
  /\ m[p].at = "setup"
  /\ Exit(p, -1) \/ Set(p, [m[p] EXCEPT !.at = "init", !.runlevel = RL_RUNNING])

-----------------------------------------------------------------------------
(* One session after another. *)

IrcInit(p) ==
  /\ m[p].at = "init"
  /\ Exit(p, -1) \/ Set(p, [m[p] EXCEPT !.at = "load", !.bs = "live"])

\* plugins_load, unless the flag plugins_loaded says that they are there
Load(p) ==
  /\ m[p].at = "load"
  /\ Set(p, [m[p] EXCEPT !.at = "connect", !.loaded = TRUE, !.plugins = @ \/ ~m[p].loaded])

\* irc_conn asks for server nextserv and for the port without looking at the
\* result: config_getn and config_get return NULL for what is not there.
Defined(r) == r.nextserv < r.config.servers /\ r.config.port

\* Mutant: nextserv is not taken modulo the number of servers.
NextServsUnwrapped(r) == 1 .. r.config.servers

\* Where irc_conn may leave nextserv after one or more attempts.
NextServs(r) == 0 .. r.config.servers - 1

Crash(p) == Set(p, [m[p] EXCEPT !.at = "crash"])

\* while (irc_conn() == -1) sleep: on failure every server has had its turn.
Connect(p) ==
  /\ m[p].at = "connect"
  /\ IF ~Defined(m[p]) THEN Crash(p)
     ELSE \E n \in NextServs(m[p]) :
            \/ Set(p, [m[p] EXCEPT !.at = "loop", !.nextserv = n])
            \/ n = m[p].nextserv /\ UNCHANGED vars

\* irc_conn, called back by io_loop: nextserv moves on.
Reconnect(p) ==
  /\ m[p].at = "loop"
  /\ IF ~Defined(m[p]) THEN Crash(p)
     ELSE \E n \in NextServs(m[p]) : Set(p, [m[p] EXCEPT !.nextserv = n])

\* The commands of quit.c; io_loop ends its turn, so another may follow.
Command(p, rl) ==
  /\ m[p].at = "loop"
  /\ Set(p, [m[p] EXCEPT !.runlevel = rl])

\* Mutant: a reload keeps the plugins.
FreeToReload(p) ==
  /\ m[p].at = "loop" /\ m[p].runlevel # RL_RUNNING
  /\ Set(p, [m[p] EXCEPT !.at = IF m[p].runlevel = RL_RELOAD THEN "reload" ELSE "unload",
                         !.bs = "freed"])

\* irc_free: irc.bs keeps the address.
Free(p) ==
  /\ m[p].at = "loop" /\ m[p].runlevel # RL_RUNNING
  /\ Set(p, [m[p] EXCEPT !.at = "unload", !.bs = "freed"])

\* Mutant: plugins_loaded is not reset.
UnloadForgets(p) ==
  /\ m[p].at = "unload"
  /\ Set(p, [m[p] EXCEPT !.plugins = FALSE,
                         !.at = IF m[p].runlevel = RL_RELOAD THEN "reload" ELSE "wait"])

Unload(p) ==
  /\ m[p].at = "unload"
  /\ Set(p, [m[p] EXCEPT !.loaded = FALSE, !.plugins = FALSE,
                         !.at = IF m[p].runlevel = RL_RELOAD THEN "reload" ELSE "wait"])

\* The new configuration, with ghosts for what main does not look at: it may be
\* one that checkconfig refuses, or have less servers than nextserv has passed.
Reloaded(r, c) ==
  [r EXCEPT !.config = c, !.at = "wait", !.runlevel = RL_RUNNING,
            !.shrunk = c.servers <= r.nextserv, !.unchecked = c.servers = 0 \/ ~c.port]

\* config_parse keeps the old configuration when the file cannot be opened and
\* has freed it when the file cannot be parsed; whatever happens, and whatever
\* checkconfig says, runlevel is RL_RUNNING in the end.
Reload(p) ==
  /\ m[p].at = "reload"
  /\ \E c \in Config \cup {NoConfig, m[p].config} : Set(p, Reloaded(m[p], c))

Restarts(rl) == rl # RL_OFFLINE

Wait(p) ==
  /\ m[p].at = "wait"
  /\ IF Restarts(m[p].runlevel)
       THEN Set(p, [m[p] EXCEPT !.at = "init", !.runlevel = RL_RUNNING])
       ELSE Exit(p, 0)

Stopped == \A p \in Process : m[p].at \in {"none", "exit", "crash"}

Next ==
  \/ \E p \in Process :
       \/ Parse(p) \/ Fork(p) \/ Setup(p)
       \/ IrcInit(p) \/ Load(p) \/ Connect(p) \/ Reconnect(p)
       \/ Command(p, RL_OFFLINE) \/ Command(p, RL_RESTART) \/ Command(p, RL_RELOAD)
       \/ Free(p) \/ Unload(p) \/ Reload(p) \/ Wait(p)
  \/ Stopped /\ UNCHANGED vars

Spec == Init /\ [][Next]_vars

-----------------------------------------------------------------------------
\* The server that irc_conn asks for exists, in every session and whatever came
\* before, unless a reload brought a configuration that main does not look at
\* (main.c:257-266) or left nextserv behind the last server (irc.c:337).
CrashOnlyAfterReload ==
  \A p \in Process : m[p].at = "crash" => m[p].unchecked \/ m[p].shrunk

\* Callbacks run with their plugins loaded and with a socket object, after any
\* number of restarts and reloads.
SessionComplete ==
  \A p \in Process : m[p].at = "loop" => m[p].plugins /\ m[p].bs = "live"

\* The configuration changes only while no plugin is loaded that may hold a
\* string of it.
ConfigReadUnplugged ==
  [][\A p \in Process : m[p].at # "parse" /\ m[p].at # "fork" /\ m[p].config # m[p].config'
        => ~m[p].plugins]_vars

\* The usage text of -d, "Daemonize (fork to background)": when all processes
\* have ended, one of them had an error to report or was told to quit.
DaemonRuns ==
  daemonize /\ (\A p \in Process : m[p].at \in {"none", "exit"})
    => \E p \in Process : m[p].code = -1 \/ m[p].bs = "freed"
=============================================================================
