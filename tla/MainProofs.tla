----------------------------- MODULE MainProofs -----------------------------
(***************************************************************************)
(* Main for any bound on the number of servers: what holds of a process    *)
(* over any sequence of restarts and reloads.  Plugins for any modules,    *)
(* dependencies and configuration, circles included.  Http for any answers *)
(* and any size of recvbuf.                                                *)
(***************************************************************************)
EXTENDS Main, Plugins, Http, ListProofs

Places == {"none", "parse", "fork", "setup", "init", "load", "connect", "loop",
           "unload", "reload", "wait", "exit", "crash"}

RunLevel == {RL_OFFLINE, RL_RUNNING, RL_RESTART, RL_RELOAD}

Memory ==
  [at : Places, code : {-1, 0}, runlevel : RunLevel, config : Config,
   nextserv : Nat, bs : {"none", "live", "freed"}, loaded : BOOLEAN, plugins : BOOLEAN,
   shrunk : BOOLEAN, unchecked : BOOLEAN]

\* A place from which main goes on with the configuration it has.
Going(at) == at \notin {"none", "parse", "exit"}

\* What holds of the memory of one process.  The flag plugins_loaded tells the
\* truth, plugins are there from plugins_load to plugins_unload, the socket
\* object from irc_init to irc_free; the configuration is one that checkconfig
\* accepted and nextserv names a server of it, or the ghosts say otherwise.
Sound(r) ==
  /\ r \in Memory
  /\ r.plugins <=> r.loaded
  /\ r.at \in {"connect", "loop"} => r.plugins
  /\ r.at \in {"none", "parse", "fork", "setup", "init", "reload", "wait"} => ~r.plugins
  /\ r.at \in {"load", "connect", "loop"} => r.bs = "live"
  /\ r.at = "parse" => r.nextserv = 0
  /\ Going(r.at) => r.unchecked \/ Checked(r.config)
  /\ Going(r.at) => r.unchecked \/ r.shrunk \/ r.nextserv < r.config.servers
  /\ r.at = "crash" => r.unchecked \/ r.shrunk

\* The child leaves main at once, as the parent does, so only a parent that has
\* no child ever has sessions.
Inv ==
  /\ DOMAIN m = Process
  /\ \A p \in Process : Sound(m[p])
  /\ m["child"].at = "none" \/ (m["child"].at = "exit" /\ m["parent"].at = "exit")

\* A step of one process that keeps its own memory sound keeps the invariant.
LEMMA SetKeeps ==
  ASSUME Inv, NEW p \in Process, NEW r, Sound(r), Set(p, r),
         m[p].at \notin {"none", "exit"}
  PROVE  Inv'
<1>1. p = "parent"
  BY DEF Inv, Process
<1>2. m' = [m EXCEPT !["parent"] = r]
  BY <1>1 DEF Set
<1>3. m'["parent"] = r /\ m'["child"] = m["child"] /\ DOMAIN m' = Process
  BY <1>2 DEF Inv, Process
<1> QED BY <1>3 DEF Inv, Process

\* The end of a process is sound whatever was before.
LEMMA ExitKeeps ==
  ASSUME Inv, NEW p \in Process, NEW code \in {-1, 0}, Exit(p, code),
         m[p].at \notin {"none", "exit"}
  PROVE  Inv'
<1> DEFINE r == [m[p] EXCEPT !.at = "exit", !.code = code]
<1>1. Sound(m[p])
  BY DEF Inv
<1>2. Sound(r)
  BY <1>1 DEF Sound, Memory, Places, Going
<1> QED BY <1>2, SetKeeps DEF Exit

\* An undefined entry of the configuration shows in the ghosts.
LEMMA CrashKeeps ==
  ASSUME Inv, NEW p \in Process, Crash(p), ~Defined(m[p]), m[p].at \in {"connect", "loop"}
  PROVE  Inv'
<1> DEFINE r == [m[p] EXCEPT !.at = "crash"]
<1>1. Sound(m[p])
  BY DEF Inv
<1>2. m[p].unchecked \/ m[p].shrunk
  BY <1>1 DEF Sound, Defined, Checked, Going
<1>3. Sound(r)
  BY <1>1, <1>2 DEF Sound, Memory, Places, Going, Checked
<1> QED BY <1>3, SetKeeps DEF Crash

\* checkconfig lets only complete configurations through.
LEMMA ParseKeeps ==
  ASSUME Inv, NEW p \in Process, Parse(p)
  PROVE  Inv'
<1>1. Sound(m[p]) /\ m[p].at = "parse"
  BY DEF Inv, Parse
<1>2. CASE Exit(p, -1)
  BY <1>1, <1>2, ExitKeeps
<1>3. ASSUME NEW c \in Config, Checked(c),
             Set(p, [m[p] EXCEPT !.config = c, !.at = IF daemonize THEN "fork" ELSE "setup"])
      PROVE  Inv'
  <2> DEFINE at == IF daemonize THEN "fork" ELSE "setup"
             r == [m[p] EXCEPT !.config = c, !.at = at]
  <2>1. at \in {"fork", "setup"}
    OBVIOUS
  <2> HIDE DEF at
  <2>2. c.servers \in Nat /\ c.servers > 0
    BY <1>3, MainAssumption DEF Config, Checked
  <2>3. Sound(r)
    BY <1>1, <1>3, <2>1, <2>2 DEF Sound, Memory, Places, Going
  <2> QED BY <1>1, <1>3, <2>3, SetKeeps DEF at
<1> QED BY <1>2, <1>3 DEF Parse

\* Parent and child leave main together.
LEMMA ForkKeeps ==
  ASSUME Inv, NEW p \in Process, Fork(p)
  PROVE  Inv'
<1>1. Sound(m[p]) /\ m[p].at = "fork" /\ p = "parent"
  BY DEF Inv, Fork, Process
<1>2. CASE Exit(p, AfterFork(-1))
  BY <1>1, <1>2, ExitKeeps DEF AfterFork
<1>3. CASE m' = [m EXCEPT !["parent"] = [@ EXCEPT !.at = "exit", !.code = AfterFork(1)],
                          !["child"] = [m["parent"] EXCEPT !.at = "exit", !.code = AfterFork(0)]]
  <2> DEFINE r == [m["parent"] EXCEPT !.at = "exit", !.code = 0]
  <2>1. m'["parent"] = r /\ m'["child"] = r /\ DOMAIN m' = Process
    BY <1>3 DEF Inv, Process, AfterFork
  <2>2. Sound(r)
    BY <1>1 DEF Sound, Memory, Places, Going
  <2>3. r.at = "exit"
    BY <1>1 DEF Sound, Memory
  <2> QED BY <2>1, <2>2, <2>3 DEF Inv, Process
<1> QED BY <1>2, <1>3 DEF Fork

\* irc_conn leaves nextserv at a server of the configuration it worked on.
LEMMA ConnKeeps ==
  ASSUME Inv, NEW p \in Process, m[p].at \in {"connect", "loop"}, Defined(m[p]),
         NEW n \in NextServs(m[p]), Set(p, [m[p] EXCEPT !.at = "loop", !.nextserv = n])
  PROVE  Inv'
<1> DEFINE r == [m[p] EXCEPT !.at = "loop", !.nextserv = n]
<1>1. Sound(m[p])
  BY DEF Inv
<1>2. m[p].config.servers \in Nat
  BY <1>1, MainAssumption DEF Sound, Memory, Config
<1>3. n \in Nat /\ n < m[p].config.servers
  BY <1>2 DEF NextServs
<1>4. Sound(r)
  BY <1>1, <1>3 DEF Sound, Memory, Places, Going
<1> QED BY <1>4, SetKeeps

\* A new configuration comes with the ghosts that tell what is wrong with it.
LEMMA ReloadKeeps ==
  ASSUME Inv, NEW p \in Process, Reload(p)
  PROVE  Inv'
<1>1. Sound(m[p]) /\ m[p].at = "reload"
  BY DEF Inv, Reload
<1>2. PICK c \in Config \cup {NoConfig, m[p].config} : Set(p, Reloaded(m[p], c))
  BY DEF Reload
<1>3. c \in Config
  <2>1. NoConfig \in Config
    BY MainAssumption DEF NoConfig, Config
  <2>2. m[p].config \in Config
    BY <1>1 DEF Sound, Memory
  <2> QED BY <1>2, <2>1, <2>2
<1>4. c.servers \in Nat /\ c.port \in BOOLEAN
  BY <1>3, MainAssumption DEF Config
<1> DEFINE r == Reloaded(m[p], c)
           shrunk == c.servers <= m[p].nextserv
           unchecked == c.servers = 0 \/ ~c.port
<1>5. shrunk \in BOOLEAN /\ unchecked \in BOOLEAN
  OBVIOUS
<1>6. r = [m[p] EXCEPT !.config = c, !.at = "wait", !.runlevel = RL_RUNNING,
                       !.shrunk = shrunk, !.unchecked = unchecked]
  BY DEF Reloaded
<1>7. (unchecked \/ Checked(c)) /\ (shrunk \/ m[p].nextserv < c.servers)
  BY <1>1, <1>4 DEF Checked, Sound, Memory
<1> HIDE DEF shrunk, unchecked, r
<1>8. Sound(r)
  <2>1. r \in Memory
    BY <1>1, <1>3, <1>5, <1>6 DEF Sound, Memory, RunLevel, Places
  <2>2. /\ r.at = "wait" /\ r.config = c /\ r.nextserv = m[p].nextserv
        /\ r.shrunk = shrunk /\ r.unchecked = unchecked
    BY <1>1, <1>6 DEF Sound, Memory
  <2>3. r.plugins = FALSE /\ r.loaded = FALSE
    BY <1>1, <1>6 DEF Sound, Memory
  <2> QED BY <1>7, <2>1, <2>2, <2>3 DEF Sound
<1> QED BY <1>1, <1>2, <1>8, SetKeeps DEF r

-----------------------------------------------------------------------------
\* main starts with empty memory.
LEMMA InitInv == ASSUME Init PROVE Inv
<1>1. Sound(Fresh)
  BY MainAssumption DEF Sound, Fresh, Memory, Places, Going, NoConfig, Config,
                        RunLevel
<1>2. Sound([Fresh EXCEPT !.at = "parse"])
  BY <1>1 DEF Sound, Fresh, Memory, Places, Going
<1> QED BY <1>1, <1>2 DEF Init, Inv, Process, Fresh

\* One step per function of main: each leaves the memory sound.
LEMMA NextInv == ASSUME Inv, [Next]_vars PROVE Inv'
<1>1. CASE UNCHANGED vars
  BY <1>1 DEF Inv, vars
<1>2. ASSUME NEW p \in Process,
             \/ Parse(p) \/ Fork(p) \/ Setup(p)
             \/ IrcInit(p) \/ Load(p) \/ Connect(p) \/ Reconnect(p)
             \/ Command(p, RL_OFFLINE) \/ Command(p, RL_RESTART) \/ Command(p, RL_RELOAD)
             \/ Free(p) \/ Unload(p) \/ Reload(p) \/ Wait(p)
      PROVE  Inv'
  <2> USE DEF RunLevel
  <2>1. Sound(m[p])
    BY DEF Inv
  <2>2. CASE Parse(p)
    BY <2>2, ParseKeeps
  <2>3. CASE Fork(p)
    BY <2>3, ForkKeeps
  <2>4. CASE Setup(p)
    <3> DEFINE r == [m[p] EXCEPT !.at = "init", !.runlevel = RL_RUNNING]
    <3>1. m[p].at = "setup" /\ (Exit(p, -1) \/ Set(p, r))
      BY <2>4 DEF Setup
    <3>2. Sound(r)
      BY <2>1, <3>1 DEF Sound, Memory, Places, Going
    <3>3. CASE Exit(p, -1)
      BY <3>1, <3>3, ExitKeeps
    <3>4. CASE Set(p, r)
      BY <3>1, <3>2, <3>4, SetKeeps
    <3> QED BY <3>1, <3>3, <3>4
  <2>5. CASE IrcInit(p)
    <3> DEFINE r == [m[p] EXCEPT !.at = "load", !.bs = "live"]
    <3>1. m[p].at = "init" /\ (Exit(p, -1) \/ Set(p, r))
      BY <2>5 DEF IrcInit
    <3>2. Sound(r)
      BY <2>1, <3>1 DEF Sound, Memory, Places, Going
    <3>3. CASE Exit(p, -1)
      BY <3>1, <3>3, ExitKeeps
    <3>4. CASE Set(p, r)
      BY <3>1, <3>2, <3>4, SetKeeps
    <3> QED BY <3>1, <3>3, <3>4
  <2>6. CASE Load(p)
    <3> DEFINE there == m[p].plugins \/ ~m[p].loaded
               r == [m[p] EXCEPT !.at = "connect", !.loaded = TRUE, !.plugins = there]
    <3>1. m[p].at = "load" /\ Set(p, r)
      BY <2>6 DEF Load
    <3>2. there = TRUE
      BY <2>1 DEF Sound, Memory
    <3> HIDE DEF there
    <3>3. Sound(r)
      BY <2>1, <3>1, <3>2 DEF Sound, Memory, Places, Going
    <3> QED BY <3>1, <3>3, SetKeeps
  <2>7. CASE Connect(p)
    <3>1. m[p].at = "connect"
      BY <2>7 DEF Connect
    <3>2. CASE UNCHANGED vars
      BY <3>2, <1>1
    <3>3. CASE ~Defined(m[p]) /\ Crash(p)
      BY <3>1, <3>3, CrashKeeps
    <3>4. ASSUME Defined(m[p]), NEW n \in NextServs(m[p]),
                 Set(p, [m[p] EXCEPT !.at = "loop", !.nextserv = n])
          PROVE  Inv'
      BY <3>1, <3>4, ConnKeeps
    <3> QED BY <2>7, <3>2, <3>3, <3>4 DEF Connect
  <2>8. CASE Reconnect(p)
    <3>1. m[p].at = "loop"
      BY <2>8 DEF Reconnect
    <3>2. CASE ~Defined(m[p]) /\ Crash(p)
      BY <3>1, <3>2, CrashKeeps
    <3>3. ASSUME Defined(m[p]), NEW n \in NextServs(m[p]),
                 Set(p, [m[p] EXCEPT !.nextserv = n])
          PROVE  Inv'
      <4>1. [m[p] EXCEPT !.nextserv = n] = [m[p] EXCEPT !.at = "loop", !.nextserv = n]
        BY <2>1, <3>1 DEF Sound, Memory
      <4> QED BY <3>1, <3>3, <4>1, ConnKeeps
    <3> QED BY <2>8, <3>2, <3>3 DEF Reconnect
  <2>9. ASSUME NEW rl \in RunLevel, Command(p, rl)
        PROVE  Inv'
    <3> DEFINE r == [m[p] EXCEPT !.runlevel = rl]
    <3>1. m[p].at = "loop" /\ Set(p, r)
      BY <2>9 DEF Command
    <3>2. Sound(r)
      BY <2>1, <3>1 DEF Sound, Memory, Places, Going
    <3> QED BY <3>1, <3>2, SetKeeps
  <2>10. CASE Free(p)
    <3> DEFINE r == [m[p] EXCEPT !.at = "unload", !.bs = "freed"]
    <3>1. m[p].at = "loop" /\ Set(p, r)
      BY <2>10 DEF Free
    <3>2. Sound(r)
      BY <2>1, <3>1 DEF Sound, Memory, Places, Going
    <3> QED BY <3>1, <3>2, SetKeeps
  <2>11. CASE Unload(p)
    <3> DEFINE at == IF m[p].runlevel = RL_RELOAD THEN "reload" ELSE "wait"
               r == [m[p] EXCEPT !.loaded = FALSE, !.plugins = FALSE, !.at = at]
    <3>1. m[p].at = "unload" /\ Set(p, r)
      BY <2>11 DEF Unload
    <3>2. at \in {"reload", "wait"}
      OBVIOUS
    <3> HIDE DEF at
    <3>3. Sound(r)
      BY <2>1, <3>1, <3>2 DEF Sound, Memory, Places, Going
    <3> QED BY <3>1, <3>3, SetKeeps
  <2>12. CASE Reload(p)
    BY <2>12, ReloadKeeps
  <2>13. CASE Wait(p)
    <3> DEFINE r == [m[p] EXCEPT !.at = "init", !.runlevel = RL_RUNNING]
    <3>1. m[p].at = "wait" /\ (Exit(p, 0) \/ Set(p, r))
      BY <2>13 DEF Wait
    <3>2. Sound(r)
      BY <2>1, <3>1 DEF Sound, Memory, Places, Going
    <3>3. CASE Exit(p, 0)
      BY <3>1, <3>3, ExitKeeps
    <3>4. CASE Set(p, r)
      BY <3>1, <3>2, <3>4, SetKeeps
    <3> QED BY <3>1, <3>3, <3>4
  <2> QED BY <1>2, <2>2, <2>3, <2>4, <2>5, <2>6, <2>7, <2>8, <2>9, <2>10, <2>11, <2>12, <2>13
<1> QED BY <1>1, <1>2 DEF Next, vars

\* The memory of every process is sound in every reachable state.
THEOREM MainInv == Spec => []Inv
BY InitInv, NextInv, PTL DEF Spec

\* The server that irc_conn asks for exists in every session, but for what a
\* reload brought or left behind.
THEOREM MainCrashOnlyAfterReload == Spec => []CrashOnlyAfterReload
<1>1. Inv => CrashOnlyAfterReload
  BY DEF Inv, Sound, CrashOnlyAfterReload
<1> QED BY <1>1, MainInv, PTL

\* No callback of a session runs without the plugins or the socket object.
THEOREM MainSessionComplete == Spec => []SessionComplete
<1>1. Inv => SessionComplete
  BY DEF Inv, Sound, SessionComplete
<1> QED BY <1>1, MainInv, PTL

\* Only a process without plugins gets another configuration after its start.
THEOREM MainConfigReadUnplugged == Spec => ConfigReadUnplugged
<1> DEFINE Unplugged ==
      \A p \in Process : m[p].at # "parse" /\ m[p].at # "fork" /\ m[p].config # m[p].config'
                           => ~m[p].plugins
<1>1. ASSUME Inv, [Next]_vars PROVE [Unplugged]_vars
  <2> SUFFICES ASSUME Next, NEW p \in Process, m[p].plugins PROVE m[p].config = m[p].config'
    BY <1>1
  <2>1. /\ Sound(m[p]) /\ DOMAIN m = Process
        /\ m[p].at \notin {"none", "parse", "fork", "setup", "init", "reload", "wait"}
    BY <1>1 DEF Inv, Sound
  <2>2. ASSUME NEW q \in Process, NEW r, Set(q, r), q # p \/ r.config = m[q].config
        PROVE  m[p].config = m[p].config'
    BY <2>1, <2>2 DEF Set
  <2>3. ASSUME NEW q \in Process, NEW code, Exit(q, code)
        PROVE  m[p].config = m[p].config'
    BY <1>1, <2>2, <2>3 DEF Exit, Inv, Sound, Memory
  <2>4. ASSUME NEW q \in Process,
               \/ Setup(q) \/ IrcInit(q) \/ Load(q) \/ Connect(q) \/ Reconnect(q)
               \/ Command(q, RL_OFFLINE) \/ Command(q, RL_RESTART) \/ Command(q, RL_RELOAD)
               \/ Free(q) \/ Unload(q) \/ Wait(q)
        PROVE  m[p].config = m[p].config'
    <3>1. Sound(m[q])
      BY <1>1 DEF Inv
    <3>2. CASE Setup(q)
      BY <3>1, <3>2, <2>2, <2>3 DEF Setup, Sound, Memory
    <3>3. CASE IrcInit(q)
      BY <3>1, <3>3, <2>2, <2>3 DEF IrcInit, Sound, Memory
    <3>4. CASE Load(q)
      BY <3>1, <3>4, <2>2 DEF Load, Sound, Memory
    <3>5. CASE Connect(q)
      BY <3>1, <3>5, <2>2 DEF Connect, Crash, Sound, Memory, vars
    <3>6. CASE Reconnect(q)
      BY <3>1, <3>6, <2>2 DEF Reconnect, Crash, Sound, Memory
    <3>7. ASSUME NEW rl, Command(q, rl)
          PROVE  m[p].config = m[p].config'
      BY <3>1, <3>7, <2>2 DEF Command, Sound, Memory
    <3>8. CASE Free(q)
      BY <3>1, <3>8, <2>2 DEF Free, Sound, Memory
    <3>9. CASE Unload(q)
      BY <3>1, <3>9, <2>2 DEF Unload, Sound, Memory
    <3>10. CASE Wait(q)
      BY <3>1, <3>10, <2>2, <2>3 DEF Wait, Sound, Memory
    <3> QED BY <2>4, <3>2, <3>3, <3>4, <3>5, <3>6, <3>7, <3>8, <3>9, <3>10
  <2>5. ASSUME NEW q \in Process, Parse(q)
        PROVE  m[p].config = m[p].config'
    BY <2>1, <2>2, <2>3, <2>5 DEF Parse
  <2>6. ASSUME NEW q \in Process, Fork(q)
        PROVE  m[p].config = m[p].config'
    <3>1. q = "parent" /\ m["child"].at = "none" /\ m["parent"].at = "fork"
      BY <1>1, <2>6 DEF Fork, Inv, Process
    <3> QED BY <2>1, <3>1 DEF Process
  <2>7. ASSUME NEW q \in Process, Reload(q)
        PROVE  m[p].config = m[p].config'
    BY <2>1, <2>2, <2>7 DEF Reload
  <2> QED BY <2>4, <2>5, <2>6, <2>7 DEF Next, vars
<1> QED BY <1>1, MainInv, PTL DEF Spec, ConfigReadUnplugged

-----------------------------------------------------------------------------
(* The plugin registry. *)

\* No plugin is in the list twice.
Distinct(l) == \A i, j \in 1 .. Len(l) : l[i] = l[j] => i = j

\* What a plugin depends on was loaded before it.
Ordered(l) == \A i \in 1 .. Len(l) : \A d \in DepSet(l[i]) : \E j \in 1 .. Len(l) : i < j /\ l[j] = d

TimersFit(l, ts, out) == \A x \in Plugin \ out : ts[x] = IF x \in HasTimer \cap Loaded(l) THEN 1 ELSE 0

\* What plugins_open and plugins_require may make of a registry: more plugins, before the others.
Grown(r, s) ==
  /\ s \in Registries /\ Distinct(s.list)
  /\ \E pre \in Seq(Plugin) : s.list = pre \o r.list
  /\ Ordered(r.list) => Ordered(s.list)
  /\ \A out : TimersFit(r.list, r.timers, out) => TimersFit(s.list, s.timers, out)

\* The members of a list
LEMMA LoadedIs ==
  ASSUME NEW l \in Seq(Plugin)
  PROVE  /\ Len(l) \in Nat /\ DOMAIN l = 1 .. Len(l) /\ Loaded(l) \subseteq Plugin
         /\ \A i \in 1 .. Len(l) : l[i] \in Loaded(l)
         /\ \A x : x \in Loaded(l) <=> \E i \in 1 .. Len(l) : l[i] = x
<1>1. Len(l) \in Nat /\ DOMAIN l = 1 .. Len(l) /\ \A i \in 1 .. Len(l) : l[i] \in Plugin
  BY LenProperties, ElementOfSeq
<1> QED BY <1>1 DEF Loaded, ToSet

\* A list behind another one
LEMMA Behind ==
  ASSUME NEW a \in Seq(Plugin), NEW b \in Seq(Plugin)
  PROVE  /\ a \o b \in Seq(Plugin) /\ Len(a \o b) = Len(a) + Len(b) /\ Loaded(a \o b) = Loaded(a) \cup Loaded(b)
         /\ \A i \in 1 .. Len(a) : i \in 1 .. Len(a \o b) /\ (a \o b)[i] = a[i]
         /\ \A i \in 1 .. Len(b) : Len(a) + i \in 1 .. Len(a \o b) /\ (a \o b)[Len(a) + i] = b[i]
         /\ \A i \in 1 .. Len(a \o b) : i \in 1 .. Len(a) \/ (i - Len(a) \in 1 .. Len(b) /\ (a \o b)[i] = b[i - Len(a)])
<1> DEFINE c == a \o b
<1>1. Len(a) \in Nat /\ Len(b) \in Nat
  BY LenProperties
<1>2. /\ c \in Seq(Plugin) /\ Len(c) = Len(a) + Len(b)
      /\ \A i \in 1 .. Len(a) + Len(b) : c[i] = IF i <= Len(a) THEN a[i] ELSE b[i - Len(a)]
  BY ConcatProperties
<1> HIDE DEF c
<1>3. \A i \in 1 .. Len(a) : i \in 1 .. Len(c) /\ c[i] = a[i]
  BY <1>1, <1>2
<1>4. \A i \in 1 .. Len(b) : Len(a) + i \in 1 .. Len(c) /\ c[Len(a) + i] = b[i]
  BY <1>1, <1>2, SMTT(30)
<1>5. \A i \in 1 .. Len(c) : i \in 1 .. Len(a) \/ (i - Len(a) \in 1 .. Len(b) /\ c[i] = b[i - Len(a)])
  BY <1>1, <1>2
<1>6. ASSUME NEW x \in Loaded(c) PROVE x \in Loaded(a) \cup Loaded(b)
  <2>1. PICK i \in 1 .. Len(c) : c[i] = x
    BY <1>2, LoadedIs
  <2> QED BY <1>3, <1>5, <2>1, LoadedIs
<1>7. Loaded(a) \subseteq Loaded(c)
  BY <1>2, <1>3, LoadedIs
<1>8. ASSUME NEW x \in Loaded(b) PROVE x \in Loaded(c)
  <2>1. PICK i \in 1 .. Len(b) : b[i] = x
    BY LoadedIs
  <2>2. Len(a) + i \in 1 .. Len(c) /\ c[Len(a) + i] = x
    BY <1>4, <2>1
  <2> QED BY <1>2, <2>2, LoadedIs
<1> QED BY <1>2, <1>3, <1>4, <1>5, <1>6, <1>7, <1>8 DEF c

\* The same list, whatever the result says
LEMMA GrownSame ==
  ASSUME NEW r \in Registries, Distinct(r.list), NEW v \in BOOLEAN
  PROVE  Grown(r, [r EXCEPT !.ok = v])
<1> DEFINE s == [r EXCEPT !.ok = v]
<1>1. s \in Registries /\ s.list = r.list /\ s.timers = r.timers /\ r.list \in Seq(Plugin)
  BY DEF Registries
<1>2. <<>> \in Seq(Plugin) /\ r.list = <<>> \o r.list
  BY <1>1
<1> HIDE DEF s
<1>3. Grown(r, s)
  BY <1>1, <1>2 DEF Grown
<1> QED BY <1>3 DEF s

\* First one, then another
LEMMA GrownOn ==
  ASSUME NEW r \in Registries, NEW s, NEW t, Grown(r, s), Grown(s, t)
  PROVE  Grown(r, t)
<1>1. PICK a \in Seq(Plugin) : s.list = a \o r.list
  BY DEF Grown
<1>2. PICK b \in Seq(Plugin) : t.list = b \o s.list
  BY DEF Grown
<1>3. r.list \in Seq(Plugin)
  BY DEF Registries
<1>4. t.list = (b \o a) \o r.list /\ b \o a \in Seq(Plugin)
  <2>1. (b \o a) \o r.list = b \o (a \o r.list)
    <3>1. PICK l \in Seq(Plugin) : l = r.list
      BY <1>3
    <3>2. (b \o a) \o l = b \o (a \o l)
      BY ConcatAssociative
    <3> QED BY <3>1, <3>2
  <2>2. b \o a \in Seq(Plugin)
    BY ConcatProperties
  <2> QED BY <1>1, <1>2, <2>1, <2>2, Zenon
<1> QED BY <1>4 DEF Grown

\* Nothing is lost.
LEMMA GrownLoaded ==
  ASSUME NEW r \in Registries, NEW s, Grown(r, s)
  PROVE  Loaded(r.list) \subseteq Loaded(s.list)
<1>1. r.list \in Seq(Plugin)
  BY DEF Registries
<1>2. PICK a \in Seq(Plugin) : s.list = a \o r.list
  BY DEF Grown
<1> QED BY <1>1, <1>2, Behind

\* plugins_open enters a plugin that is not in the list when all it depends on is (plugins.c:166).
LEMMA EnteredGrown ==
  ASSUME NEW s \in Registries, NEW p \in Plugin, Distinct(s.list), p \notin Loaded(s.list),
         DepSet(p) \subseteq Loaded(s.list)
  PROVE  Grown(s, Entered(s, p)) /\ Loaded(Entered(s, p).list) = Loaded(s.list) \cup {p} /\ Entered(s, p).ok = TRUE
<1> DEFINE t == Entered(s, p)
           l == s.list
           h == <<p>>
           k == h \o l
<1> USE PluginsAssumption
<1>1. /\ l \in Seq(Plugin) /\ s.timers \in [Plugin -> Nat] /\ h \in Seq(Plugin) /\ Len(h) = 1 /\ h[1] = p
      /\ Len(l) \in Nat
  BY LenProperties DEF Registries
<1>2. t.list = k /\ t.ok = TRUE
      /\ t.timers = IF p \in HasTimer THEN [s.timers EXCEPT ![p] = @ + 1] ELSE s.timers
  BY DEF Entered
<1>3. t \in Registries
  <2>1. k \in Seq(Plugin) /\ (IF p \in HasTimer THEN [s.timers EXCEPT ![p] = @ + 1] ELSE s.timers) \in [Plugin -> Nat]
    BY <1>1, Behind
  <2> QED BY <2>1 DEF Entered, Registries
<1> HIDE DEF t, k, l, h
<1>4. /\ k \in Seq(Plugin) /\ Len(k) = 1 + Len(l) /\ Loaded(k) = Loaded(l) \cup {p} /\ k[1] = p
      /\ \A i \in 1 .. Len(l) : 1 + i \in 1 .. Len(k) /\ k[1 + i] = l[i]
      /\ \A i \in 1 .. Len(k) : i = 1 \/ (i - 1 \in 1 .. Len(l) /\ k[i] = l[i - 1])
  <2>1. Loaded(h) = {p}
    <3>1. \A x : x \in Loaded(h) <=> \E i \in 1 .. Len(h) : h[i] = x
      BY <1>1, LoadedIs
    <3>2. \A i \in 1 .. Len(h) : i = 1
      BY <1>1
    <3>3. 1 \in 1 .. Len(h)
      BY <1>1
    <3> QED BY <1>1, <3>1, <3>2, <3>3
  <2>2. /\ k \in Seq(Plugin) /\ Len(k) = Len(h) + Len(l) /\ Loaded(k) = Loaded(h) \cup Loaded(l)
        /\ \A i \in 1 .. Len(h) : i \in 1 .. Len(k) /\ k[i] = h[i]
        /\ \A i \in 1 .. Len(l) : Len(h) + i \in 1 .. Len(k) /\ k[Len(h) + i] = l[i]
        /\ \A i \in 1 .. Len(k) : i \in 1 .. Len(h) \/ (i - Len(h) \in 1 .. Len(l) /\ k[i] = l[i - Len(h)])
    BY <1>1, Behind DEF k
  <2> QED BY <1>1, <2>1, <2>2
<1>5. Distinct(k)
  <2> SUFFICES ASSUME NEW i \in 1 .. Len(k), NEW j \in 1 .. Len(k), k[i] = k[j] PROVE i = j
    BY DEF Distinct
  <2>1. \A n \in 1 .. Len(l) : l[n] # p
    <3>1. \A n \in 1 .. Len(l) : l[n] \in Loaded(l)
      BY <1>1, LoadedIs
    <3> QED BY <3>1 DEF l
  <2>2. CASE i = 1
    <3>1. j = 1 \/ (j - 1 \in 1 .. Len(l) /\ k[j] = l[j - 1])
      BY <1>4
    <3>2. k[j] = p
      BY <1>4, <2>2
    <3>3. ~ (j - 1 \in 1 .. Len(l) /\ k[j] = l[j - 1])
      BY <2>1, <3>2
    <3> QED BY <2>2, <3>1, <3>3
  <2>3. CASE j = 1
    <3>1. i = 1 \/ (i - 1 \in 1 .. Len(l) /\ k[i] = l[i - 1])
      BY <1>4
    <3>2. k[i] = p
      BY <1>4, <2>3
    <3>3. ~ (i - 1 \in 1 .. Len(l) /\ k[i] = l[i - 1])
      BY <2>1, <3>2
    <3> QED BY <2>3, <3>1, <3>3
  <2>4. CASE i # 1 /\ j # 1
    <3>1. i - 1 \in 1 .. Len(l) /\ j - 1 \in 1 .. Len(l) /\ l[i - 1] = l[j - 1]
      BY <1>4, <2>4
    <3>2. i - 1 = j - 1
      BY <3>1 DEF Distinct, l
    <3> QED BY <3>2
  <2> QED BY <2>2, <2>3, <2>4
<1>6. ASSUME Ordered(l) PROVE Ordered(k)
  <2> SUFFICES ASSUME NEW i \in 1 .. Len(k), NEW d \in DepSet(k[i]) PROVE \E j \in 1 .. Len(k) : i < j /\ k[j] = d
    BY DEF Ordered
  <2>1. CASE i = 1
    <3>1. d \in Loaded(l)
      BY <1>4, <2>1 DEF l
    <3>2. PICK n \in 1 .. Len(l) : l[n] = d
      BY <1>1, <3>1, LoadedIs
    <3>3. 1 + n \in 1 .. Len(k) /\ k[1 + n] = d /\ i < 1 + n
      BY <1>4, <2>1, <3>2
    <3> QED BY <3>3
  <2>2. CASE i # 1
    <3>1. i - 1 \in 1 .. Len(l) /\ k[i] = l[i - 1]
      BY <1>4, <2>2
    <3>2. PICK n \in 1 .. Len(l) : i - 1 < n /\ l[n] = d
      BY <1>6, <3>1 DEF Ordered
    <3>3. 1 + n \in 1 .. Len(k) /\ k[1 + n] = d /\ i < 1 + n
      BY <1>4, <3>2
    <3> QED BY <3>3
  <2> QED BY <2>1, <2>2
<1>7. ASSUME NEW out, TimersFit(l, s.timers, out) PROVE TimersFit(k, t.timers, out)
  <2> SUFFICES ASSUME NEW x \in Plugin \ out
               PROVE  t.timers[x] = IF x \in HasTimer \cap Loaded(k) THEN 1 ELSE 0
    BY DEF TimersFit
  <2>1. s.timers[x] = IF x \in HasTimer \cap Loaded(l) THEN 1 ELSE 0
    BY <1>7 DEF TimersFit
  <2>2. x = p => s.timers[x] = 0
    BY <2>1 DEF l
  <2> QED BY <1>1, <1>2, <1>4, <2>1, <2>2, SMTT(30)
<1>8. Grown(s, t)
  BY <1>1, <1>2, <1>3, <1>5, <1>6, <1>7 DEF Grown, k, l
<1>9. Loaded(t.list) = Loaded(l) \cup {p}
  BY <1>2, <1>4
<1> QED BY <1>2, <1>8, <1>9 DEF t, l

\* Those in A wait: each for another of them, or for p.
Waiting(A, p, l) == A \cap Loaded(l) = {} /\ \A x \in A : DepSet(x) \cap (A \cup {p}) # {}

\* What a function that opens plugins does to a registry: who waits for what it opens is not
\* loaded meanwhile, so nobody is loaded twice.
OpensOne(r, p, s) ==
  /\ Grown(r, s) /\ (s.ok => p \in Loaded(s.list))
  /\ \A A \in SUBSET Plugin : Waiting(A, p, r.list) => A \cap Loaded(s.list) = {}

Opens(f) ==
  \A r \in Registries, p \in Plugin : Distinct(r.list) => OpensOne(r, p, f[<<r, p>>])

\* Behind MAX_DEP requests nothing is opened.
LEMMA FailOpens == ASSUME NEW f, \A r \in Registries, p \in Plugin : f[<<r, p>>] = Fail(r) PROVE Opens(f)
<1> SUFFICES ASSUME NEW r \in Registries, NEW p \in Plugin, Distinct(r.list) PROVE OpensOne(r, p, Fail(r))
  BY DEF Opens
<1>1. Grown(r, [r EXCEPT !.ok = FALSE])
  BY GrownSame
<1>2. Fail(r).ok = FALSE /\ Fail(r).list = r.list
  BY DEF Fail, Registries
<1>3. Grown(r, Fail(r))
  BY <1>1, Zenon DEF Fail
<1> QED BY <1>2, <1>3 DEF OpensOne, Waiting

\* plugins_require is as good as the function that it opens with (plugins.c:171).
LEMMA RequireOpens ==
  ASSUME NEW f, Opens(f), NEW r \in Registries, NEW d \in Plugin, Distinct(r.list)
  PROVE  OpensOne(r, d, Require(r, d, f))
<1> DEFINE s == Require(r, d, f)
<1>1. Grown(r, Good(r)) /\ Grown(r, Fail(r))
  BY GrownSame, Zenon DEF Good, Fail
<1>2. /\ Good(r).list = r.list /\ Fail(r).list = r.list /\ Fail(r).ok = FALSE
  BY DEF Good, Fail, Registries
<1>3. CASE Found(r, d)
  <2>1. s = Good(r) /\ d \in Loaded(r.list)
    BY <1>3 DEF Require, Found
  <2> QED BY <1>1, <1>2, <2>1 DEF OpensOne, Waiting
<1>4. CASE ~Found(r, d) /\ d \notin Loaded(Configured)
  <2>1. s = Fail(r)
    BY <1>4 DEF Require
  <2> QED BY <1>1, <1>2, <2>1 DEF OpensOne, Waiting
<1>5. CASE ~Found(r, d) /\ d \in Loaded(Configured)
  <2>1. s = f[<<r, d>>]
    BY <1>5 DEF Require
  <2> QED BY <2>1, Zenon DEF Opens
<1> QED BY <1>3, <1>4, <1>5

\* One dependency after the other: all are loaded in the end, or one was refused (plugins.c:144).
LEMMA NeedsOpens ==
  ASSUME NEW f, Opens(f), NEW r \in Registries, NEW p \in Plugin, Distinct(r.list), p \notin Loaded(r.list),
         NEW s, s = Needs(r, p, f)
  PROVE  /\ Grown(r, s) /\ (s.ok => DepSet(p) \subseteq Loaded(s.list))
         /\ \A A \in SUBSET Plugin : Waiting(A, p, r.list) => (A \cup {p}) \cap Loaded(s.list) = {}
<1> USE PluginsAssumption
<1> DEFINE N == Len(Deps[p])
           step == [x \in (1 .. N) \X Registries |->
                      IF x[2].ok THEN Require(x[2], Deps[p][x[1]], f) ELSE x[2]]
<1>1. Deps[p] \in Seq(Plugin) /\ N \in Nat /\ \A i \in 1 .. N : Deps[p][i] \in Plugin
  BY LenProperties, ElementOfSeq
<1>2. s = Through(N, Good(r), step)
  BY Zenon DEF Needs
<1>3. ASSUME NEW i \in 1 .. N, NEW v \in Registries
      PROVE  step[<<i, v>>] = IF v.ok THEN Require(v, Deps[p][i], f) ELSE v
  <2>1. <<i, v>> \in (1 .. N) \X Registries
    OBVIOUS
  <2> QED BY <2>1
<1> HIDE DEF N, step
<1>4. PICK u : /\ u[0] = Good(r) /\ Through(N, Good(r), step) = u[N]
               /\ \A n \in 1 .. N : u[n] = step[<<n, u[n - 1]>>]
  <2>1. N \in Nat
    BY <1>1
  <2> DEFINE x0 == Good(r)
  <2> HIDE DEF x0
  <2>2. \E u : u[0] = x0 /\ Through(N, x0, step) = u[N] /\ \A n \in 1 .. N : u[n] = step[<<n, u[n - 1]>>]
    BY ONLY <2>1, ThroughIs
  <2> QED BY <2>2 DEF x0
<1> DEFINE So(n, v) ==
             /\ Grown(r, v) /\ (v.ok => \A i \in 1 .. n : Deps[p][i] \in Loaded(v.list))
             /\ \A A \in SUBSET Plugin : Waiting(A, p, r.list) => (A \cup {p}) \cap Loaded(v.list) = {}
           T == {n \in 0 .. N : So(n, u[n])}
<1>5. 0 \in T
  <2>1. Grown(r, Good(r))
    BY GrownSame, Zenon DEF Good
  <2>2. Good(r).list = r.list
    BY DEF Good, Registries
  <2>3. So(0, Good(r))
    BY <2>1, <2>2 DEF Waiting
  <2> HIDE DEF So
  <2>4. So(0, u[0])
    BY <1>4, <2>3, Zenon
  <2> QED BY <1>1, <2>4
<1>6. ASSUME NEW n \in 0 .. N - 1, n \in T PROVE n + 1 \in T
  <2> DEFINE k == n + 1
             v == u[n]
             w == u[k]
             d == Deps[p][k]
  <2>1. k \in 1 .. N /\ k - 1 = n /\ k \in 0 .. N /\ d \in Plugin /\ d \in DepSet(p)
    <3>1. k \in 1 .. N /\ k - 1 = n /\ k \in 0 .. N
      BY <1>1
    <3>2. k \in DOMAIN Deps[p]
      BY <1>1, <3>1, LenProperties DEF N
    <3> QED BY <1>1, <3>1, <3>2 DEF DepSet, ToSet
  <2>2. So(n, v)
    BY <1>6
  <2>3. v \in Registries /\ Distinct(v.list)
    BY <2>2 DEF Grown
  <2>4. w = step[<<k, v>>]
    BY <1>4, <2>1
  <2> HIDE DEF k, w
  <2>5. w = IF v.ok THEN Require(v, d, f) ELSE v
    BY <1>3, <2>1, <2>3, <2>4
  <2> HIDE DEF v, d
  <2>6. CASE ~v.ok
    <3>1. w = v
      BY <2>5, <2>6
    <3>2. So(k, w)
      BY <2>2, <2>6, <3>1
    <3> QED BY <2>1, <3>2 DEF w, k
  <2>7. CASE v.ok
    <3>1. OpensOne(v, d, w)
      BY <2>1, <2>3, <2>5, <2>7, RequireOpens
    <3>2. Grown(r, w) /\ Loaded(v.list) \subseteq Loaded(w.list)
      BY <2>2, <2>3, <3>1, GrownOn, GrownLoaded DEF OpensOne
    <3>3. ASSUME w.ok, NEW i \in 1 .. k PROVE Deps[p][i] \in Loaded(w.list)
      <4>1. CASE i = k
        BY <3>1, <3>3, <4>1 DEF OpensOne, d
      <4>2. CASE i # k
        <5>1. i \in 1 .. n
          BY <2>1, <4>2 DEF k
        <5> QED BY <2>2, <2>7, <3>2, <5>1
      <4> QED BY <4>1, <4>2
    <3>4. ASSUME NEW A \in SUBSET Plugin, Waiting(A, p, r.list) PROVE (A \cup {p}) \cap Loaded(w.list) = {}
      <4> DEFINE B == A \cup {p}
      <4>1. B \in SUBSET Plugin /\ B \cap Loaded(v.list) = {}
        BY <2>2, <3>4
      <4>2. \A x \in B : DepSet(x) \cap (B \cup {d}) # {}
        BY <2>1, <3>4 DEF Waiting
      <4>3. Waiting(B, d, v.list)
        BY <4>1, <4>2 DEF Waiting
      <4> HIDE DEF B
      <4>4. B \cap Loaded(w.list) = {}
        BY <3>1, <4>1, <4>3 DEF OpensOne
      <4> QED BY <4>4 DEF B
    <3>5. So(k, w)
      BY <3>2, <3>3, <3>4
    <3> QED BY <2>1, <3>5 DEF w, k
  <2> QED BY <2>6, <2>7
<1> HIDE DEF T
<1>7. 0 .. N \subseteq T
  BY <1>1, <1>5, <1>6, InductiveUpTo
<1>8. N \in 0 .. N
  BY <1>1
<1>9. So(N, s)
  <2> HIDE DEF So
  <2>1. So(N, u[N]) /\ s = u[N]
    BY <1>2, <1>4, <1>7, <1>8 DEF T
  <2> QED BY <2>1, Zenon
<1>10. s.ok => DepSet(p) \subseteq Loaded(s.list)
  <2>1. DOMAIN Deps[p] = 1 .. N
    BY <1>1, LenProperties DEF N
  <2> QED BY <1>9, <2>1 DEF DepSet, ToSet
<1> QED BY <1>9, <1>10

\* plugins_open is as good as what it opens the dependencies with.
LEMMA OpenOneOpens ==
  ASSUME NEW f, Opens(f), NEW r \in Registries, NEW p \in Plugin, Distinct(r.list), NEW missing, NEW failing
  PROVE  OpensOne(r, p, OpenOne(r, p, f, missing, failing))
<1> DEFINE s == OpenOne(r, p, f, missing, failing)
           needs == Needs(r, p, f)
<1>1. Grown(r, Good(r)) /\ Grown(r, Fail(r))
  BY GrownSame, Zenon DEF Good, Fail
<1>2. /\ Good(r).list = r.list /\ Fail(r).list = r.list /\ Fail(r).ok = FALSE
  BY DEF Good, Fail, Registries
<1>3. CASE Found(r, p)
  <2>1. s = Good(r) /\ p \in Loaded(r.list)
    BY <1>3 DEF OpenOne, Found
  <2> QED BY <1>1, <1>2, <2>1 DEF OpensOne, Waiting
<1>4. CASE ~Found(r, p) /\ p \in missing
  <2>1. s = Fail(r)
    BY <1>4 DEF OpenOne
  <2> QED BY <1>1, <1>2, <2>1 DEF OpensOne, Waiting
<1>5. CASE ~Found(r, p) /\ p \notin missing
  <2>1. s = IF ~needs.ok THEN needs ELSE IF p \in failing THEN Fail(needs) ELSE Entered(needs, p)
    BY <1>5, Zenon DEF OpenOne, Refused
  <2>2. p \notin Loaded(r.list)
    BY <1>5 DEF Found
  <2>3. /\ Grown(r, needs) /\ (needs.ok => DepSet(p) \subseteq Loaded(needs.list))
        /\ \A A \in SUBSET Plugin : Waiting(A, p, r.list) => (A \cup {p}) \cap Loaded(needs.list) = {}
    BY <2>2, NeedsOpens
  <2> HIDE DEF needs, s
  <2>4. needs \in Registries /\ Distinct(needs.list)
    BY <2>3 DEF Grown
  <2>5. CASE ~needs.ok
    BY <2>1, <2>3, <2>5 DEF OpensOne, s
  <2>6. CASE needs.ok /\ p \in failing
    <3>1. s = Fail(needs) /\ Fail(needs).list = needs.list /\ Fail(needs).ok = FALSE
      BY <2>1, <2>4, <2>6 DEF Fail, Registries
    <3>2. Grown(needs, Fail(needs))
      BY <2>4, GrownSame, Zenon DEF Fail
    <3>3. Grown(r, s)
      BY <2>3, <3>1, <3>2, GrownOn
    <3> QED BY <2>3, <3>1, <3>3 DEF OpensOne, s
  <2>7. CASE needs.ok /\ p \notin failing
    <3>1. s = Entered(needs, p)
      BY <2>1, <2>7
    <3>2. p \notin Loaded(needs.list)
      <4>1. Waiting({}, p, r.list) /\ {} \in SUBSET Plugin
        BY DEF Waiting
      <4> QED BY <2>3, <4>1
    <3>3. Grown(needs, s) /\ Loaded(s.list) = Loaded(needs.list) \cup {p}
      BY <2>3, <2>4, <2>7, <3>1, <3>2, EnteredGrown
    <3>4. ASSUME NEW A \in SUBSET Plugin, Waiting(A, p, r.list) PROVE A \cap Loaded(s.list) = {}
      <4>1. (A \cup {p}) \cap Loaded(needs.list) = {}
        BY <2>3, <3>4
      <4>2. p \notin A
        <5>1. ASSUME p \in A PROVE FALSE
          <6>1. DepSet(p) \cap (A \cup {p}) # {}
            BY <3>4, <5>1 DEF Waiting
          <6> QED BY <2>3, <2>7, <4>1, <6>1
        <5> QED BY <5>1
      <4> QED BY <3>3, <4>1, <4>2
    <3>5. Grown(r, s)
      BY <2>3, <3>3, GrownOn
    <3> QED BY <3>3, <3>4, <3>5 DEF OpensOne, s
  <2> QED BY <2>5, <2>6, <2>7 DEF s
<1> QED BY <1>3, <1>4, <1>5

\* Whatever the list is, opening makes a registry of a registry.
LEMMA NeedsTyped ==
  ASSUME NEW f \in [Registries \X Plugin -> Registries], NEW r \in Registries, NEW p \in Plugin
  PROVE  Needs(r, p, f) \in Registries
<1> USE PluginsAssumption
<1> DEFINE N == Len(Deps[p])
           step == [x \in (1 .. N) \X Registries |->
                      IF x[2].ok THEN Require(x[2], Deps[p][x[1]], f) ELSE x[2]]
           x0 == Good(r)
<1>1. Deps[p] \in Seq(Plugin) /\ N \in Nat /\ \A i \in 1 .. N : Deps[p][i] \in Plugin
  BY LenProperties, ElementOfSeq
<1>2. Needs(r, p, f) = Through(N, x0, step)
  BY Zenon DEF Needs
<1>3. ASSUME NEW i \in 1 .. N, NEW v \in Registries PROVE step[<<i, v>>] \in Registries
  <2>1. <<i, v>> \in (1 .. N) \X Registries
    OBVIOUS
  <2>2. step[<<i, v>>] = IF v.ok THEN Require(v, Deps[p][i], f) ELSE v
    BY <2>1
  <2>3. Good(v) \in Registries /\ Fail(v) \in Registries /\ f[<<v, Deps[p][i]>>] \in Registries
    BY <1>1 DEF Good, Fail, Registries
  <2>4. Require(v, Deps[p][i], f) \in Registries
    BY <2>3 DEF Require
  <2> QED BY <2>2, <2>4
<1>4. x0 \in Registries
  BY DEF Good, Registries
<1> HIDE DEF N, step, x0
<1>5. PICK u : u[0] = x0 /\ Through(N, x0, step) = u[N] /\ \A n \in 1 .. N : u[n] = step[<<n, u[n - 1]>>]
  <2>1. N \in Nat
    BY <1>1
  <2> QED BY ONLY <2>1, ThroughIs
<1> DEFINE T == {n \in 0 .. N : u[n] \in Registries}
<1>6. 0 \in T
  BY <1>1, <1>4, <1>5
<1>7. ASSUME NEW n \in 0 .. N - 1, n \in T PROVE n + 1 \in T
  <2> DEFINE k == n + 1
  <2>1. k \in 1 .. N /\ k - 1 = n /\ k \in 0 .. N
    BY <1>1
  <2>2. u[k] = step[<<k, u[n]>>] /\ u[n] \in Registries
    BY <1>5, <1>7, <2>1
  <2>3. u[k] \in Registries
    BY <1>3, <2>1, <2>2
  <2> QED BY <2>1, <2>3
<1> HIDE DEF T
<1>8. 0 .. N \subseteq T
  BY <1>1, <1>6, <1>7, InductiveUpTo
<1>9. u[N] \in Registries
  BY <1>1, <1>8 DEF T
<1> QED BY <1>2, <1>5, <1>9

\* The same of plugins_open
LEMMA OpenOneTyped ==
  ASSUME NEW f \in [Registries \X Plugin -> Registries], NEW r \in Registries, NEW p \in Plugin,
         NEW missing, NEW failing
  PROVE  OpenOne(r, p, f, missing, failing) \in Registries
<1> DEFINE needs == Needs(r, p, f)
<1>1. needs \in Registries
  BY NeedsTyped
<1>2. OpenOne(r, p, f, missing, failing) \in {Good(r), Fail(r), needs, Fail(needs), Entered(needs, p)}
  BY Zenon DEF OpenOne, Refused
<1> HIDE DEF needs
<1>3. Good(r) \in Registries /\ Fail(r) \in Registries /\ Fail(needs) \in Registries
  BY <1>1 DEF Good, Fail, Registries
<1>4. Entered(needs, p) \in Registries
  <2>1. needs.list \in Seq(Plugin) /\ needs.timers \in [Plugin -> Nat]
    BY <1>1 DEF Registries
  <2>2. <<p>> \o needs.list \in Seq(Plugin)
    BY <2>1, Behind
  <2>3. (IF p \in HasTimer THEN [needs.timers EXCEPT ![p] = @ + 1] ELSE needs.timers) \in [Plugin -> Nat]
    BY <2>1
  <2> QED BY <2>2, <2>3 DEF Entered, Registries
<1> QED BY <1>1, <1>2, <1>3, <1>4

\* The levels of Opener: nothing at first, then what one more request makes of it.
Levels(u, missing, failing) ==
  /\ Opener(missing, failing) = u[MaxDep + 1]
  /\ u[0] = [x \in Registries \X Plugin |-> Fail(x[1])]
  /\ \A n \in 1 .. MaxDep + 1 :
       u[n] = [x \in Registries \X Plugin |-> OpenOne(x[1], x[2], u[n - 1], missing, failing)]

\* There are such levels.
LEMMA OpenerIs ==
  ASSUME NEW missing, NEW failing
  PROVE  \E u : Levels(u, missing, failing)
<1> USE PluginsAssumption
<1> DEFINE M == MaxDep + 1
           X == Registries \X Plugin
           over(f) == [x \in X |-> OpenOne(x[1], x[2], f, missing, failing)]
           base == [x \in X |-> Fail(x[1])]
           step == [y \in (1 .. M) \X [X -> Registries] |-> over(y[2])]
           Up(f) == f = [n \in 0 .. M |->
                           [x \in X |-> IF n = 0 THEN Fail(x[1]) ELSE OpenOne(x[1], x[2], f[n - 1], missing, failing)]]
           u == CHOOSE f : Up(f)
<1>1. M \in Nat
  OBVIOUS
<1>2. Opener(missing, failing) = u[M]
  BY Zenon DEF Opener
<1>3. base \in [X -> Registries]
  <2>1. \A r \in Registries : Fail(r) \in Registries
    BY DEF Fail, Registries
  <2> QED BY <2>1
<1>4. ASSUME NEW f \in [X -> Registries] PROVE over(f) \in [X -> Registries]
  BY OpenOneTyped
<1>5. ASSUME NEW n \in 1 .. M, NEW f \in [X -> Registries] PROVE step[<<n, f>>] = over(f)
  <2>1. <<n, f>> \in (1 .. M) \X [X -> Registries]
    OBVIOUS
  <2> QED BY <2>1
<1>6. \E f : Up(f)
  <2> HIDE DEF M, step, base
  <2>1. PICK f : Walk(M, base, step, f)
    BY ONLY <1>1, WalkExists
  <2>2. /\ \A n \in 0 .. M : f[n] = IF n = 0 THEN base ELSE step[<<n, f[n - 1]>>]
        /\ f = [n \in 0 .. M |-> f[n]]
    BY <2>1 DEF Walk
  <2> DEFINE In(g) == g \in [X -> Registries]
  <2>a. In(base) /\ \A g : In(g) => In(over(g))
    BY <1>3, <1>4
  <2>b. \A n \in 1 .. M : \A g : In(g) => step[<<n, g>>] = over(g)
    BY <1>5
  <2> HIDE DEF X, over, In
  <2> DEFINE T == {n \in 0 .. M : In(f[n])}
  <2>3. 0 \in T
    <3>1. 0 \in 0 .. M
      BY <1>1
    <3>2. f[0] = base
      BY <2>2, <3>1
    <3>3. In(f[0])
      BY <2>a, <3>2, Zenon
    <3> QED BY <3>1, <3>3
  <2>4. ASSUME NEW n \in 0 .. M - 1, n \in T PROVE n + 1 \in T
    <3> DEFINE k == n + 1
    <3>1. k \in 1 .. M /\ k - 1 = n /\ k \in 0 .. M /\ k # 0 /\ In(f[n])
      BY <1>1, <2>4
    <3> HIDE DEF k, T
    <3>2. f[k] = step[<<k, f[n]>>]
      BY <2>2, <3>1
    <3>3. step[<<k, f[n]>>] = over(f[n])
      BY <2>b, <3>1, Zenon
    <3>4. In(f[k])
      BY <2>a, <3>1, <3>2, <3>3, Zenon
    <3>5. k \in T
      BY <3>1, <3>4 DEF T
    <3> QED BY <3>5 DEF k
  <2> HIDE DEF T
  <2>5. 0 .. M \subseteq T
    BY <1>1, <2>3, <2>4, InductiveUpTo
  <2> DEFINE lev(n) == [x \in X |-> IF n = 0 THEN Fail(x[1]) ELSE OpenOne(x[1], x[2], f[n - 1], missing, failing)]
  <2>6. ASSUME NEW n \in 0 .. M PROVE f[n] = lev(n)
    <3>1. CASE n = 0
      <4>1. f[n] = base
        BY <2>2, <3>1
      <4>2. lev(n) = base
        BY <3>1 DEF base
      <4> QED BY <4>1, <4>2, Zenon
    <3>2. CASE n # 0
      <4>1. n \in 1 .. M /\ n - 1 \in 0 .. M
        BY <1>1, <3>2
      <4>2. In(f[n - 1])
        BY <2>5, <4>1 DEF T
      <4>5. f[n] = step[<<n, f[n - 1]>>]
        BY <2>2, <3>2
      <4>3. f[n] = over(f[n - 1])
        BY <2>b, <4>1, <4>2, <4>5, Zenon
      <4>4. lev(n) = over(f[n - 1])
        BY <3>2 DEF over
      <4> QED BY <4>3, <4>4, Zenon
    <3> QED BY <3>1, <3>2
  <2>7. [n \in 0 .. M |-> f[n]] = [n \in 0 .. M |-> lev(n)]
    <3> HIDE DEF lev
    <3> QED BY <2>6
  <2>8. Up(f)
    BY <2>2, <2>7, Zenon
  <2> QED BY <2>8, Zenon
<1>7. Up(u)
  BY <1>6, Zenon
<1> HIDE DEF u
<1>8. \A n \in 0 .. M : u[n] = [x \in X |-> IF n = 0 THEN Fail(x[1]) ELSE OpenOne(x[1], x[2], u[n - 1], missing, failing)]
  BY <1>7, Zenon
<1>9. u[0] = base
  <2>1. 0 \in 0 .. M
    BY <1>1
  <2> QED BY <1>8, <2>1
<1>10. \A n \in 1 .. M : u[n] = over(u[n - 1])
  <2> DEFINE lev(n) == [x \in X |-> IF n = 0 THEN Fail(x[1]) ELSE OpenOne(x[1], x[2], u[n - 1], missing, failing)]
  <2> SUFFICES ASSUME NEW n \in 1 .. M PROVE u[n] = over(u[n - 1])
    OBVIOUS
  <2>1. n \in 0 .. M /\ n # 0
    BY <1>1
  <2>2. u[n] = lev(n)
    BY <1>8, <2>1, Zenon
  <2>3. lev(n) = over(u[n - 1])
    BY <2>1
  <2> QED BY <2>2, <2>3, Zenon
<1>11. u[0] = [x \in Registries \X Plugin |-> Fail(x[1])]
  BY <1>9
<1>12. \A n \in 1 .. MaxDep + 1 :
         u[n] = [x \in Registries \X Plugin |-> OpenOne(x[1], x[2], u[n - 1], missing, failing)]
  BY <1>10
<1>13. Levels(u, missing, failing)
  BY <1>2, <1>11, <1>12, Zenon DEF Levels
<1> QED BY <1>13

\* plugins_open, whatever is missing or fails: a longer list in the order of the dependencies, without
\* anybody twice, and with the timers of those that are in it (plugins.c:92).
LEMMA OpenOpens ==
  ASSUME NEW missing, NEW failing, NEW r \in Registries, NEW p \in Plugin, Distinct(r.list)
  PROVE  OpensOne(r, p, Open(r, p, missing, failing))
<1> USE PluginsAssumption
<1> DEFINE M == MaxDep + 1
           X == Registries \X Plugin
<1>1. PICK u : /\ Opener(missing, failing) = u[M] /\ u[0] = [x \in X |-> Fail(x[1])]
               /\ \A n \in 1 .. M : u[n] = [x \in X |-> OpenOne(x[1], x[2], u[n - 1], missing, failing)]
  <2>1. PICK u : Levels(u, missing, failing)
    BY OpenerIs
  <2>2. /\ Opener(missing, failing) = u[M] /\ u[0] = [x \in X |-> Fail(x[1])]
        /\ \A n \in 1 .. M : u[n] = [x \in X |-> OpenOne(x[1], x[2], u[n - 1], missing, failing)]
    BY <2>1 DEF Levels
  <2> HIDE DEF M, X
  <2> QED BY <2>2
<1>2. M \in Nat
  OBVIOUS
<1> DEFINE T == {n \in 0 .. M : Opens(u[n])}
<1>3. 0 \in T
  <2>1. \A q \in Registries, d \in Plugin : u[0][<<q, d>>] = Fail(q)
    BY <1>1
  <2>2. Opens(u[0])
    BY <2>1, FailOpens
  <2> QED BY <1>2, <2>2
<1>4. ASSUME NEW n \in 0 .. M - 1, n \in T PROVE n + 1 \in T
  <2> DEFINE k == n + 1
  <2>1. k \in 1 .. M /\ k - 1 = n /\ k \in 0 .. M /\ Opens(u[n])
    BY <1>2, <1>4
  <2>2. u[k] = [x \in X |-> OpenOne(x[1], x[2], u[n], missing, failing)]
    BY <1>1, <2>1
  <2>3. ASSUME NEW q \in Registries, NEW d \in Plugin, Distinct(q.list) PROVE OpensOne(q, d, u[k][<<q, d>>])
    <3>1. u[k][<<q, d>>] = OpenOne(q, d, u[n], missing, failing)
      <4>1. <<q, d>> \in X
        OBVIOUS
      <4> QED BY <2>2, <4>1
    <3>2. OpensOne(q, d, OpenOne(q, d, u[n], missing, failing))
      BY <2>1, <2>3, OpenOneOpens
    <3> QED BY <3>1, <3>2
  <2>4. Opens(u[k])
    BY <2>3 DEF Opens
  <2> QED BY <2>1, <2>4
<1> HIDE DEF M, T
<1>5. 0 .. M \subseteq T
  BY <1>2, <1>3, <1>4, InductiveUpTo
<1>6. Opens(u[M])
  BY <1>2, <1>5 DEF T
<1> QED BY <1>1, <1>6, Zenon DEF Open, Opens

RegistryTyped ==
  /\ plugins \in Seq(Plugin) /\ timers \in [Plugin -> Nat]
  /\ phase \in {"off", "on", "unloading", "crashed"} /\ cursor \in Plugin \cup {None}

\* What is loaded, and the timers of it
RegistryHolds(l, ts, by, out) == Distinct(l) /\ (~by => Ordered(l)) /\ TimersFit(l, ts, out)

\* Up to the plugin that has the line, those of the list at its start were given it.
AskedBefore(l, c, s, a) ==
  \A j \in 1 .. Len(l) : l[j] = c => \A k \in 1 .. j : l[k] \in ToSet(s) => l[k] \in a

\* The manager changes the list at most once in a walk, and nobody else does.
WalkHolds == (cursor # None /\ ~commanded => plugins = start) /\ AskedBefore(plugins, cursor, start, asked)

RegistryInv ==
  /\ RegistryTyped /\ RegistryHolds(plugins, timers, bypassed, orphans) /\ WalkHolds
  /\ (phase = "off" => plugins = <<>>) /\ (phase \in {"off", "unloading"} => cursor = None)

\* The registry as plugins_open gets it
LEMMA RegistryIs ==
  ASSUME RegistryTyped, Distinct(plugins)
  PROVE  Registry \in Registries /\ Registry.list = plugins /\ Registry.timers = timers /\ Distinct(Registry.list)
BY DEF RegistryTyped, Registry, Registries

\* A registry that has grown holds what it held.
LEMMA GrownHolds ==
  ASSUME RegistryTyped, RegistryHolds(plugins, timers, bypassed, orphans), NEW r, Grown(Registry, r)
  PROVE  /\ r.list \in Seq(Plugin) /\ r.timers \in [Plugin -> Nat] /\ RegistryHolds(r.list, r.timers, bypassed, orphans)
         /\ \E pre \in Seq(Plugin) : r.list = pre \o plugins
<1>1. Registry.list = plugins /\ Registry.timers = timers
  BY RegistryIs DEF RegistryHolds
<1>2. r \in Registries /\ Distinct(r.list) /\ \E pre \in Seq(Plugin) : r.list = pre \o plugins
  BY <1>1 DEF Grown
<1>3. Ordered(plugins) => Ordered(r.list)
  BY <1>1 DEF Grown
<1>4. TimersFit(plugins, timers, orphans) => TimersFit(r.list, r.timers, orphans)
  BY <1>1 DEF Grown
<1>5. r.list \in Seq(Plugin) /\ r.timers \in [Plugin -> Nat]
  BY <1>2 DEF Registries
<1> QED BY <1>2, <1>3, <1>4, <1>5 DEF RegistryHolds

\* A plugin that is nowhere in the list of a line: no line is under way.
LEMMA NobodyAsked ==
  ASSUME NEW l \in Seq(Plugin), NEW s, NEW a
  PROVE  AskedBefore(l, None, s, a)
<1>1. \A j \in 1 .. Len(l) : l[j] \in Plugin
  BY ElementOfSeq, LenProperties
<1> QED BY <1>1, PluginsAssumption DEF AskedBefore, None

\* Nothing is loaded at first (main.c has no plugin before plugins_load).
LEMMA PluginsStarts == PluginsInit => RegistryInv
<1> SUFFICES ASSUME PluginsInit PROVE RegistryInv
  OBVIOUS
<1> USE PluginsAssumption DEF PluginsInit
<1>1. plugins \in Seq(Plugin) /\ Len(plugins) = 0 /\ timers \in [Plugin -> Nat]
  OBVIOUS
<1>2. RegistryTyped
  BY <1>1 DEF RegistryTyped
<1>3. Loaded(plugins) = {}
  <2>1. \A i \in 1 .. Len(plugins) : FALSE
    BY <1>1
  <2>2. \A x : x \in Loaded(plugins) <=> \E i \in 1 .. Len(plugins) : plugins[i] = x
    BY <1>1, LoadedIs
  <2> QED BY <2>1, <2>2, Zenon
<1>4. RegistryHolds(plugins, timers, bypassed, orphans)
  BY <1>1, <1>3 DEF RegistryHolds, Distinct, Ordered, TimersFit
<1>5. WalkHolds
  BY <1>1 DEF WalkHolds, AskedBefore
<1> QED BY <1>2, <1>4, <1>5 DEF RegistryInv

\* plugins_load: one module after the other (plugins.c:199).
LEMMA LoadAllKeeps == ASSUME RegistryInv, LoadAll PROVE RegistryInv'
<1> USE PluginsAssumption
<1>1. PICK missing, failing :
        LET r == Through(Len(Configured), Registry,
                       [x \in (1 .. Len(Configured)) \X Registries |->
                          Open(x[2], Configured[x[1]], missing, failing)])
        IN  plugins' = r.list /\ timers' = r.timers
  BY ZenonT(30) DEF LoadAll
<1> DEFINE N == Len(Configured)
           step == [x \in (1 .. N) \X Registries |-> Open(x[2], Configured[x[1]], missing, failing)]
           r == Through(N, Registry, step)
<1>2. plugins' = r.list /\ timers' = r.timers
  BY <1>1
<1>3. N \in Nat /\ \A i \in 1 .. N : Configured[i] \in Plugin
  BY LenProperties, ElementOfSeq
<1>4. ASSUME NEW i \in 1 .. N, NEW v \in Registries, Distinct(v.list) PROVE Grown(v, step[<<i, v>>])
  <2>1. <<i, v>> \in (1 .. N) \X Registries
    OBVIOUS
  <2>2. step[<<i, v>>] = Open(v, Configured[i], missing, failing)
    BY <2>1
  <2>3. OpensOne(v, Configured[i], Open(v, Configured[i], missing, failing))
    BY <1>3, <1>4, OpenOpens
  <2> QED BY <2>2, <2>3, Zenon DEF OpensOne
<1>5. Registry \in Registries /\ Distinct(Registry.list)
  BY RegistryIs DEF RegistryInv, RegistryHolds
<1> HIDE DEF N, step
<1>6. PICK u : /\ u[0] = Registry /\ Through(N, Registry, step) = u[N]
               /\ \A n \in 1 .. N : u[n] = step[<<n, u[n - 1]>>]
  <2> DEFINE x0 == Registry
  <2> HIDE DEF x0
  <2>1. \E u : u[0] = x0 /\ Through(N, x0, step) = u[N] /\ \A n \in 1 .. N : u[n] = step[<<n, u[n - 1]>>]
    BY ONLY <1>3, ThroughIs
  <2> QED BY <2>1 DEF x0
<1> DEFINE T == {n \in 0 .. N : Grown(Registry, u[n])}
<1>7. 0 \in T
  <2>1. Grown(Registry, [Registry EXCEPT !.ok = TRUE])
    BY <1>5, GrownSame
  <2>2. [Registry EXCEPT !.ok = TRUE] = Registry
    <3>1. PICK g \in Registries : g = Registry
      BY <1>5
    <3>2. g.ok = TRUE
      BY <3>1 DEF Registry
    <3>3. [g EXCEPT !.ok = TRUE] = g
      BY <3>2 DEF Registries
    <3> QED BY <3>1, <3>3
  <2>3. Grown(Registry, u[0])
    BY <1>6, <2>1, <2>2, Zenon
  <2> QED BY <1>3, <2>3
<1>8. ASSUME NEW n \in 0 .. N - 1, n \in T PROVE n + 1 \in T
  <2> DEFINE k == n + 1
  <2>1. k \in 1 .. N /\ k - 1 = n /\ k \in 0 .. N
    BY <1>3
  <2>2. Grown(Registry, u[n])
    BY <1>8
  <2>3. u[n] \in Registries /\ Distinct(u[n].list)
    BY <2>2 DEF Grown
  <2>4. u[k] = step[<<k, u[n]>>]
    BY <1>6, <2>1
  <2> HIDE DEF k
  <2>5. Grown(u[n], u[k])
    BY <1>4, <2>1, <2>3, <2>4
  <2>6. Grown(Registry, u[k])
    BY <1>5, <2>2, <2>5, GrownOn
  <2> QED BY <2>1, <2>6 DEF k
<1> HIDE DEF T
<1>9. 0 .. N \subseteq T
  BY <1>3, <1>7, <1>8, InductiveUpTo
<1>10. Grown(Registry, r)
  <2>1. Grown(Registry, u[N])
    BY <1>3, <1>9 DEF T
  <2> QED BY <1>6, <2>1, Zenon
<1> HIDE DEF r
<1>11. r.list \in Seq(Plugin) /\ r.timers \in [Plugin -> Nat] /\ RegistryHolds(r.list, r.timers, bypassed, orphans)
  BY <1>10, GrownHolds DEF RegistryInv
<1>12. phase' = "on" /\ cursor = None /\ UNCHANGED <<cursor, commanded, start, asked, bypassed, orphans>>
  BY DEF LoadAll, walk, RegistryInv
<1>13. RegistryTyped'
  BY <1>2, <1>11, <1>12 DEF RegistryTyped
<1>14. RegistryHolds(plugins', timers', bypassed', orphans')
  BY <1>2, <1>11, <1>12
<1>15. WalkHolds'
  <2>1. AskedBefore(r.list, None, start, asked)
    BY <1>11, NobodyAsked
  <2>2. plugins' = r.list
    BY <1>2
  <2> QED BY <1>12, <2>1, <2>2 DEF WalkHolds
<1> QED BY <1>12, <1>13, <1>14, <1>15 DEF RegistryInv

\* plugins_unload: last in, first out, so that nobody goes before those that depend on it (plugins.c:228).
LEMMA UnloadOneKeeps == ASSUME RegistryInv, UnloadOne PROVE RegistryInv'
<1> USE PluginsAssumption
<1> DEFINE l == plugins
           h == Head(l)
           t == Tail(l)
<1>1. l \in Seq(Plugin) /\ l # <<>> /\ RegistryHolds(l, timers, bypassed, orphans) /\ timers \in [Plugin -> Nat]
  BY DEF UnloadOne, RegistryInv, RegistryTyped
<1>2. /\ plugins' = t /\ timers' = [timers EXCEPT ![h] = IF @ > 0 THEN @ - 1 ELSE 0]
      /\ phase' = phase /\ phase = "unloading" /\ cursor = None
      /\ UNCHANGED <<cursor, commanded, start, asked, bypassed, orphans>>
  BY DEF UnloadOne, RegistryInv, walk
<1>3. /\ h \in Plugin /\ h = l[1] /\ t \in Seq(Plugin) /\ Len(l) \in Nat \ {0} /\ Len(t) = Len(l) - 1
      /\ \A i \in 1 .. Len(t) : t[i] = l[i + 1]
  BY <1>1, HeadTailProperties, LenProperties, ElementOfSeq
<1> HIDE DEF l, h, t
<1>4. Distinct(l)
  BY <1>1 DEF RegistryHolds
<1>5. Distinct(t)
  <2> SUFFICES ASSUME NEW i \in 1 .. Len(t), NEW j \in 1 .. Len(t), t[i] = t[j] PROVE i = j
    BY DEF Distinct
  <2>1. i + 1 \in 1 .. Len(l) /\ j + 1 \in 1 .. Len(l) /\ l[i + 1] = l[j + 1]
    BY <1>3
  <2>2. i + 1 = j + 1
    BY <1>4, <2>1 DEF Distinct
  <2> QED BY <2>2
<1>6. Loaded(t) = Loaded(l) \ {h}
  <2>1. ASSUME NEW x \in Loaded(t) PROVE x \in Loaded(l) \ {h}
    <3>1. PICK i \in 1 .. Len(t) : t[i] = x
      BY <1>3, LoadedIs
    <3>2. i + 1 \in 1 .. Len(l) /\ l[i + 1] = x /\ 1 \in 1 .. Len(l) /\ i + 1 # 1
      BY <1>3, <3>1
    <3>3. x # h
      BY <1>3, <1>4, <3>2 DEF Distinct
    <3> QED BY <1>1, <3>2, <3>3, LoadedIs
  <2>2. ASSUME NEW x \in Loaded(l), x # h PROVE x \in Loaded(t)
    <3>1. PICK i \in 1 .. Len(l) : l[i] = x
      BY <1>1, LoadedIs
    <3>2. i # 1
      BY <1>3, <2>2, <3>1
    <3>3. i - 1 \in 1 .. Len(t) /\ t[i - 1] = x
      BY <1>3, <3>1, <3>2
    <3> QED BY <1>3, <3>3, LoadedIs
  <2> QED BY <2>1, <2>2
<1>7. ASSUME Ordered(l) PROVE Ordered(t)
  <2> SUFFICES ASSUME NEW i \in 1 .. Len(t), NEW d \in DepSet(t[i]) PROVE \E j \in 1 .. Len(t) : i < j /\ t[j] = d
    BY DEF Ordered
  <2>1. i + 1 \in 1 .. Len(l) /\ t[i] = l[i + 1]
    BY <1>3
  <2>2. PICK j \in 1 .. Len(l) : i + 1 < j /\ l[j] = d
    BY <1>7, <2>1 DEF Ordered
  <2>3. j - 1 \in 1 .. Len(t) /\ t[j - 1] = d /\ i < j - 1
    BY <1>3, <2>2, SMTT(30)
  <2> QED BY <2>3
<1>8. TimersFit(t, timers', orphans)
  <2> SUFFICES ASSUME NEW x \in Plugin \ orphans
               PROVE  timers'[x] = IF x \in HasTimer \cap Loaded(t) THEN 1 ELSE 0
    BY DEF TimersFit
  <2>1. timers[x] = IF x \in HasTimer \cap Loaded(l) THEN 1 ELSE 0
    BY <1>1 DEF RegistryHolds, TimersFit
  <2>2. timers'[x] = IF x = h THEN (IF timers[x] > 0 THEN timers[x] - 1 ELSE 0) ELSE timers[x]
    BY <1>1, <1>2
  <2> QED BY <1>6, <2>1, <2>2
<1>9. timers' \in [Plugin -> Nat]
  <2>1. (IF timers[h] > 0 THEN timers[h] - 1 ELSE 0) \in Nat
    BY <1>1, <1>3
  <2> QED BY <1>1, <1>2, <2>1
<1>10. RegistryHolds(t, timers', bypassed, orphans)
  BY <1>1, <1>5, <1>7, <1>8 DEF RegistryHolds
<1>11. RegistryTyped'
  BY <1>2, <1>3, <1>9 DEF RegistryTyped
<1>12. WalkHolds'
  <2>1. AskedBefore(t, None, start, asked)
    BY <1>3, NobodyAsked
  <2> QED BY <1>2, <2>1 DEF WalkHolds
<1>13. RegistryHolds(plugins', timers', bypassed', orphans')
  BY <1>2, <1>10
<1> QED BY <1>2, <1>11, <1>12, <1>13 DEF RegistryInv

\* The beginning and the end of a session's unload, and the manager that closed itself
LEMMA PhasesKeep == ASSUME RegistryInv, SessionEnds \/ Unloaded \/ Torn PROVE RegistryInv'
<1>1. /\ UNCHANGED <<plugins, timers, cursor, commanded, start, asked, orphans>>
      /\ phase' \in {"unloading", "off", "crashed"} /\ (phase' \in {"off", "unloading"} => cursor = None)
      /\ (phase' = "off" => plugins = <<>>) /\ (bypassed' = bypassed \/ plugins = <<>>)
  BY DEF SessionEnds, Unloaded, Torn, walk, RegistryInv
<1>2. RegistryTyped'
  BY <1>1 DEF RegistryInv, RegistryTyped
<1>3. ASSUME plugins = <<>> PROVE Ordered(plugins)
  BY <1>3 DEF Ordered
<1>4. RegistryHolds(plugins', timers', bypassed', orphans')
  <2>1. RegistryHolds(plugins, timers, bypassed', orphans)
    BY <1>1, <1>3 DEF RegistryInv, RegistryHolds
  <2> QED BY <1>1, <2>1
<1>5. WalkHolds'
  BY <1>1 DEF RegistryInv, WalkHolds
<1> QED BY <1>1, <1>2, <1>4, <1>5 DEF RegistryInv

\* The place of the cursor: that of its plugin, which the list has once.
LEMMA PositionIs ==
  ASSUME plugins \in Seq(Plugin), cursor \in Loaded(plugins)
  PROVE  Position \in 1 .. Len(plugins) /\ plugins[Position] = cursor
<1> DEFINE I == {i \in 1 .. Len(plugins) : plugins[i] = cursor}
<1>1. I # {}
  BY LoadedIs
<1>2. Position = Min(I)
  BY <1>1 DEF Position, SelectInSeq
<1>3. I \subseteq Nat
  BY LenProperties
<1>4. Min(I) \in I
  BY <1>1, <1>3, MinIs
<1> QED BY <1>2, <1>4

\* irc_cb_data gives the line to the first plugin (irc.c:403).
LEMMA LineKeeps == ASSUME RegistryInv, Line PROVE RegistryInv'
<1> DEFINE h == Head(plugins)
<1>1. /\ phase = "on" /\ plugins # <<>> /\ cursor' = h /\ start' = plugins /\ asked' = {h}
      /\ UNCHANGED <<plugins, timers, phase, bypassed, orphans>>
  BY DEF Line
<1>2. plugins \in Seq(Plugin) /\ h \in Plugin /\ h = plugins[1] /\ Len(plugins) \in Nat \ {0} /\ Distinct(plugins)
  BY <1>1, HeadTailProperties, LenProperties, ElementOfSeq DEF RegistryInv, RegistryTyped, RegistryHolds
<1> HIDE DEF h
<1>3. RegistryTyped'
  BY <1>1, <1>2 DEF RegistryInv, RegistryTyped
<1>4. RegistryHolds(plugins', timers', bypassed', orphans')
  BY <1>1 DEF RegistryInv
<1>5. AskedBefore(plugins, h, plugins, {h})
  <2> SUFFICES ASSUME NEW j \in 1 .. Len(plugins), plugins[j] = h, NEW k \in 1 .. j PROVE plugins[k] = h
    BY DEF AskedBefore
  <2>1. j = 1
    BY <1>2 DEF Distinct
  <2>2. k = 1
    BY <2>1
  <2> QED BY <1>2, <2>2
<1>6. WalkHolds'
  BY <1>1, <1>5 DEF WalkHolds
<1> QED BY <1>1, <1>3, <1>4, <1>6 DEF RegistryInv

\* On to the next entry (irc.c:405)
LEMMA NextPluginKeeps == ASSUME RegistryInv, NextPlugin PROVE RegistryInv'
<1> USE PluginsAssumption
<1> DEFINE i == Position
           n == plugins[i + 1]
<1>1. /\ plugins \in Seq(Plugin) /\ Len(plugins) \in Nat /\ Distinct(plugins) /\ cursor \in Loaded(plugins)
      /\ \A k \in 1 .. Len(plugins) : plugins[k] \in Plugin
  BY LenProperties, ElementOfSeq DEF RegistryInv, RegistryTyped, RegistryHolds, NextPlugin
<1>2. i \in 1 .. Len(plugins) /\ plugins[i] = cursor
  BY <1>1, PositionIs
<1>3. UNCHANGED <<plugins, timers, phase, commanded, bypassed, orphans>>
  BY DEF NextPlugin
<1>4. cursor # None
  BY <1>1, LoadedIs DEF None
<1>5. phase \notin {"off", "unloading"}
  BY <1>4 DEF RegistryInv
<1>6. RegistryHolds(plugins', timers', bypassed', orphans')
  BY <1>3 DEF RegistryInv
<1>7. CASE i >= Len(plugins)
  <2>1. cursor' = None
    BY <1>7 DEF NextPlugin
  <2>2. RegistryTyped'
    BY <1>3, <2>1 DEF RegistryInv, RegistryTyped
  <2>3. AskedBefore(plugins, None, start', asked')
    BY <1>1, NobodyAsked
  <2>4. WalkHolds'
    BY <1>3, <2>1, <2>3 DEF WalkHolds
  <2> QED BY <1>3, <1>6, <2>1, <2>2, <2>4 DEF RegistryInv
<1>8. CASE i < Len(plugins)
  <2>1. cursor' = n /\ asked' = asked \cup {n} /\ start' = start
    BY <1>1, <1>2, <1>8 DEF NextPlugin
  <2>2. i + 1 \in 1 .. Len(plugins) /\ n \in Plugin
    BY <1>1, <1>2, <1>8
  <2>3. RegistryTyped'
    BY <1>3, <2>1, <2>2 DEF RegistryInv, RegistryTyped
  <2> HIDE DEF i
  <2>4. AskedBefore(plugins, n, start, asked \cup {n})
    <3> SUFFICES ASSUME NEW j \in 1 .. Len(plugins), plugins[j] = n, NEW k \in 1 .. j, plugins[k] \in ToSet(start)
                 PROVE  plugins[k] \in asked \cup {n}
      BY DEF AskedBefore
    <3>1. j = i + 1
      BY <1>1, <2>2 DEF Distinct
    <3>2. k = i + 1 \/ k \in 1 .. i
      BY <1>2, <3>1
    <3>3. ASSUME k \in 1 .. i PROVE plugins[k] \in asked
      <4>1. AskedBefore(plugins, cursor, start, asked)
        BY DEF RegistryInv, WalkHolds
      <4> QED BY <1>2, <3>3, <4>1 DEF AskedBefore
    <3> QED BY <3>2, <3>3
  <2>5. cursor # None /\ ~commanded => plugins = start
    BY DEF RegistryInv, WalkHolds
  <2>6. WalkHolds'
    BY <1>3, <1>4, <2>1, <2>4, <2>5 DEF WalkHolds
  <2> QED BY <1>3, <1>5, <1>6, <2>3, <2>6 DEF RegistryInv
<1> QED BY <1>1, <1>2, <1>7, <1>8

\* A plugin has handled the line (irc.c:407).
LEMMA HandledKeeps == ASSUME RegistryInv, Handled PROVE RegistryInv'
<1>1. cursor' = None /\ UNCHANGED <<plugins, timers, phase, commanded, bypassed, orphans>>
  BY DEF Handled
<1>2. RegistryTyped'
  BY <1>1 DEF RegistryInv, RegistryTyped
<1>3. RegistryHolds(plugins', timers', bypassed', orphans')
  BY <1>1 DEF RegistryInv
<1>4. AskedBefore(plugins, None, start', asked')
  BY NobodyAsked DEF RegistryInv, RegistryTyped
<1>5. WalkHolds'
  BY <1>1, <1>4 DEF WalkHolds
<1> QED BY <1>1, <1>2, <1>3, <1>5 DEF RegistryInv

\* The manager runs in the reply of its own list entry, with the list of the line's start.
LEMMA CommandingIs ==
  ASSUME RegistryInv, Commanding
  PROVE  /\ plugins = start /\ cursor # None /\ phase \notin {"off", "unloading"}
         /\ UNCHANGED <<phase, cursor, start, asked>> /\ commanded' = TRUE
         /\ cursor \in Plugin /\ AskedBefore(plugins, cursor, start, asked)
<1>1. /\ cursor \in Plugin /\ ~commanded /\ UNCHANGED <<phase, cursor, start, asked>> /\ commanded' = TRUE
  BY PluginsAssumption DEF Commanding
<1>2. cursor # None
  BY <1>1, PluginsAssumption DEF None
<1> QED BY <1>1, <1>2 DEF RegistryInv, WalkHolds

\* A change of the list by the manager keeps the invariant when the lists and the walk agree afterwards.
LEMMA ChangedKeeps ==
  ASSUME RegistryInv, Commanding, RegistryHolds(plugins', timers', bypassed', orphans'),
         plugins' \in Seq(Plugin), timers' \in [Plugin -> Nat], AskedBefore(plugins', cursor, start, asked)
  PROVE  RegistryInv'
<1>1. /\ cursor # None /\ phase \notin {"off", "unloading"}
      /\ UNCHANGED <<phase, cursor, start, asked>> /\ commanded' = TRUE
  BY CommandingIs
<1>2. RegistryTyped'
  BY <1>1 DEF RegistryInv, RegistryTyped
<1>3. WalkHolds'
  BY <1>1 DEF WalkHolds
<1> QED BY <1>1, <1>2, <1>3 DEF RegistryInv

\* pload: what it loads comes before what was loaded and so before the cursor (plugins.c:166).
LEMMA PloadKeeps == ASSUME RegistryInv, NEW p \in Plugin, Pload(p) PROVE RegistryInv'
<1> USE PluginsAssumption
<1>1. PICK missing, failing : LET r == Open(Registry, p, missing, failing) IN plugins' = r.list /\ timers' = r.timers
  BY Zenon DEF Pload
<1>2. PICK r : r = Open(Registry, p, missing, failing)
  OBVIOUS
<1>3. plugins' = r.list /\ timers' = r.timers
  BY <1>1, <1>2
<1>4. Commanding /\ UNCHANGED <<bypassed, orphans>>
  BY DEF Pload
<1>5. Registry \in Registries /\ Distinct(Registry.list)
  BY RegistryIs DEF RegistryInv, RegistryHolds
<1>6. Grown(Registry, r)
  <2>1. OpensOne(Registry, p, r)
    BY <1>2, <1>5, OpenOpens
  <2> QED BY <2>1 DEF OpensOne
<1>7. r.list \in Seq(Plugin) /\ r.timers \in [Plugin -> Nat] /\ RegistryHolds(r.list, r.timers, bypassed, orphans)
  BY <1>6, GrownHolds DEF RegistryInv
<1>8. PICK pre \in Seq(Plugin) : r.list = pre \o plugins
  BY <1>6, GrownHolds DEF RegistryInv
<1>9. PICK l \in Seq(Plugin) : l = r.list
  BY <1>7
<1>10. AskedBefore(l, cursor, start, asked)
  <2> DEFINE K == Len(pre)
  <2>1. plugins \in Seq(Plugin) /\ cursor \in Loaded(plugins)
    BY <1>4 DEF Commanding, RegistryInv, RegistryTyped
  <2>2. /\ K \in Nat /\ Len(plugins) \in Nat
        /\ \A i \in 1 .. Len(plugins) : K + i \in 1 .. Len(l) /\ l[K + i] = plugins[i]
        /\ Distinct(l) /\ Len(l) \in Nat
    <3>1. Len(pre) \in Nat /\ Len(plugins) \in Nat /\ Len(l) \in Nat
      BY <2>1, LenProperties
    <3>2. l = pre \o plugins
      BY <1>8, <1>9
    <3>3. \A i \in 1 .. Len(plugins) : K + i \in 1 .. Len(l) /\ l[K + i] = plugins[i]
      BY <2>1, <3>2, Behind
    <3> QED BY <1>7, <1>9, <3>1, <3>3 DEF RegistryHolds
  <2>3. PICK c \in 1 .. Len(plugins) : plugins[c] = cursor
    BY <2>1, LoadedIs
  <2>4. plugins = start /\ AskedBefore(plugins, cursor, start, asked)
    BY <1>4, CommandingIs
  <2> HIDE DEF K
  <2> SUFFICES ASSUME NEW j \in 1 .. Len(l), l[j] = cursor, NEW k \in 1 .. j, l[k] \in ToSet(start)
               PROVE  l[k] \in asked
    BY DEF AskedBefore
  <2>5. j = K + c
    BY <2>2, <2>3 DEF Distinct
  <2>6. PICK b \in 1 .. Len(plugins) : plugins[b] = l[k]
    <3>1. l[k] \in Loaded(plugins)
      BY <2>4 DEF Loaded
    <3> QED BY <2>1, <3>1, LoadedIs
  <2>7. k = K + b
    <3>1. k \in 1 .. Len(l)
      BY <2>2
    <3>2. K + b \in 1 .. Len(l) /\ l[K + b] = l[k]
      BY <2>2, <2>6
    <3> QED BY <2>2, <3>1, <3>2 DEF Distinct
  <2>8. b \in 1 .. c
    BY <2>2, <2>5, <2>7
  <2>9. plugins[b] \in asked
    <3>1. plugins[b] \in ToSet(start)
      BY <2>6
    <3> QED BY <2>3, <2>4, <2>8, <3>1 DEF AskedBefore
  <2> QED BY <2>6, <2>9
<1> QED BY <1>3, <1>4, <1>7, <1>9, <1>10, ChangedKeeps

\* A list without p: the others, in their order.
Without(l, p) == Sublist(l, {i \in DOMAIN l : l[i] # p})

\* plugins_close takes one plugin out: the others stay as they are, and in order if nobody needs it (plugins.c:78).
LEMMA WithoutHolds ==
  ASSUME NEW l \in Seq(Plugin), NEW p \in Plugin, Distinct(l), NEW c, NEW s, NEW a, AskedBefore(l, c, s, a)
  PROVE  /\ Without(l, p) \in Seq(Plugin) /\ Distinct(Without(l, p)) /\ Loaded(Without(l, p)) = Loaded(l) \ {p}
         /\ AskedBefore(Without(l, p), c, s, a)
         /\ (Ordered(l) /\ Dependents(l, p) = {} => Ordered(Without(l, p)))
<1> DEFINE I == {i \in DOMAIN l : l[i] # p}
           r == Without(l, p)
           n == Len(l)
           N == Len(r)
<1>1. n \in Nat /\ DOMAIN l = 1 .. n
  BY LenProperties
<1>2. r \in Seq(Plugin) /\ \E at : Stands(l, I, n, r, at)
  BY SublistIs DEF Without
<1>3. PICK at : Stands(l, I, n, r, at)
  BY <1>2
<1>4. N \in Nat
  BY <1>2, LenProperties
<1>5. \A i : i \in I <=> i \in 1 .. n /\ l[i] # p
  BY <1>1
<1> HIDE DEF I, r, n, N
<1>6. /\ \A k \in 1 .. N : at[k] \in 1 .. n /\ at[k] \in I /\ r[k] = l[at[k]]
      /\ \A j, k \in 1 .. N : j < k => at[j] < at[k]
      /\ \A i \in 1 .. n : i \in I => \E k \in 1 .. N : at[k] = i
  BY <1>3 DEF Stands, N
<1>7. \A j, k \in 1 .. N : (at[j] = at[k] => j = k) /\ (at[j] < at[k] => j < k) /\ (j <= k => at[j] <= at[k])
  BY <1>1, <1>4, <1>6
<1>8. \A i, j \in 1 .. n : l[i] = l[j] => i = j
  BY DEF Distinct, n
<1>9. Distinct(r)
  <2> SUFFICES ASSUME NEW j \in 1 .. N, NEW k \in 1 .. N, r[j] = r[k] PROVE j = k
    BY DEF Distinct, N
  <2>1. at[j] = at[k]
    BY <1>6, <1>8
  <2> QED BY <1>7, <2>1
<1>10. \A x : x \in Loaded(l) <=> \E i \in 1 .. n : l[i] = x
  BY LoadedIs DEF n
<1>11. \A x : x \in Loaded(r) <=> \E k \in 1 .. N : r[k] = x
  BY <1>2, LoadedIs DEF N
<1>12. Loaded(r) = Loaded(l) \ {p}
  <2>1. ASSUME NEW x \in Loaded(r) PROVE x \in Loaded(l) \ {p}
    <3>1. PICK k \in 1 .. N : r[k] = x
      BY <1>11
    <3> QED BY <1>5, <1>6, <1>10, <3>1
  <2>2. ASSUME NEW x \in Loaded(l) \ {p} PROVE x \in Loaded(r)
    <3>1. PICK i \in 1 .. n : l[i] = x
      BY <1>10
    <3>2. i \in I
      BY <1>5, <3>1
    <3>3. PICK k \in 1 .. N : at[k] = i
      BY <1>6, <3>2
    <3> QED BY <1>6, <1>11, <3>1, <3>3
  <2> QED BY <2>1, <2>2
<1>13. AskedBefore(r, c, s, a)
  <2> SUFFICES ASSUME NEW j \in 1 .. N, r[j] = c, NEW k \in 1 .. j, r[k] \in ToSet(s) PROVE r[k] \in a
    BY DEF AskedBefore, N
  <2>1. k \in 1 .. N /\ k <= j
    BY <1>4
  <2>2. at[k] \in 1 .. at[j] /\ at[j] \in 1 .. n /\ l[at[j]] = c /\ l[at[k]] = r[k]
    BY <1>1, <1>6, <1>7, <2>1
  <2>3. \A i \in 1 .. n : l[i] = c => \A h \in 1 .. i : l[h] \in ToSet(s) => l[h] \in a
    BY DEF AskedBefore, n
  <2> QED BY <2>2, <2>3
<1>14. ASSUME Ordered(l), Dependents(l, p) = {} PROVE Ordered(r)
  <2> SUFFICES ASSUME NEW k \in 1 .. N, NEW d \in DepSet(r[k]) PROVE \E j \in 1 .. N : k < j /\ r[j] = d
    BY DEF Ordered, N
  <2>1. at[k] \in 1 .. n /\ r[k] = l[at[k]] /\ r[k] \in Loaded(l)
    BY <1>6, <1>10
  <2>2. PICK i \in 1 .. n : at[k] < i /\ l[i] = d
    BY <1>14, <2>1 DEF Ordered, n
  <2>3. d # p
    BY <1>14, <2>1 DEF Dependents
  <2>4. i \in I
    BY <1>5, <2>2, <2>3
  <2>5. PICK j \in 1 .. N : at[j] = i
    BY <1>6, <2>4
  <2>6. k < j /\ r[j] = d
    BY <1>6, <1>7, <2>2, <2>5
  <2> QED BY <2>6
<1> QED BY <1>2, <1>9, <1>12, <1>13, <1>14 DEF r

\* What io_unsettimer leaves of a counter
LEMMA OneLess ==
  /\ \A v \in Nat : (IF v > 0 THEN v - 1 ELSE 0) \in Nat
  /\ \A v : v = 1 \/ v = 0 => (IF v > 0 THEN v - 1 ELSE 0) = 0
OBVIOUS

\* punload: who has dependents stays, unless its name came without the ending (plugins.c:78, 270).
LEMMA PunloadKeeps ==
  ASSUME RegistryInv, NEW p \in Plugin, NEW typed \in {"with .so", "without"}, Punload(p, typed)
  PROVE  RegistryInv'
<1> USE PluginsAssumption
<1> DEFINE l == Without(plugins, p)
<1>1. /\ Commanding /\ p \in Loaded(plugins) /\ plugins' = l /\ orphans' = orphans
      /\ timers' = [timers EXCEPT ![p] = IF @ > 0 THEN @ - 1 ELSE 0]
      /\ bypassed' = (bypassed \/ (typed # "with .so" /\ Dependents(plugins, p) # {}))
  BY DEF Punload, Without
<1>2. plugins \in Seq(Plugin) /\ timers \in [Plugin -> Nat] /\ RegistryHolds(plugins, timers, bypassed, orphans)
  BY DEF RegistryInv, RegistryTyped
<1>3. /\ l \in Seq(Plugin) /\ Distinct(l) /\ Loaded(l) = Loaded(plugins) \ {p}
      /\ AskedBefore(l, cursor, start, asked)
      /\ (Ordered(plugins) /\ Dependents(plugins, p) = {} => Ordered(l))
  BY <1>1, <1>2, CommandingIs, WithoutHolds DEF RegistryHolds
<1> HIDE DEF l
<1>4. ~bypassed' => Ordered(l)
  <2>1. ~bypassed' => ~bypassed /\ Dependents(plugins, p) = {}
    BY <1>1 DEF Punload, Depended
  <2> QED BY <1>2, <1>3, <2>1 DEF RegistryHolds
<1>5. TimersFit(l, timers', orphans)
  <2> SUFFICES ASSUME NEW x \in Plugin \ orphans
               PROVE  timers'[x] = IF x \in HasTimer \cap Loaded(l) THEN 1 ELSE 0
    BY DEF TimersFit
  <2>1. timers[x] = IF x \in HasTimer \cap Loaded(plugins) THEN 1 ELSE 0
    BY <1>2 DEF RegistryHolds, TimersFit
  <2>2. timers'[x] = IF x = p THEN (IF timers[x] > 0 THEN timers[x] - 1 ELSE 0) ELSE timers[x]
    BY <1>1, <1>2
  <2>3. CASE x = p
    <3>1. timers[p] = 1 \/ timers[p] = 0
      BY <2>1, <2>3
    <3>2. timers'[p] = IF timers[p] > 0 THEN timers[p] - 1 ELSE 0
      BY <2>2, <2>3, Zenon
    <3>4. timers'[p] = 0
      BY <3>1, <3>2, OneLess, Zenon
    <3> QED BY <1>3, <2>3, <3>4
  <2>4. CASE x # p
    BY <1>3, <2>1, <2>2, <2>4
  <2> QED BY <2>3, <2>4
<1>6. timers' \in [Plugin -> Nat]
  <2>1. (IF timers[p] > 0 THEN timers[p] - 1 ELSE 0) \in Nat
    <3>1. PICK v \in Nat : v = timers[p]
      BY <1>2
    <3> QED BY <3>1, OneLess, Zenon
  <2> QED BY <1>1, <1>2, <2>1
<1>7. RegistryHolds(plugins', timers', bypassed', orphans')
  BY <1>1, <1>3, <1>4, <1>5 DEF RegistryHolds
<1> QED BY <1>1, <1>3, <1>6, <1>7, ChangedKeeps

\* preload with an init that fails: out without a look at who needs it, and without its timer (plugins.c:268).
LEMMA PreloadKeeps == ASSUME RegistryInv, NEW p \in Plugin, Preload(p) PROVE RegistryInv'
<1> DEFINE l == Without(plugins, p)
<1>1. /\ Commanding /\ p \in Loaded(plugins) /\ p \notin orphans /\ plugins' = l /\ timers' = timers
      /\ orphans' = orphans \cup ({p} \cap HasTimer)
      /\ bypassed' = (bypassed \/ Dependents(plugins, p) # {})
  BY DEF Preload, Without
<1>2. plugins \in Seq(Plugin) /\ timers \in [Plugin -> Nat] /\ RegistryHolds(plugins, timers, bypassed, orphans)
  BY DEF RegistryInv, RegistryTyped
<1>3. /\ l \in Seq(Plugin) /\ Distinct(l) /\ Loaded(l) = Loaded(plugins) \ {p}
      /\ AskedBefore(l, cursor, start, asked)
      /\ (Ordered(plugins) /\ Dependents(plugins, p) = {} => Ordered(l))
  BY <1>1, <1>2, CommandingIs, WithoutHolds DEF RegistryHolds
<1> HIDE DEF l
<1>4. ~bypassed' => Ordered(l)
  <2>1. ~bypassed' => ~bypassed /\ Dependents(plugins, p) = {}
    BY <1>1
  <2> QED BY <1>2, <1>3, <2>1 DEF RegistryHolds
<1>5. TimersFit(l, timers', orphans')
  <2> SUFFICES ASSUME NEW x \in Plugin \ orphans'
               PROVE  timers'[x] = IF x \in HasTimer \cap Loaded(l) THEN 1 ELSE 0
    BY DEF TimersFit
  <2>1. x \in Plugin \ orphans /\ (x = p => p \notin HasTimer)
    BY <1>1
  <2>2. timers[x] = IF x \in HasTimer \cap Loaded(plugins) THEN 1 ELSE 0
    BY <1>2, <2>1 DEF RegistryHolds, TimersFit
  <2> QED BY <1>1, <1>3, <2>1, <2>2
<1>6. RegistryHolds(plugins', timers', bypassed', orphans')
  BY <1>1, <1>3, <1>4, <1>5 DEF RegistryHolds
<1> QED BY <1>1, <1>2, <1>3, <1>6, ChangedKeeps

\* No step breaks the invariant.
LEMMA RegistryKeeps == RegistryInv /\ [PluginsNext]_pluginsVars => RegistryInv'
<1> SUFFICES ASSUME RegistryInv, [PluginsNext]_pluginsVars PROVE RegistryInv'
  OBVIOUS
<1>1. CASE UNCHANGED pluginsVars
  BY <1>1 DEF pluginsVars, RegistryInv, RegistryTyped, RegistryHolds, TimersFit, WalkHolds
<1>2. CASE phase = "crashed" /\ UNCHANGED pluginsVars
  BY <1>1, <1>2
<1>3. CASE Torn \/ SessionEnds \/ Unloaded
  BY <1>3, PhasesKeep
<1>4. CASE LoadAll
  BY <1>4, LoadAllKeeps
<1>5. CASE UnloadOne
  BY <1>5, UnloadOneKeeps
<1>6. CASE Line
  BY <1>6, LineKeeps
<1>7. CASE NextPlugin
  BY <1>7, NextPluginKeeps
<1>8. CASE Handled
  BY <1>8, HandledKeeps
<1>9. CASE \E p \in Plugin : Pload(p)
  BY <1>9, PloadKeeps
<1>10. CASE \E p \in Plugin : Preload(p)
  BY <1>10, PreloadKeeps
<1>11. CASE \E p \in Plugin, typed \in {"with .so", "without"} : Punload(p, typed)
  BY <1>11, PunloadKeeps
<1> QED BY <1>1, <1>2, <1>3, <1>4, <1>5, <1>6, <1>7, <1>8, <1>9, <1>10, <1>11, Zenon DEF PluginsNext

\* The invariant holds in every state.
LEMMA RegistryAlways == PluginsSpec => []RegistryInv
BY PluginsStarts, RegistryKeeps, PTL DEF PluginsSpec

\* Whatever is loaded, taken out or refused, also in a circle of dependencies and when a file is missing or an
\* init fails: every loaded plugin finds those it depends on, and a timer is set exactly while its plugin is
\* loaded, but for the exceptions that bypassed and orphans mark (plugins.c:78, 153, 228, 268).
THEOREM PluginsNothingDangling == PluginsSpec => []NothingDangling
<1>1. RegistryInv => NothingDangling
  <2> SUFFICES ASSUME RegistryInv PROVE NothingDangling
    OBVIOUS
  <2>1. plugins \in Seq(Plugin) /\ RegistryHolds(plugins, timers, bypassed, orphans)
    BY DEF RegistryInv, RegistryTyped
  <2>2. TimersLoaded
    BY <2>1 DEF RegistryHolds, TimersFit, TimersLoaded
  <2>3. ASSUME Ordered(plugins), NEW p \in Loaded(plugins), NEW d \in DepSet(p) PROVE d \in Loaded(plugins)
    <3>1. PICK i \in 1 .. Len(plugins) : plugins[i] = p
      BY <2>1, LoadedIs
    <3>2. \E j \in 1 .. Len(plugins) : plugins[j] = d
      BY <2>3, <3>1 DEF Ordered
    <3> QED BY <2>1, <3>2, LoadedIs
  <2>4. DepsLoaded
    BY <2>1, <2>3 DEF RegistryHolds, DepsLoaded
  <2> QED BY <2>2, <2>4 DEF NothingDangling
<1> QED BY <1>1, RegistryAlways, PTL

\* A line has been given to every plugin before the cursor that was there when the line came, whatever the
\* manager has loaded or taken out since (irc.c:403).
THEOREM PluginsNoneMissed == PluginsSpec => []NoneMissed
<1>1. RegistryInv => NoneMissed
  <2> SUFFICES ASSUME RegistryInv, cursor \in Loaded(plugins),
                      NEW k \in 1 .. Position, plugins[k] \in ToSet(start)
               PROVE  plugins[k] \in asked
    BY DEF NoneMissed, Position
  <2>1. Position \in 1 .. Len(plugins) /\ plugins[Position] = cursor
    BY PositionIs DEF RegistryInv, RegistryTyped
  <2>2. AskedBefore(plugins, cursor, start, asked)
    BY DEF RegistryInv, WalkHolds
  <2> QED BY <2>1, <2>2 DEF AskedBefore
<1> QED BY <1>1, RegistryAlways, PTL

-----------------------------------------------------------------------------
\* f is the function of a loop of N turns that begins with x.
Turns(N, x, step, f) == f = [n \in 0 .. N |-> IF n = 0 THEN x ELSE step[f[n - 1]]]

\* A loop that takes something away with every turn, or else leaves all as it is, has ended after as many
\* turns as there was to take; and what its turns keep it keeps.
LEMMA LoopEnds ==
  ASSUME NEW S, NEW step \in [S -> S], NEW size \in [S -> Nat],
         NEW K, K \subseteq S, NEW x \in K,
         \A y \in K : step[y] \in K /\ (step[y] = y \/ size[step[y]] < size[y]),
         NEW N \in Nat, size[x] <= N
  PROVE  \E f : /\ Turns(N, x, step, f) /\ \A n \in 0 .. N : f[n] \in K
                /\ step[f[N]] = f[N]
<1> DEFINE turn == [p \in Nat \X S |-> step[p[2]]]
<1>1. PICK f : Walk(N, x, turn, f)
  BY WalkExists
<1>2. /\ f[0] = x
      /\ \A n \in 0 .. N - 1 : f[n + 1] = turn[<<n + 1, f[n]>>]
  <2> HIDE DEF turn
  <2>1. f = [n \in 0 .. N |-> IF n = 0 THEN x ELSE turn[<<n, f[n - 1]>>]]
    BY <1>1, Zenon DEF Walk
  <2>2. \A n \in 0 .. N : f[n] = IF n = 0 THEN x ELSE turn[<<n, f[n - 1]>>]
    BY <2>1, Zenon
  <2>3. /\ 0 \in 0 .. N
        /\ \A n \in 0 .. N - 1 : n + 1 \in 0 .. N /\ n + 1 # 0 /\ (n + 1) - 1 = n
    OBVIOUS
  <2> QED BY <2>2, <2>3, Zenon
<1>3. \A n \in 0 .. N - 1, y \in S : turn[<<n + 1, y>>] = step[y]
  OBVIOUS
<1> HIDE DEF turn
<1> DEFINE T == {n \in 0 .. N : /\ f[n] \in K
                                /\ step[f[n]] = f[n] \/ size[f[n]] + n <= N}
<1>4. 0 \in T
  BY <1>2
<1>5. ASSUME NEW n \in 0 .. N - 1, n \in T PROVE n + 1 \in T
  <2>1. f[n] \in K /\ f[n] \in S
    BY <1>5
  <2>2. f[n + 1] = step[f[n]]
    BY <1>2, <1>3, <2>1
  <2>3. step[f[n]] \in K
    BY <2>1
  <2>4. step[f[n]] = f[n] => step[f[n + 1]] = f[n + 1]
    BY <2>2
  <2>5. step[f[n]] # f[n] => size[f[n + 1]] + (n + 1) <= N
    <3>1. ASSUME step[f[n]] # f[n] PROVE size[f[n + 1]] + (n + 1) <= N
      <4>1. size[f[n]] + n <= N
        BY <1>5, <3>1
      <4>2. size[f[n + 1]] < size[f[n]]
        BY <2>1, <2>2, <3>1
      <4>3. size[f[n + 1]] \in Nat /\ size[f[n]] \in Nat
        BY <2>1, <2>2, <2>3
      <4> QED BY <4>1, <4>2, <4>3
    <3> QED BY <3>1
  <2>6. n + 1 \in 0 .. N
    OBVIOUS
  <2> QED BY <2>2, <2>3, <2>4, <2>5, <2>6
<1> HIDE DEF T
<1>6. 0 .. N \subseteq T
  BY <1>4, <1>5, InductiveUpTo
<1>7. \A n \in 0 .. N : f[n] \in K
  BY <1>6 DEF T
<1>8. step[f[N]] = f[N]
  <2>1. N \in T
    BY <1>6
  <2>2. f[N] \in S /\ size[f[N]] \in Nat
    BY <1>7
  <2>3. CASE step[f[N]] # f[N]
    <3>1. size[f[N]] + N <= N
      BY <2>1, <2>3 DEF T
    <3>2. size[f[N]] = 0
      BY <2>2, <3>1
    <3>3. size[step[f[N]]] < size[f[N]] /\ size[step[f[N]]] \in Nat
      BY <1>7, <2>3
    <3> QED BY <3>2, <3>3
  <2> QED BY <2>3
<1>9. Turns(N, x, step, f)
  <2>1. f = [n \in 0 .. N |-> IF n = 0 THEN x ELSE turn[<<n, f[n - 1]>>]]
    BY <1>1, Zenon DEF Walk
  <2>2. \A n \in 0 .. N : n # 0 => turn[<<n, f[n - 1]>>] = step[f[n - 1]]
    <3>1. ASSUME NEW n \in 0 .. N, n # 0 PROVE turn[<<n, f[n - 1]>>] = step[f[n - 1]]
      <4>1. n - 1 \in 0 .. N - 1 /\ n - 1 \in 0 .. N /\ (n - 1) + 1 = n
        BY <3>1
      <4>2. f[n - 1] \in S
        BY <1>7, <4>1
      <4> QED BY <1>3, <4>1, <4>2
    <3> QED BY <3>1
  <2>3. [n \in 0 .. N |-> IF n = 0 THEN x ELSE turn[<<n, f[n - 1]>>]]
          = [n \in 0 .. N |-> IF n = 0 THEN x ELSE step[f[n - 1]]]
    BY <2>2
  <2> QED BY <2>1, <2>3, Zenon DEF Turns
<1> QED BY <1>7, <1>8, <1>9

-----------------------------------------------------------------------------
\* The bytes of the first chunks are those of one less and those of the last.
LEMMA TotalIs ==
  ASSUME NEW sizes \in Seq(Nat \ {0})
  PROVE  /\ Total(sizes, 0) = 0
         /\ \A n \in 1 .. Len(sizes) : /\ Total(sizes, n) = Total(sizes, n - 1) + sizes[n]
                                       /\ sizes[n] \in Nat \ {0}
         /\ \A n \in 0 .. Len(sizes) : Total(sizes, n) \in Nat
<1> DEFINE L == Len(sizes)
           turn == [p \in (1 .. L) \X Nat |-> p[2] + sizes[p[1]]]
           Up(n, f) == f = [i \in 0 .. n |-> IF i = 0 THEN 0 ELSE f[i - 1] + sizes[i]]
           u(n) == CHOOSE f : Up(n, f)
<1>1. L \in Nat /\ \A i \in 1 .. L : sizes[i] \in Nat \ {0}
  BY ElementOfSeq, LenProperties
<1>2. \A i \in 1 .. L, v \in Nat : turn[<<i, v>>] = v + sizes[i]
  OBVIOUS
<1> HIDE DEF turn, L
<1>3. ASSUME NEW n \in 0 .. L PROVE \E f : Up(n, f)
  <2>0. n \in Nat /\ 0 \in 0 .. n
    BY <1>1
  <2>1. PICK f : Walk(n, 0, turn, f)
    BY <2>0, WalkExists
  <2>2. f = [i \in 0 .. n |-> IF i = 0 THEN 0 ELSE turn[<<i, f[i - 1]>>]]
    BY <2>1, Zenon DEF Walk
  <2>3. \A i \in 0 .. n : f[i] = IF i = 0 THEN 0 ELSE turn[<<i, f[i - 1]>>]
    BY <2>2, Zenon
  <2> DEFINE T == {i \in 0 .. n : f[i] \in Nat}
  <2>4. 0 \in T
    <3>1. f[0] = 0
      BY <2>0, <2>3, Zenon
    <3> QED BY <2>0, <3>1
  <2>5. ASSUME NEW i \in 0 .. n - 1, i \in T PROVE i + 1 \in T
    <3>1. i + 1 \in 0 .. n /\ i + 1 # 0 /\ (i + 1) - 1 = i /\ i + 1 \in 1 .. L /\ f[i] \in Nat
      BY <1>1, <2>5
    <3>2. f[i + 1] = turn[<<i + 1, f[i]>>]
      BY <2>3, <3>1
    <3> QED BY <1>1, <1>2, <3>1, <3>2, SMTT(30)
  <2>6. n \in Nat
    BY <1>1
  <2> HIDE DEF T
  <2>7. 0 .. n \subseteq T
    BY <2>4, <2>5, <2>6, InductiveUpTo
  <2>8. \A i \in 0 .. n : i # 0 => turn[<<i, f[i - 1]>>] = f[i - 1] + sizes[i]
    <3>1. ASSUME NEW i \in 0 .. n, i # 0 PROVE turn[<<i, f[i - 1]>>] = f[i - 1] + sizes[i]
      <4>1. i - 1 \in 0 .. n /\ i \in 1 .. L
        BY <1>1, <3>1
      <4>2. f[i - 1] \in Nat
        BY <2>7, <4>1 DEF T
      <4> QED BY <1>2, <4>1, <4>2
    <3> QED BY <3>1
  <2>9. [i \in 0 .. n |-> IF i = 0 THEN 0 ELSE turn[<<i, f[i - 1]>>]]
          = [i \in 0 .. n |-> IF i = 0 THEN 0 ELSE f[i - 1] + sizes[i]]
    BY <2>8
  <2> QED BY <2>2, <2>9, Zenon
<1>4. ASSUME NEW n \in 0 .. L PROVE /\ Total(sizes, n) = u(n)[n]
                                    /\ \A i \in 0 .. n : u(n)[i] = IF i = 0 THEN 0 ELSE u(n)[i - 1] + sizes[i]
  <2>1. Up(n, u(n))
    BY <1>3, Zenon
  <2>2. Total(sizes, n) = u(n)[n]
    BY Zenon DEF Total
  <2> DEFINE g == u(n)
  <2>3. g = [i \in 0 .. n |-> IF i = 0 THEN 0 ELSE g[i - 1] + sizes[i]]
    BY <2>1
  <2> HIDE DEF g
  <2>4. \A i \in 0 .. n : g[i] = IF i = 0 THEN 0 ELSE g[i - 1] + sizes[i]
    BY <2>3, Zenon
  <2> QED BY <2>2, <2>4 DEF g
<1> HIDE DEF u
<1>5. ASSUME NEW n \in 0 .. L, NEW len \in 0 .. n PROVE u(n)[len] = u(len)[len] /\ u(len)[len] \in Nat
  <2> DEFINE T == {i \in 0 .. len : u(n)[i] = u(len)[i] /\ u(len)[i] \in Nat}
  <2>1. n \in Nat /\ len \in Nat /\ len \in 0 .. L
    BY <1>1
  <2>2. 0 \in T
    <3>1. 0 \in 0 .. len /\ 0 \in 0 .. n
      BY <2>1
    <3>2. u(n)[0] = 0 /\ u(len)[0] = 0
      BY <1>4, <2>1, <3>1
    <3> QED BY <3>1, <3>2
  <2>3. ASSUME NEW i \in 0 .. len - 1, i \in T PROVE i + 1 \in T
    <3>1. i + 1 \in 0 .. len /\ i + 1 \in 0 .. n /\ i + 1 # 0 /\ (i + 1) - 1 = i /\ i + 1 \in 1 .. L
      BY <1>1, <2>1
    <3>2. u(n)[i + 1] = u(n)[i] + sizes[i + 1]
      BY <1>4, <3>1
    <3>3. u(len)[i + 1] = u(len)[i] + sizes[i + 1]
      BY <1>4, <2>1, <3>1
    <3>4. sizes[i + 1] \in Nat
      BY <1>1, <3>1
    <3> QED BY <2>3, <3>1, <3>2, <3>3, <3>4
  <2> HIDE DEF T
  <2>4. 0 .. len \subseteq T
    BY <2>1, <2>2, <2>3, InductiveUpTo
  <2>5. len \in T
    BY <2>1, <2>4
  <2> QED BY <2>5 DEF T
<1>6. Total(sizes, 0) = 0
  <2>1. 0 \in 0 .. L /\ 0 \in 0 .. 0
    BY <1>1
  <2> QED BY <1>4, <2>1
<1>7. ASSUME NEW n \in 1 .. L
      PROVE  Total(sizes, n) = Total(sizes, n - 1) + sizes[n]
  <2>1. n \in 0 .. L /\ n \in 0 .. n /\ n # 0 /\ n - 1 \in 0 .. L /\ n - 1 \in 0 .. n
    BY <1>1
  <2>2. Total(sizes, n) = u(n)[n] /\ u(n)[n] = u(n)[n - 1] + sizes[n]
    BY <1>4, <2>1
  <2>3. Total(sizes, n - 1) = u(n - 1)[n - 1]
    BY <1>4, <2>1
  <2>4. u(n)[n - 1] = u(n - 1)[n - 1]
    BY <1>5, <2>1
  <2> QED BY <2>2, <2>3, <2>4
<1>8. ASSUME NEW n \in 0 .. L PROVE Total(sizes, n) \in Nat
  <2>1. n \in 0 .. n
    BY <1>1
  <2> QED BY <1>4, <1>5, <2>1
<1> QED BY <1>1, <1>6, <1>7, <1>8 DEF L

Cells == [t : {"nl", "status", "content-length", "chunked", "size", "cr", "byte"}, v : Nat]

\* The cells of an answer are what they are called, and are told apart by it.
LEMMA CellIs ==
  /\ NL \in Cells /\ NL.t = "nl" /\ NL = Cell("nl", 0) /\ Cell("cr", 0) \in Cells /\ Cell("cr", 0).t = "cr"
  /\ \A n \in Nat : \A t \in {"nl", "status", "content-length", "chunked", "size", "cr", "byte"} :
       Cell(t, n) \in Cells /\ Cell(t, n).t = t /\ Cell(t, n).v = n
BY DEF NL, Cell, Cells

\* The elements of two sequences one behind the other.
LEMMA Joined ==
  ASSUME NEW S, NEW s \in Seq(S), NEW t \in Seq(S)
  PROVE  /\ s \o t \in Seq(S) /\ Len(s) \in Nat /\ Len(t) \in Nat /\ Len(s \o t) = Len(s) + Len(t)
         /\ \A i \in 1 .. Len(s) : (s \o t)[i] = s[i]
         /\ \A i \in 1 .. Len(t) : (s \o t)[Len(s) + i] = t[i]
<1> DEFINE a == s \o t
           K == Len(s)
           N == Len(t)
<1>1. a \in Seq(S) /\ Len(a) = K + N /\ \A i \in 1 .. K + N : a[i] = IF i <= K THEN s[i] ELSE t[i - K]
  BY ConcatProperties
<1>2. K \in Nat /\ N \in Nat
  BY LenProperties
<1> HIDE DEF a, K, N
<1>3. \A i \in 1 .. K : a[i] = s[i]
  BY <1>1, <1>2
<1>4. \A i \in 1 .. N : a[K + i] = t[i]
  <2> SUFFICES ASSUME NEW i \in 1 .. N PROVE a[K + i] = t[i]
    OBVIOUS
  <2>1. K + i \in 1 .. K + N /\ ~(K + i <= K) /\ (K + i) - K = i
    BY <1>2
  <2> QED BY <1>1, <2>1
<1> QED BY <1>1, <1>2, <1>3, <1>4 DEF a, K, N

\* A run of bytes
LEMMA BytesIs ==
  ASSUME NEW from \in Nat, NEW n \in Nat
  PROVE  /\ Bytes(from, n) \in Seq(Cells) /\ Len(Bytes(from, n)) = n
         /\ \A j \in 1 .. n : Bytes(from, n)[j] = Cell("byte", from + j)
<1>1. \A j \in 1 .. n : Cell("byte", from + j) \in Cells
  BY CellIs
<1>2. Bytes(from, n) \in [1 .. n -> Cells] /\ \A j \in 1 .. n : Bytes(from, n)[j] = Cell("byte", from + j)
  BY <1>1 DEF Bytes
<1>3. Bytes(from, n) \in Seq(Cells) /\ Len(Bytes(from, n)) = n
  BY <1>2
<1> QED BY <1>2, <1>3

\* A line is its cell and its end.
LEMMA LineIs ==
  ASSUME NEW t \in {"status", "content-length", "chunked", "size"}, NEW v \in Nat
  PROVE  /\ HttpLine(t, v) \in Seq(Cells) /\ Len(HttpLine(t, v)) = 2
         /\ HttpLine(t, v)[1] = Cell(t, v) /\ HttpLine(t, v)[2] = NL
<1>1. Cell(t, v) \in Cells /\ NL \in Cells
  BY CellIs
<1> QED BY <1>1 DEF HttpLine

\* A chunk is the line with its size, its bytes and a line end.
LEMMA ChunkIs ==
  ASSUME NEW sizes \in Seq(Nat \ {0}), NEW i \in 1 .. Len(sizes)
  PROVE  /\ Chunk(sizes, i) \in Seq(Cells) /\ Len(Chunk(sizes, i)) = sizes[i] + 4
         /\ Chunk(sizes, i)[1] = Cell("size", sizes[i]) /\ Chunk(sizes, i)[2] = NL
         /\ \A j \in 1 .. sizes[i] : Chunk(sizes, i)[j + 2] = Cell("byte", Total(sizes, i - 1) + j)
         /\ Chunk(sizes, i)[sizes[i] + 3] = Cell("cr", 0) /\ Chunk(sizes, i)[sizes[i] + 4] = NL
<1>1. sizes[i] \in Nat \ {0} /\ i - 1 \in 0 .. Len(sizes) /\ Total(sizes, i - 1) \in Nat
  <2>1. Len(sizes) \in Nat
    BY LenProperties
  <2> QED BY <2>1, TotalIs
<1> DEFINE h == HttpLine("size", sizes[i])
           b == Bytes(Total(sizes, i - 1), sizes[i])
           e == <<Cell("cr", 0), NL>>
<1>2. h \in Seq(Cells) /\ Len(h) = 2 /\ h[1] = Cell("size", sizes[i]) /\ h[2] = NL
  BY <1>1, LineIs
<1>3. b \in Seq(Cells) /\ Len(b) = sizes[i] /\ \A j \in 1 .. sizes[i] : b[j] = Cell("byte", Total(sizes, i - 1) + j)
  BY <1>1, BytesIs
<1>4. e \in Seq(Cells) /\ Len(e) = 2 /\ e[1] = Cell("cr", 0) /\ e[2] = NL
  BY CellIs
<1>5. Chunk(sizes, i) = h \o b \o e
  BY DEF Chunk
<1> HIDE DEF h, b, e
<1> DEFINE c == sizes[i]
<1>6. h \in Seq(Cells) /\ b \in Seq(Cells) /\ e \in Seq(Cells) /\ Len(h) = 2 /\ Len(b) = c /\ Len(e) = 2 /\ c \in Nat
  BY <1>1, <1>2, <1>3, <1>4
<1> HIDE DEF c
<1> DEFINE hb == h \o b
<1>7. /\ hb \in Seq(Cells) /\ Len(hb) = 2 + c
      /\ hb[1] = h[1] /\ hb[2] = h[2] /\ \A j \in 1 .. c : hb[j + 2] = b[j]
  <2>1. /\ h \o b \in Seq(Cells) /\ Len(h \o b) = Len(h) + Len(b)
        /\ \A j \in 1 .. Len(h) : (h \o b)[j] = h[j]
        /\ \A j \in 1 .. Len(b) : (h \o b)[Len(h) + j] = b[j]
    <3>1. h \in Seq(Cells) /\ b \in Seq(Cells)
      BY <1>6
    <3> QED BY ONLY <3>1, Joined
  <2> HIDE DEF hb
  <2>2. \A j \in 1 .. c : 2 + j = j + 2
    BY <1>6
  <2> QED BY <1>6, <2>1, <2>2 DEF hb
<1> HIDE DEF hb
<1>8. /\ hb \o e \in Seq(Cells) /\ Len(hb \o e) = c + 4
      /\ \A j \in 1 .. c + 2 : (hb \o e)[j] = hb[j]
      /\ (hb \o e)[c + 3] = e[1] /\ (hb \o e)[c + 4] = e[2]
  <2>1. /\ hb \o e \in Seq(Cells) /\ Len(hb \o e) = Len(hb) + Len(e)
        /\ \A j \in 1 .. Len(hb) : (hb \o e)[j] = hb[j]
        /\ \A j \in 1 .. Len(e) : (hb \o e)[Len(hb) + j] = e[j]
    <3>1. hb \in Seq(Cells) /\ e \in Seq(Cells)
      BY <1>6, <1>7
    <3> QED BY ONLY <3>1, Joined
  <2>2. Len(hb) = c + 2 /\ (c + 2) + 1 = c + 3 /\ (c + 2) + 2 = c + 4 /\ 1 \in 1 .. 2 /\ 2 \in 1 .. 2 /\ Len(e) = 2
    BY <1>6, <1>7
  <2> QED BY <2>1, <2>2
<1>9. /\ (hb \o e)[1] = h[1] /\ (hb \o e)[2] = h[2]
      /\ \A j \in 1 .. c : (hb \o e)[j + 2] = b[j]
  <2>1. 1 \in 1 .. c + 2 /\ 2 \in 1 .. c + 2 /\ \A j \in 1 .. c : j + 2 \in 1 .. c + 2
    BY <1>6
  <2> QED BY <1>7, <1>8, <2>1
<1>10. Chunk(sizes, i) = hb \o e
  BY <1>5 DEF hb
<1> QED BY <1>2, <1>3, <1>4, <1>8, <1>9, <1>10 DEF c

\* The cells of the first k chunks
ChunksEnd(sizes, k) == Total(sizes, k) + 4 * k

\* A chunk takes four cells more than its bytes.
LEMMA ChunksEndIs ==
  ASSUME NEW sizes \in Seq(Nat \ {0})
  PROVE  /\ ChunksEnd(sizes, 0) = 0 /\ Len(sizes) \in Nat
         /\ \A k \in 0 .. Len(sizes) : ChunksEnd(sizes, k) \in Nat
         /\ \A k \in 1 .. Len(sizes) : ChunksEnd(sizes, k) = ChunksEnd(sizes, k - 1) + sizes[k] + 4
<1>1. Len(sizes) \in Nat
  BY LenProperties
<1>2. ChunksEnd(sizes, 0) = 0
  BY TotalIs DEF ChunksEnd
<1>3. \A k \in 0 .. Len(sizes) : ChunksEnd(sizes, k) \in Nat
  BY <1>1, TotalIs DEF ChunksEnd
<1>4. ASSUME NEW k \in 1 .. Len(sizes) PROVE ChunksEnd(sizes, k) = ChunksEnd(sizes, k - 1) + sizes[k] + 4
  <2>1. /\ Total(sizes, k) = Total(sizes, k - 1) + sizes[k] /\ sizes[k] \in Nat
        /\ k - 1 \in 0 .. Len(sizes) /\ Total(sizes, k - 1) \in Nat
    BY <1>1, TotalIs
  <2>2. ChunksEnd(sizes, k - 1) = Total(sizes, k - 1) + 4 * (k - 1)
    BY DEF ChunksEnd
  <2>3. 4 * k = 4 * (k - 1) + 4
    BY <1>1
  <2> QED BY <1>1, <2>1, <2>2, <2>3 DEF ChunksEnd
<1> QED BY <1>1, <1>2, <1>3, <1>4

\* The body in chunks: chunk i begins where the chunks before it end.
LEMMA FlatIs ==
  ASSUME NEW sizes \in Seq(Nat \ {0}), NEW chunks, chunks = [i \in DOMAIN sizes |-> Chunk(sizes, i)]
  PROVE  /\ FlattenSeq(chunks) \in Seq(Cells)
         /\ Len(FlattenSeq(chunks)) = ChunksEnd(sizes, Len(sizes))
         /\ \A i \in 1 .. Len(sizes) : \A j \in 1 .. sizes[i] + 4 :
              /\ ChunksEnd(sizes, i - 1) + j \in 1 .. ChunksEnd(sizes, Len(sizes))
              /\ FlattenSeq(chunks)[ChunksEnd(sizes, i - 1) + j] = Chunk(sizes, i)[j]
<1> DEFINE L == Len(sizes)
           B(k) == ChunksEnd(sizes, k)
           C(i) == Chunk(sizes, i)
<1>1. /\ L \in Nat /\ B(0) = 0
      /\ \A k \in 0 .. L : B(k) \in Nat
      /\ \A k \in 1 .. L : B(k) = B(k - 1) + sizes[k] + 4 /\ sizes[k] \in Nat \ {0}
  BY ChunksEndIs, TotalIs
<1>2. \A i \in 1 .. L : C(i) \in Seq(Cells) /\ Len(C(i)) = sizes[i] + 4
  BY ChunkIs
<1>3. DOMAIN sizes = 1 .. L
  BY LenProperties
<1>4. chunks \in Seq(Seq(Cells)) /\ Len(chunks) = L /\ \A i \in 1 .. L : chunks[i] = C(i)
  <2>1. chunks = [i \in 1 .. L |-> C(i)]
    BY <1>3
  <2> HIDE DEF L, C
  <2>2. \A i \in 1 .. L : chunks[i] = C(i)
    BY <2>1
  <2>3. chunks \in [1 .. L -> Seq(Cells)]
    BY <1>2, <2>1
  <2> QED BY <1>1, <2>2, <2>3
<1> HIDE DEF C, B, L
<1> DEFINE F == Flattened(chunks)
           G(k) == IF k = 0 THEN <<>> ELSE F[k]
<1>5. /\ L = 0 => FlattenSeq(chunks) = <<>>
      /\ L # 0 => FlattenSeq(chunks) = F[L]
      /\ \A i \in 1 .. L : F[i] = IF i = 1 THEN chunks[i] ELSE F[i - 1] \o chunks[i]
      /\ FlattenSeq(chunks) \in Seq(Cells)
      /\ \A i \in 1 .. L : F[i] \in Seq(Cells)
  BY <1>4, FlattenedIs, FlattenType
<1> HIDE DEF F
<1>6. FlattenSeq(chunks) = G(L)
  BY <1>5
<1>7. ASSUME NEW k \in 0 .. L PROVE G(k) \in Seq(Cells)
  <2>1. CASE k = 0
    BY <2>1
  <2>2. CASE k # 0
    <3>1. k \in 1 .. L
      BY <1>1, <2>2
    <3> QED BY <1>5, <2>2, <3>1
  <2> QED BY <2>1, <2>2
<1>8. ASSUME NEW k \in 1 .. L PROVE G(k) = G(k - 1) \o C(k) /\ k - 1 \in 0 .. L
  <2>0. k # 0 /\ k - 1 \in 0 .. L
    BY <1>1
  <2>1. k # 0 /\ k - 1 \in 0 .. L /\ F[k] = IF k = 1 THEN C(k) ELSE F[k - 1] \o C(k)
    <3>1. chunks[k] = C(k)
      BY <1>4
    <3>2. F[k] = IF k = 1 THEN chunks[k] ELSE F[k - 1] \o chunks[k]
      BY <1>5, Zenon
    <3> QED BY <2>0, <3>1, <3>2, Zenon
  <2>2. CASE k = 1
    <3>1. G(k - 1) = <<>> /\ G(k) = C(k)
      BY <2>1, <2>2
    <3>2. C(k) \in Seq(Cells)
      BY <1>2
    <3>3. <<>> \o C(k) = C(k)
      BY <3>2, ConcatEmptySeq
    <3> QED BY <2>1, <3>1, <3>3
  <2>3. CASE k # 1
    BY <2>1, <2>3
  <2> QED BY <2>2, <2>3
<1> HIDE DEF G
<1> DEFINE Here(k) == /\ Len(G(k)) = B(k)
                      /\ \A i \in 1 .. k : \A j \in 1 .. sizes[i] + 4 :
                           B(i - 1) + j \in 1 .. B(k) /\ G(k)[B(i - 1) + j] = C(i)[j]
           T == {k \in 0 .. L : Here(k)}
<1>9. 0 \in T
  <2>1. G(0) = <<>>
    BY DEF G
  <2>2. Len(G(0)) = B(0)
    BY <1>1, <2>1
  <2>3. 1 .. 0 = {} /\ 0 \in 0 .. L
    BY <1>1
  <2> QED BY <2>2, <2>3
<1>10. ASSUME NEW k \in 0 .. L - 1, k \in T PROVE k + 1 \in T
  <2> DEFINE len == k + 1
  <2>1. len \in 1 .. L /\ len \in 0 .. L /\ len - 1 = k /\ k \in 0 .. L /\ len \in Nat /\ k \in Nat
    BY <1>1
  <2> HIDE DEF len
  <2>2. /\ G(len) = G(k) \o C(len) /\ G(k) \in Seq(Cells) /\ C(len) \in Seq(Cells) /\ Len(C(len)) = sizes[len] + 4
        /\ Len(G(k)) = B(k) /\ B(k) \in Nat /\ B(len) = B(k) + sizes[len] + 4 /\ B(len) \in Nat
        /\ sizes[len] \in Nat
    BY <1>1, <1>2, <1>7, <1>8, <1>10, <2>1
  <2>3. /\ Len(G(len)) = B(len)
        /\ \A x \in 1 .. B(k) : G(len)[x] = G(k)[x]
        /\ \A j \in 1 .. sizes[len] + 4 : G(len)[B(k) + j] = C(len)[j]
    <3> DEFINE g == G(k)
               c == C(len)
    <3>1. g \in Seq(Cells) /\ c \in Seq(Cells)
      BY <2>2
    <3> HIDE DEF g, c
    <3>2. /\ Len(g \o c) = Len(g) + Len(c)
          /\ \A x \in 1 .. Len(g) : (g \o c)[x] = g[x]
          /\ \A j \in 1 .. Len(c) : (g \o c)[Len(g) + j] = c[j]
      BY ONLY <3>1, Joined
    <3>3. B(k) + (sizes[len] + 4) = B(len) /\ Len(g) = B(k) /\ Len(c) = sizes[len] + 4 /\ G(len) = g \o c
      BY <2>2 DEF g, c
    <3> QED BY <3>2, <3>3 DEF g, c
  <2>4. ASSUME NEW i \in 1 .. len, NEW j \in 1 .. sizes[i] + 4
        PROVE  B(i - 1) + j \in 1 .. B(len) /\ G(len)[B(i - 1) + j] = C(i)[j]
    <3>1. CASE i = len
      <4>1. B(i - 1) = B(k) /\ j \in 1 .. sizes[len] + 4
        BY <2>1, <3>1
      <4>2. G(len)[B(k) + j] = C(len)[j] /\ B(k) + j \in 1 .. B(len)
        <5>1. G(len)[B(k) + j] = C(len)[j]
          BY <2>3, <4>1
        <5>2. B(k) + j \in 1 .. B(len)
          <6>1. j \in Nat /\ 1 <= j /\ j <= sizes[len] + 4 /\ B(k) \in Nat /\ B(len) = B(k) + sizes[len] + 4
            BY <2>2, <4>1
          <6>2. sizes[len] \in Nat
            BY <2>2
          <6> DEFINE z == sizes[len]
                     y == B(k)
                     x == B(len)
          <6>3. j \in Nat /\ 1 <= j /\ j <= z + 4 /\ y \in Nat /\ x = y + z + 4 /\ z \in Nat
            BY <6>1, <6>2
          <6> HIDE DEF x, y, z
          <6>4. y + j \in 1 .. x
            BY <6>3
          <6> QED BY <6>4 DEF x, y
        <5> QED BY <5>1, <5>2
      <4> QED BY <3>1, <4>1, <4>2
    <3>2. CASE i # len
      <4>1. i \in 1 .. k
        BY <2>1, <3>2
      <4>2. B(i - 1) + j \in 1 .. B(k) /\ G(k)[B(i - 1) + j] = C(i)[j]
        BY <1>10, <4>1
      <4>3. \A x \in 1 .. B(k) : x \in 1 .. B(len)
        BY <2>2, SMTT(30)
      <4> QED BY <2>3, <4>2, <4>3
    <3> QED BY <3>1, <3>2
  <2>5. Here(len)
    BY <2>3, <2>4
  <2> HIDE DEF Here
  <2> QED BY <2>1, <2>5 DEF len
<1> HIDE DEF T
<1>11. 0 .. L \subseteq T
  BY <1>1, <1>9, <1>10, InductiveUpTo
<1>12. Here(L)
  <2>1. L \in T
    BY <1>1, <1>11
  <2> QED BY <2>1 DEF T
<1>13. FlattenSeq(chunks) \in Seq(Cells)
  BY <1>5
<1>14. Len(FlattenSeq(chunks)) = B(L)
  <2>1. Len(G(L)) = B(L)
    BY <1>12
  <2> QED BY ONLY <1>6, <2>1, Zenon
<1>15. ASSUME NEW i \in 1 .. L, NEW j \in 1 .. sizes[i] + 4
       PROVE  B(i - 1) + j \in 1 .. B(L) /\ FlattenSeq(chunks)[B(i - 1) + j] = C(i)[j]
  <2>1. B(i - 1) + j \in 1 .. B(L) /\ G(L)[B(i - 1) + j] = C(i)[j]
    BY <1>12, Zenon
  <2> QED BY ONLY <1>6, <2>1, Zenon
<1> QED BY <1>13, <1>14, <1>15, Zenon DEF L, B, C

\* What is known of an answer
LEMMA AnswerIs ==
  ASSUME NEW a \in Answers
  PROVE  /\ a.frame \in {"close", "length", "chunked"} /\ a.status \in {200, 404}
         /\ a.sizes \in Seq(Nat \ {0}) /\ Len(a.sizes) \in Nat /\ Length(a) \in Nat
<1>1. a.frame \in {"close", "length", "chunked"} /\ a.status \in {200, 404} /\ a.sizes \in Sizes
  BY DEF Answers
<1>2. a.sizes \in Seq(Nat \ {0})
  BY <1>1, HttpAssumption
<1>3. Len(a.sizes) \in Nat
  BY <1>2, LenProperties
<1>4. Length(a) \in Nat
  BY <1>2, <1>3, TotalIs DEF Length
<1> QED BY <1>1, <1>2, <1>3, <1>4

\* What stands behind the header
After(a) ==
  IF a.frame = "chunked"
  THEN FlattenSeq([i \in DOMAIN a.sizes |-> Chunk(a.sizes, i)]) \o HttpLine("size", 0)
  ELSE Body(a)

\* The only line of a header but its end
Field(a) == IF a.frame = "length" THEN Cell("content-length", Length(a)) ELSE Cell("chunked", 0)

\* The body follows the header, in chunks or not.
LEMMA AfterType ==
  ASSUME NEW a \in Answers
  PROVE  After(a) \in Seq(Cells) /\ Len(After(a)) \in Nat
<1>1. CASE a.frame = "chunked"
  <2> DEFINE chunks == [i \in DOMAIN a.sizes |-> Chunk(a.sizes, i)]
             x == FlattenSeq(chunks)
             y == HttpLine("size", 0)
  <2>1. x \in Seq(Cells) /\ y \in Seq(Cells)
    <3>1. x \in Seq(Cells)
      BY AnswerIs, FlatIs
    <3> QED BY <3>1, LineIs
  <2>2. After(a) = x \o y
    BY <1>1 DEF After
  <2> HIDE DEF x, y
  <2>3. x \o y \in Seq(Cells)
    BY ONLY <2>1, ConcatProperties
  <2> QED BY <2>2, <2>3, LenProperties
<1>2. CASE a.frame # "chunked"
  <2>1. Body(a) \in Seq(Cells)
    BY AnswerIs, BytesIs DEF Body
  <2> QED BY <1>2, <2>1, LenProperties DEF After
<1> QED BY <1>1, <1>2

\* The stream: the status, the field if there is one, an empty line and what is behind it.
LEMMA StreamIs ==
  ASSUME NEW a \in Answers
  PROVE  LET s == Stream(a)
             h == HeaderLength(a)
         IN  /\ s \in Seq(Cells) /\ Len(s) = h + Len(After(a)) /\ h \in {3, 5} /\ (h = 3 <=> a.frame = "close")
             /\ s[1] = Cell("status", a.status) /\ s[2] = NL /\ s[h] = NL
             /\ h = 5 => s[3] = Field(a) /\ s[4] = NL
             /\ \A j \in 1 .. Len(After(a)) : s[h + j] = After(a)[j]
<1> DEFINE x == HttpLine("status", a.status)
           n == <<NL>>
           z == After(a)
           L == Len(z)
<1>1. x \in Seq(Cells) /\ Len(x) = 2 /\ x[1] = Cell("status", a.status) /\ x[2] = NL
  <2>1. a.status \in Nat
    BY AnswerIs
  <2> QED BY <2>1, LineIs
<1>2. n \in Seq(Cells) /\ Len(n) = 1 /\ n[1] = NL
  BY CellIs
<1>3. z \in Seq(Cells) /\ L \in Nat
  BY AfterType
<1>4. CASE a.frame = "close"
  <2>1. Stream(a) = x \o (n \o z) /\ HeaderLength(a) = 3
    BY <1>4 DEF Stream, After, HeaderLength
  <2> HIDE DEF x, n, z, L
  <2> DEFINE q == n \o z
  <2>2. /\ q \in Seq(Cells) /\ Len(q) = Len(n) + Len(z)
        /\ \A j \in 1 .. Len(n) : q[j] = n[j]
        /\ \A j \in 1 .. Len(z) : q[Len(n) + j] = z[j]
    <3>1. n \in Seq(Cells) /\ z \in Seq(Cells)
      BY <1>2, <1>3
    <3> QED BY ONLY <3>1, Joined
  <2> HIDE DEF q
  <2> DEFINE s == x \o q
  <2>3. /\ s \in Seq(Cells) /\ Len(s) = Len(x) + Len(q)
        /\ \A j \in 1 .. Len(x) : s[j] = x[j]
        /\ \A j \in 1 .. Len(q) : s[Len(x) + j] = q[j]
    <3>1. x \in Seq(Cells) /\ q \in Seq(Cells)
      BY <1>1, <2>2
    <3> QED BY ONLY <3>1, Joined
  <2> HIDE DEF s
  <2>4. Len(q) = 1 + L /\ Len(s) = 3 + L
    BY <1>1, <1>2, <1>3, <2>2, <2>3 DEF L
  <2>5. s[1] = x[1] /\ s[2] = x[2] /\ s[3] = n[1]
    <3>1. 1 \in 1 .. 2 /\ 2 \in 1 .. 2 /\ 1 \in 1 .. Len(q) /\ 2 + 1 = 3 /\ 1 \in 1 .. 1
      BY <1>3, <2>4
    <3> QED BY <1>1, <1>2, <2>2, <2>3, <3>1
  <2>6. ASSUME NEW j \in 1 .. L PROVE s[3 + j] = z[j]
    <3>1. 1 + j \in 1 .. Len(q) /\ 2 + (1 + j) = 3 + j
      BY <1>3, <2>4
    <3>2. q[1 + j] = z[j]
      BY <1>2, <2>2 DEF L
    <3>3. s[2 + (1 + j)] = q[1 + j]
      BY <1>1, <2>3, <3>1
    <3> QED BY <3>1, <3>2, <3>3
  <2>7. Stream(a) = s
    BY <2>1 DEF s, q
  <2> QED BY <1>1, <1>2, <1>4, <2>1, <2>3, <2>4, <2>5, <2>6, <2>7 DEF L, z
<1>5. CASE a.frame # "close"
  <2> DEFINE t == IF a.frame = "length" THEN "content-length" ELSE "chunked"
             v == IF a.frame = "length" THEN Length(a) ELSE 0
             y == HttpLine(t, v)
  <2>1. y \in Seq(Cells) /\ Len(y) = 2 /\ y[1] = Field(a) /\ y[2] = NL
    <3>1. t \in {"status", "content-length", "chunked", "size"} /\ v \in Nat /\ Field(a) = Cell(t, v)
      BY AnswerIs DEF Field
    <3> HIDE DEF t, v
    <3> QED BY <3>1, LineIs
  <2>2. Stream(a) = x \o ((y \o n) \o z) /\ HeaderLength(a) = 5
    <3>1. CASE a.frame = "length"
      BY <3>1 DEF Stream, After, HeaderLength
    <3>2. CASE a.frame = "chunked"
      <4> DEFINE f == FlattenSeq([i \in DOMAIN a.sizes |-> Chunk(a.sizes, i)])
                 e == HttpLine("size", 0)
      <4>1. Stream(a) = x \o (((y \o n) \o f) \o e) /\ z = f \o e /\ HeaderLength(a) = 5
        BY <3>2 DEF Stream, After, HeaderLength
      <4>2. y \o n \in Seq(Cells) /\ f \in Seq(Cells) /\ e \in Seq(Cells)
        <5>1. f \in Seq(Cells)
          BY AnswerIs, FlatIs
        <5>2. e \in Seq(Cells)
          BY LineIs
        <5>3. y \in Seq(Cells) /\ n \in Seq(Cells)
          BY <1>2, <2>1
        <5> HIDE DEF y, n, f, e
        <5>4. y \o n \in Seq(Cells)
          BY ONLY <5>3, ConcatProperties
        <5> QED BY <5>1, <5>2, <5>4
      <4> HIDE DEF x, y, n, z, f, e
      <4>3. ((y \o n) \o f) \o e = (y \o n) \o (f \o e)
        <5> DEFINE w == y \o n
        <5>1. w \in Seq(Cells) /\ f \in Seq(Cells) /\ e \in Seq(Cells)
          BY <4>2
        <5> HIDE DEF w
        <5>2. (w \o f) \o e = w \o (f \o e)
          BY ONLY <5>1, ConcatAssociative
        <5> QED BY <5>2 DEF w
      <4> QED BY <4>1, <4>3
    <3> QED BY <1>5, <3>1, <3>2, AnswerIs
  <2> HIDE DEF x, y, n, z, L
  <2> DEFINE w == y \o n
  <2>3. /\ w \in Seq(Cells) /\ Len(w) = Len(y) + Len(n)
        /\ \A j \in 1 .. Len(y) : w[j] = y[j]
        /\ \A j \in 1 .. Len(n) : w[Len(y) + j] = n[j]
    <3>1. y \in Seq(Cells) /\ n \in Seq(Cells)
      BY <1>2, <2>1
    <3> QED BY ONLY <3>1, Joined
  <2> HIDE DEF w
  <2>4. Len(w) = 3 /\ w[1] = y[1] /\ w[2] = y[2] /\ w[3] = n[1]
    <3>1. 1 \in 1 .. 2 /\ 2 \in 1 .. 2 /\ 1 \in 1 .. 1 /\ 2 + 1 = 3
      OBVIOUS
    <3> QED BY <1>2, <2>1, <2>3, <3>1
  <2> DEFINE q == w \o z
  <2>5. /\ q \in Seq(Cells) /\ Len(q) = Len(w) + Len(z)
        /\ \A j \in 1 .. Len(w) : q[j] = w[j]
        /\ \A j \in 1 .. Len(z) : q[Len(w) + j] = z[j]
    <3>1. w \in Seq(Cells) /\ z \in Seq(Cells)
      BY <1>3, <2>3
    <3> QED BY ONLY <3>1, Joined
  <2> HIDE DEF q
  <2>6. /\ Len(q) = 3 + L /\ q[1] = w[1] /\ q[2] = w[2] /\ q[3] = w[3]
        /\ \A j \in 1 .. L : q[3 + j] = z[j]
    <3>1. 1 \in 1 .. 3 /\ 2 \in 1 .. 3 /\ 3 \in 1 .. 3
      OBVIOUS
    <3> QED BY <2>4, <2>5, <3>1 DEF L
  <2> DEFINE s == x \o q
  <2>7. /\ s \in Seq(Cells) /\ Len(s) = Len(x) + Len(q)
        /\ \A j \in 1 .. Len(x) : s[j] = x[j]
        /\ \A j \in 1 .. Len(q) : s[Len(x) + j] = q[j]
    <3>1. x \in Seq(Cells) /\ q \in Seq(Cells)
      BY <1>1, <2>5
    <3> QED BY ONLY <3>1, Joined
  <2> HIDE DEF s
  <2>8. /\ Len(s) = 5 + L /\ s[1] = x[1] /\ s[2] = x[2] /\ s[3] = q[1] /\ s[4] = q[2] /\ s[5] = q[3]
    <3>1. /\ 1 \in 1 .. 2 /\ 2 \in 1 .. 2 /\ 1 \in 1 .. 3 + L /\ 2 \in 1 .. 3 + L /\ 3 \in 1 .. 3 + L
          /\ 2 + 1 = 3 /\ 2 + 2 = 4 /\ 2 + 3 = 5 /\ 2 + (3 + L) = 5 + L
      BY <1>3
    <3> QED BY <1>1, <2>6, <2>7, <3>1
  <2>9. ASSUME NEW j \in 1 .. L PROVE s[5 + j] = z[j]
    <3>1. 3 + j \in 1 .. 3 + L /\ 2 + (3 + j) = 5 + j
      BY <1>3
    <3>2. s[2 + (3 + j)] = q[3 + j]
      BY <1>1, <2>6, <2>7, <3>1
    <3> QED BY <2>6, <3>1, <3>2
  <2>10. Stream(a) = s
    BY <2>2 DEF s, q, w
  <2> QED BY <1>1, <1>2, <1>5, <2>1, <2>2, <2>4, <2>6, <2>7, <2>8, <2>9, <2>10 DEF L, z
<1> QED BY <1>4, <1>5

\* A body is empty when it has no chunks.
LEMMA LengthIs ==
  ASSUME NEW a \in Answers
  PROVE  Length(a) = 0 <=> a.sizes = <<>>
<1>1. a.sizes \in Seq(Nat \ {0}) /\ Len(a.sizes) \in Nat
  BY AnswerIs
<1>2. CASE a.sizes = <<>>
  <2>1. Len(a.sizes) = 0
    BY <1>2
  <2> QED BY <1>1, <1>2, <2>1, TotalIs DEF Length
<1>3. CASE a.sizes # <<>>
  <2> DEFINE n == Len(a.sizes)
  <2>1. n \in 1 .. n /\ n - 1 \in 0 .. n
    BY <1>1, <1>3, EmptySeq
  <2>2. /\ Total(a.sizes, n) = Total(a.sizes, n - 1) + a.sizes[n]
        /\ a.sizes[n] \in Nat \ {0} /\ Total(a.sizes, n - 1) \in Nat
    BY <1>1, <2>1, TotalIs
  <2> QED BY <1>3, <2>2 DEF Length
<1> QED BY <1>2, <1>3

\* Where chunk k of an answer ends
End(a, k) == 5 + ChunksEnd(a.sizes, k)

\* The stream of an answer in chunks: from chunk to chunk
LEMMA ChunksAre ==
  ASSUME NEW a \in Answers, a.frame = "chunked"
  PROVE  LET s == Stream(a)
             n == Len(a.sizes)
         IN  /\ End(a, 0) = 5 /\ Len(s) = End(a, n) + 2 /\ n \in Nat
             /\ s[End(a, n) + 1] = Cell("size", 0) /\ s[End(a, n) + 2] = NL
             /\ \A k \in 0 .. n : End(a, k) \in Nat
             /\ \A k \in 1 .. n :
                  LET o == End(a, k - 1) IN
                  /\ a.sizes[k] \in Nat \ {0} /\ o \in Nat
                  /\ End(a, k) = o + a.sizes[k] + 4
                  /\ s[o + 1] = Cell("size", a.sizes[k]) /\ s[o + 2] = NL
                  /\ \A j \in 1 .. a.sizes[k] : s[(o + 2) + j] = Cell("byte", Total(a.sizes, k - 1) + j)
<1> DEFINE sizes == a.sizes
           n == Len(sizes)
           B(k) == ChunksEnd(sizes, k)
           chunks == [i \in DOMAIN a.sizes |-> Chunk(a.sizes, i)]
           x == FlattenSeq(chunks)
           y == HttpLine("size", 0)
           z == After(a)
           s == Stream(a)
<1>1. sizes \in Seq(Nat \ {0}) /\ n \in Nat
  BY AnswerIs
<1>2. /\ B(0) = 0 /\ \A k \in 0 .. n : B(k) \in Nat
      /\ \A k \in 1 .. n : B(k) = B(k - 1) + sizes[k] + 4
  BY <1>1, ChunksEndIs
<1>3. \A k \in 1 .. n : sizes[k] \in Nat \ {0}
  BY <1>1, TotalIs
<1>4. /\ x \in Seq(Cells) /\ Len(x) = B(n)
      /\ \A i \in 1 .. n : \A j \in 1 .. sizes[i] + 4 :
           B(i - 1) + j \in 1 .. B(n) /\ x[B(i - 1) + j] = Chunk(sizes, i)[j]
  BY <1>1, FlatIs
<1>5. y \in Seq(Cells) /\ Len(y) = 2 /\ y[1] = Cell("size", 0) /\ y[2] = NL
  BY LineIs
<1>6. z = x \o y
  BY DEF After
<1>7. /\ Len(s) = 5 + Len(z) /\ \A j \in 1 .. Len(z) : s[5 + j] = z[j]
  BY StreamIs
<1>8. \A i \in 1 .. n :
         /\ Chunk(sizes, i)[1] = Cell("size", sizes[i]) /\ Chunk(sizes, i)[2] = NL
         /\ \A j \in 1 .. sizes[i] : Chunk(sizes, i)[j + 2] = Cell("byte", Total(sizes, i - 1) + j)
  BY <1>1, ChunkIs
<1> HIDE DEF x, y, z, s, B, n
<1>9. /\ Len(z) = Len(x) + Len(y)
      /\ \A j \in 1 .. Len(x) : z[j] = x[j]
      /\ \A j \in 1 .. Len(y) : z[Len(x) + j] = y[j]
  <2>1. x \in Seq(Cells) /\ y \in Seq(Cells)
    BY <1>4, <1>5
  <2>2. /\ Len(x \o y) = Len(x) + Len(y)
        /\ \A j \in 1 .. Len(x) : (x \o y)[j] = x[j]
        /\ \A j \in 1 .. Len(y) : (x \o y)[Len(x) + j] = y[j]
    BY ONLY <2>1, Joined
  <2> QED BY <1>6, <2>2
<1>10. B(n) \in Nat /\ Len(z) = B(n) + 2 /\ Len(s) = (5 + B(n)) + 2
  <2>1. n \in 0 .. n
    BY <1>1
  <2>2. B(n) \in Nat
    BY <1>2, <2>1
  <2> QED BY <1>4, <1>5, <1>7, <1>9, <2>2
<1>11. s[(5 + B(n)) + 1] = Cell("size", 0) /\ s[(5 + B(n)) + 2] = NL
  <2>1. z[B(n) + 1] = y[1] /\ z[B(n) + 2] = y[2]
    <3>1. 1 \in 1 .. 2 /\ 2 \in 1 .. 2
      OBVIOUS
    <3> QED BY <1>4, <1>5, <1>9, <3>1
  <2>2. /\ B(n) + 1 \in 1 .. Len(z) /\ B(n) + 2 \in 1 .. Len(z)
        /\ 5 + (B(n) + 1) = (5 + B(n)) + 1 /\ 5 + (B(n) + 2) = (5 + B(n)) + 2
    BY <1>10
  <2>3. s[5 + (B(n) + 1)] = z[B(n) + 1] /\ s[5 + (B(n) + 2)] = z[B(n) + 2]
    BY <1>7, <2>2
  <2> QED BY <1>5, <2>1, <2>2, <2>3
<1>12. ASSUME NEW k \in 1 .. n, NEW j \in 1 .. sizes[k] + 4
       PROVE  s[(5 + B(k - 1)) + j] = Chunk(sizes, k)[j]
  <2>1. B(k - 1) + j \in 1 .. B(n) /\ x[B(k - 1) + j] = Chunk(sizes, k)[j]
    BY <1>4
  <2>2. z[B(k - 1) + j] = x[B(k - 1) + j]
    BY <1>4, <1>9, <2>1
  <2>3. B(k - 1) \in Nat /\ sizes[k] \in Nat
    <3>1. k - 1 \in 0 .. n
      BY <1>1
    <3> QED BY <1>2, <1>3, <3>1
  <2>4. j \in Nat
    BY <2>3
  <2>5. 5 + (B(k - 1) + j) = (5 + B(k - 1)) + j
    BY <2>3, <2>4
  <2>6. B(k - 1) + j \in 1 .. Len(z)
    BY <1>10, <2>1
  <2>7. s[5 + (B(k - 1) + j)] = z[B(k - 1) + j]
    BY <1>7, <2>6
  <2> QED BY <2>1, <2>2, <2>5, <2>7
<1>13. ASSUME NEW k \in 1 .. n
       PROVE  LET o == 5 + B(k - 1) IN
              /\ sizes[k] \in Nat \ {0} /\ o \in Nat
              /\ 5 + B(k) = o + sizes[k] + 4
              /\ s[o + 1] = Cell("size", sizes[k]) /\ s[o + 2] = NL
              /\ \A j \in 1 .. sizes[k] : s[(o + 2) + j] = Cell("byte", Total(sizes, k - 1) + j)
  <2> DEFINE o == 5 + B(k - 1)
             c == sizes[k]
  <2>1. c \in Nat \ {0} /\ B(k - 1) \in Nat
    <3>1. k - 1 \in 0 .. n
      BY <1>1
    <3> QED BY <1>2, <1>3, <3>1
  <2>2. o \in Nat
    BY <2>1
  <2>3. 5 + B(k) = o + c + 4
    <3>1. B(k) = B(k - 1) + c + 4
      BY <1>2
    <3> HIDE DEF c
    <3> QED BY <2>1, <3>1
  <2>4. \A j \in 1 .. c + 4 : s[o + j] = Chunk(sizes, k)[j]
    BY <1>12
  <2>5. \A j \in 1 .. c : Chunk(sizes, k)[j + 2] = Cell("byte", Total(sizes, k - 1) + j)
    BY <1>8
  <2> HIDE DEF o, c
  <2>6. 1 \in 1 .. c + 4 /\ 2 \in 1 .. c + 4
    BY <2>1
  <2>7. s[o + 1] = Cell("size", c) /\ s[o + 2] = NL
    BY <1>8, <2>4, <2>6 DEF c
  <2>8. ASSUME NEW j \in 1 .. c PROVE s[(o + 2) + j] = Cell("byte", Total(sizes, k - 1) + j)
    <3>1. j + 2 \in 1 .. c + 4 /\ o + (j + 2) = (o + 2) + j
      BY <2>1, <2>2
    <3>2. s[o + (j + 2)] = Chunk(sizes, k)[j + 2]
      BY <2>4, <3>1
    <3> QED BY <2>5, <3>1, <3>2
  <2> QED BY <2>1, <2>2, <2>3, <2>7, <2>8 DEF o, c
<1>14. \A k \in 0 .. n : 5 + B(k) \in Nat
  BY <1>2
<1> QED BY <1>1, <1>2, <1>10, <1>11, <1>13, <1>14 DEF End, B, n, s

-----------------------------------------------------------------------------
\* What http_parse may keep
Requests ==
  [state : {"none", "err", "done"}, status : Nat, header : BOOLEAN, fields : SUBSET Cells,
   chunked : BOOLEAN, length : Nat, chunk : Nat, body : Seq(Cells), buf : Seq(Cells)]

\* The first line end in recvbuf, or none
LEMMA EolIs ==
  ASSUME NEW r \in Requests
  PROVE  /\ FirstEol(r) \in 0 .. Len(r.buf) /\ Len(r.buf) \in Nat
         /\ FirstEol(r) = 0 => \A j \in 1 .. Len(r.buf) : r.buf[j].t # "nl"
         /\ FirstEol(r) # 0 => /\ r.buf[FirstEol(r)].t = "nl"
                               /\ \A j \in 1 .. FirstEol(r) - 1 : r.buf[j].t # "nl"
<1> DEFINE I == {i \in 1 .. Len(r.buf) : r.buf[i].t = "nl"}
<1>1. Len(r.buf) \in Nat
  BY LenProperties DEF Requests
<1>2. FirstEol(r) = IF I # {} THEN Min(I) ELSE 0
  BY DEF FirstEol, SelectInSeq
<1>3. CASE I = {}
  <2>1. FirstEol(r) = 0
    BY <1>2, <1>3
  <2> QED BY <1>1, <1>3, <2>1
<1>4. CASE I # {}
  <2>1. I \subseteq Nat
    BY <1>1
  <2>2. Min(I) \in I /\ \A j \in I : Min(I) <= j
    <3> HIDE DEF I
    <3> QED BY <1>4, <2>1, MinIs
  <2>3. FirstEol(r) = Min(I)
    BY <1>2, <1>4
  <2>4. \A j \in 1 .. Min(I) - 1 : j \in 1 .. Len(r.buf) /\ ~ (Min(I) <= j)
    BY <1>1, <2>2
  <2>5. \A j \in 1 .. Min(I) - 1 : r.buf[j].t # "nl"
    BY <2>2, <2>4
  <2> QED BY <1>1, <2>2, <2>3, <2>5
<1> QED BY <1>3, <1>4

\* What is left of a sequence without its first n elements, and these
LEMMA RestIs ==
  ASSUME NEW S, NEW s \in Seq(S), NEW n \in 0 .. Len(s)
  PROVE  /\ SubSeq(s, n + 1, Len(s)) \in Seq(S)
         /\ Len(SubSeq(s, n + 1, Len(s))) = Len(s) - n
         /\ \A j \in 1 .. Len(s) - n : SubSeq(s, n + 1, Len(s))[j] = s[n + j]
         /\ SubSeq(s, 1, n) \in Seq(S)
         /\ Len(SubSeq(s, 1, n)) = n
         /\ \A j \in 1 .. n : SubSeq(s, 1, n)[j] = s[j]
<1> DEFINE len == Len(s)
           d == n + 1
<1>1. len \in Nat /\ n \in Nat /\ n <= len /\ d = n + 1
  BY LenProperties
<1>2. \A x \in 1 .. len : s[x] \in S
  BY ElementOfSeq
<1> HIDE DEF len, d
<1>3. \A x \in d .. len : s[x] \in S
  BY <1>1, <1>2
<1>4. /\ SubSeq(s, d, len) \in Seq(S)
      /\ Len(SubSeq(s, d, len)) = IF d <= len THEN len - d + 1 ELSE 0
      /\ \A i \in 1 .. len - d + 1 : SubSeq(s, d, len)[i] = s[d + i - 1]
  <2>1. d \in Int /\ len \in Int
    BY <1>1
  <2> QED BY ONLY <1>3, <2>1, SubSeqProperties
<1>5. /\ SubSeq(s, 1, n) \in Seq(S)
      /\ Len(SubSeq(s, 1, n)) = IF 1 <= n THEN n - 1 + 1 ELSE 0
      /\ \A i \in 1 .. n - 1 + 1 : SubSeq(s, 1, n)[i] = s[1 + i - 1]
  <2>1. 1 \in Int /\ n \in Int /\ \A x \in 1 .. n : s[x] \in S
    BY <1>1, <1>2
  <2> QED BY ONLY <2>1, SubSeqProperties
<1>6. /\ (IF d <= len THEN len - d + 1 ELSE 0) = len - n /\ len - d + 1 = len - n
      /\ (IF 1 <= n THEN n - 1 + 1 ELSE 0) = n /\ n - 1 + 1 = n
      /\ \A i \in 1 .. n : 1 + i - 1 = i
      /\ \A i \in 1 .. len - n : d + i - 1 = n + i
  BY <1>1
<1>7. /\ \A i \in 1 .. len - n : SubSeq(s, d, len)[i] = s[n + i]
      /\ \A i \in 1 .. n : SubSeq(s, 1, n)[i] = s[i]
  BY <1>4, <1>5, <1>6
<1>8. Len(SubSeq(s, d, len)) = len - n /\ Len(SubSeq(s, 1, n)) = n
  BY <1>4, <1>5, <1>6
<1> QED BY <1>4, <1>5, <1>7, <1>8 DEF d, len

\* b is c without its first n cells.
Rest(c, n, b) ==
  n \in 0 .. Len(c) /\ b \in Seq(Cells) /\ Len(b) = Len(c) - n /\ \A j \in 1 .. Len(b) : b[j] = c[n + j]

\* Taking cells out of a recvbuf that is not full leaves those behind them.
LEMMA TakenIs ==
  ASSUME NEW r \in Requests, Len(r.buf) < Size, NEW n \in 0 .. Len(r.buf)
  PROVE  \E b : Taken(r, n) = [r EXCEPT !.buf = b] /\ Rest(r.buf, n, b)
<1>1. Len(r.buf) \in Nat /\ r.buf \in Seq(Cells) /\ Size \in Nat
  BY LenProperties, HttpAssumption DEF Requests
<1> DEFINE b == IF Len(r.buf) = Size \/ n >= Len(r.buf) THEN <<>> ELSE SubSeq(r.buf, n + 1, Len(r.buf))
<1>2. Taken(r, n) = [r EXCEPT !.buf = b]
  BY DEF Taken
<1>3. b \in Seq(Cells) /\ Len(b) = Len(r.buf) - n /\ \A j \in 1 .. Len(b) : b[j] = r.buf[n + j]
  <2>1. CASE n = Len(r.buf)
    <3>1. b = <<>>
      BY <1>1, <2>1
    <3>2. Len(<<>>) = 0 /\ <<>> \in Seq(Cells)
      BY EmptySeq
    <3> QED BY <1>1, <2>1, <3>1, <3>2
  <2>2. CASE n # Len(r.buf)
    <3>1. b = SubSeq(r.buf, n + 1, Len(r.buf))
      BY <1>1, <2>2
    <3>2. /\ SubSeq(r.buf, n + 1, Len(r.buf)) \in Seq(Cells)
          /\ Len(SubSeq(r.buf, n + 1, Len(r.buf))) = Len(r.buf) - n
          /\ \A j \in 1 .. Len(r.buf) - n : SubSeq(r.buf, n + 1, Len(r.buf))[j] = r.buf[n + j]
      BY <1>1, RestIs
    <3> HIDE DEF b
    <3> QED BY <3>1, <3>2
  <2> QED BY <2>1, <2>2
<1> HIDE DEF b
<1> QED BY <1>2, <1>3 DEF Rest

\* b is what stands in the stream up to cell e.
UpTo(a, e, b) ==
  /\ e \in Nat /\ e <= Len(Stream(a)) /\ b \in Seq(Cells) /\ Len(b) <= e /\ Len(b) < Size
  /\ \A j \in 1 .. Len(b) : b[j] = Stream(a)[(e - Len(b)) + j]

\* What http_parse knows when it has taken p cells that all belong to the header
InHeader(a, p, r) ==
  /\ r.state = "none" /\ ~r.header /\ ~r.chunked /\ r.length = 0 /\ r.chunk = 0 /\ r.body = <<>>
  /\ \/ p = 0 /\ r.status = 0 /\ r.fields = {}
     \/ p = 2 /\ r.status = a.status /\ r.fields = {}
     \/ p = 4 /\ r.status = a.status /\ r.fields = {Field(a)} /\ a.frame # "close"

\* ... when it is in a body that does not come in chunks
InPlainBody(a, p, r) ==
  /\ a.frame # "chunked" /\ ~r.chunked /\ r.chunk = 0
  /\ r.length = IF a.frame = "length" THEN Length(a) ELSE 0
  /\ \/ p = HeaderLength(a) /\ r.state = "none" /\ r.body = <<>>
     \/ p = Len(Stream(a)) /\ r.state = "done" /\ r.body = Body(a) /\ a.frame = "length" /\ r.length > 0

\* ... and when it is in one that does: between chunks, behind a size, or at the end
InChunks(a, p, r) ==
  /\ a.frame = "chunked" /\ r.chunked /\ r.length = 0
  /\ \/ /\ r.state = "none" /\ r.chunk = 0
        /\ \E k \in 0 .. Len(a.sizes) : p = End(a, k) /\ r.body = Bytes(0, Total(a.sizes, k))
     \/ /\ r.state = "none"
        /\ \E k \in 1 .. Len(a.sizes) : /\ p = End(a, k - 1) + 2 /\ r.chunk = a.sizes[k]
                                        /\ r.body = Bytes(0, Total(a.sizes, k - 1))
     \/ r.state = "done" /\ r.chunk = 0 /\ p = Len(Stream(a)) /\ r.body = Body(a)

InBody(a, p, r) == r.header /\ r.status = a.status /\ (InPlainBody(a, p, r) \/ InChunks(a, p, r))

\* r is what http_parse keeps when the first e cells of the answer a have come.
Reads(a, e, r) ==
  /\ r \in Requests /\ UpTo(a, e, r.buf)
  /\ InHeader(a, e - Len(r.buf), r) \/ InBody(a, e - Len(r.buf), r)

\* What is left when cells are taken is still the stream up to cell e.
LEMMA UpToRest ==
  ASSUME NEW a, NEW e, NEW c, NEW n, NEW b, UpTo(a, e, c), Rest(c, n, b)
  PROVE  UpTo(a, e, b) /\ e - Len(b) = (e - Len(c)) + n
<1> DEFINE len == Len(c)
           l == Len(b)
           s == Stream(a)
<1>1. /\ len \in Nat /\ n \in Nat /\ l = len - n /\ e \in Nat /\ len <= e /\ len < Size /\ Size \in Nat
      /\ n <= len /\ l \in Nat
      /\ e <= Len(s)
  <2>1. c \in Seq(Cells)
    BY DEF UpTo
  <2>2. len \in Nat
    BY <2>1, LenProperties
  <2> QED BY <2>2, HttpAssumption DEF UpTo, Rest
<1>2. /\ \A j \in 1 .. len : c[j] = s[(e - len) + j]
      /\ \A j \in 1 .. l : b[j] = c[n + j]
  BY DEF UpTo, Rest
<1> HIDE DEF len, l, s
<1>3. e - l = (e - len) + n /\ l <= e /\ l < Size
  BY <1>1
<1>4. ASSUME NEW j \in 1 .. l PROVE b[j] = s[(e - l) + j]
  <2>1. n + j \in 1 .. len /\ (e - len) + (n + j) = (e - l) + j
    BY <1>1
  <2>2. b[j] = c[n + j] /\ c[n + j] = s[(e - len) + (n + j)]
    BY <1>2, <2>1
  <2> QED BY <2>1, <2>2
<1>5. b \in Seq(Cells)
  BY DEF Rest
<1> QED BY <1>1, <1>3, <1>4, <1>5 DEF UpTo, len, l, s

\* b is the recvbuf of x when n cells have been taken out.
Leaves(a, e, x, n, b) ==
  /\ Taken(x, n) = [x EXCEPT !.buf = b] /\ Rest(x.buf, n, b)
  /\ UpTo(a, e, b) /\ e - Len(b) = (e - Len(x.buf)) + n

\* The same for cells that are taken out of recvbuf
LEMMA TakenUpTo ==
  ASSUME NEW a, NEW e, NEW x, x \in Requests, UpTo(a, e, x.buf), NEW n, n \in 0 .. Len(x.buf)
  PROVE  \E b : Leaves(a, e, x, n, b)
<1>1. Len(x.buf) < Size
  BY DEF UpTo
<1>2. PICK b : Taken(x, n) = [x EXCEPT !.buf = b] /\ Rest(x.buf, n, b)
  BY <1>1, TakenIs
<1>3. UpTo(a, e, b) /\ e - Len(b) = (e - Len(x.buf)) + n
  BY <1>2, UpToRest
<1> QED BY <1>2, <1>3 DEF Leaves

\* A line of two cells is at the head of recvbuf: its end is found when it has come.
LEMMA LineFound ==
  ASSUME NEW a \in Answers, NEW e, NEW r \in Requests, UpTo(a, e, r.buf),
         NEW p, p = e - Len(r.buf), Stream(a)[p + 1].t # "nl", Stream(a)[p + 2] = NL
  PROVE  /\ Len(r.buf) \in Nat /\ p \in Nat /\ e = p + Len(r.buf)
         /\ FirstEol(r) = 0 => Len(r.buf) < 2
         /\ FirstEol(r) # 0 => FirstEol(r) = 2 /\ Len(r.buf) >= 2 /\ r.buf[1] = Stream(a)[p + 1]
<1> DEFINE len == Len(r.buf)
           b == r.buf
           s == Stream(a)
           f == FirstEol(r)
<1>1. /\ f \in 0 .. len /\ len \in Nat
      /\ f = 0 => \A j \in 1 .. len : b[j].t # "nl"
      /\ f # 0 => b[f].t = "nl" /\ \A j \in 1 .. f - 1 : b[j].t # "nl"
  BY EolIs
<1>2. p \in Nat /\ p = e - len /\ e \in Nat /\ e = p + len
  BY <1>1 DEF UpTo
<1>3. \A j \in 1 .. len : b[j] = s[p + j]
  BY DEF UpTo
<1>4. s[p + 1].t # "nl" /\ s[p + 2].t = "nl"
  BY CellIs
<1> HIDE DEF len, b, s, f
<1>5. len >= 1 => b[1].t # "nl" /\ b[1] = s[p + 1]
  <2>1. len >= 1 => 1 \in 1 .. len
    BY <1>1
  <2> QED BY <1>3, <1>4, <2>1
<1>6. len >= 2 => b[2].t = "nl"
  <2>1. len >= 2 => 2 \in 1 .. len
    BY <1>1
  <2> QED BY <1>3, <1>4, <2>1
<1>7. f = 0 => len < 2
  <2>1. ASSUME f = 0, len >= 2 PROVE FALSE
    <3>1. 2 \in 1 .. len
      BY <1>1, <2>1
    <3> QED BY <1>1, <1>6, <2>1, <3>1
  <2> QED BY <1>1, <2>1
<1>8. ASSUME f # 0 PROVE f = 2 /\ len >= 2 /\ b[1] = s[p + 1]
  <2>1. f # 1 /\ len >= 1
    <3>1. f = 1 => len >= 1
      BY <1>1
    <3> QED BY <1>1, <1>5, <1>8, <3>1
  <2>2. f >= 2 /\ len >= 2
    BY <1>1, <1>8, <2>1
  <2>3. ~ (f > 2)
    <3>1. f > 2 => 2 \in 1 .. f - 1
      BY <1>1
    <3> QED BY <1>1, <1>6, <1>8, <2>2, <3>1
  <2> QED BY <1>1, <1>5, <2>2, <2>3
<1> QED BY <1>1, <1>2, <1>7, <1>8 DEF len, b, s, f

\* An empty line is at the head of recvbuf.
LEMMA BlankFound ==
  ASSUME NEW a \in Answers, NEW e, NEW r \in Requests, UpTo(a, e, r.buf),
         NEW p, p = e - Len(r.buf), Stream(a)[p + 1] = NL
  PROVE  /\ Len(r.buf) \in Nat /\ p \in Nat /\ e = p + Len(r.buf)
         /\ FirstEol(r) = 0 => Len(r.buf) = 0
         /\ FirstEol(r) # 0 => FirstEol(r) = 1 /\ Len(r.buf) >= 1
<1> DEFINE len == Len(r.buf)
           b == r.buf
           s == Stream(a)
           f == FirstEol(r)
<1>1. /\ f \in 0 .. len /\ len \in Nat
      /\ f = 0 => \A j \in 1 .. len : b[j].t # "nl"
      /\ f # 0 => b[f].t = "nl" /\ \A j \in 1 .. f - 1 : b[j].t # "nl"
  BY EolIs
<1>2. p \in Nat /\ p = e - len /\ e \in Nat /\ e = p + len
  BY <1>1 DEF UpTo
<1>3. \A j \in 1 .. len : b[j] = s[p + j]
  BY DEF UpTo
<1>4. s[p + 1].t = "nl"
  BY CellIs
<1> HIDE DEF len, b, s, f
<1>5. len >= 1 => b[1].t = "nl" /\ 1 \in 1 .. len
  <2>1. len >= 1 => 1 \in 1 .. len
    BY <1>1
  <2> QED BY <1>3, <1>4, <2>1
<1>6. f = 0 => len = 0
  BY <1>1, <1>5
<1>7. ASSUME f # 0 PROVE f = 1 /\ len >= 1
  <2>1. len >= 1
    BY <1>1, <1>7
  <2>2. ~ (f > 1)
    <3>1. f > 1 => 1 \in 1 .. f - 1
      BY <1>1
    <3> QED BY <1>1, <1>5, <1>7, <2>1, <3>1
  <2> QED BY <1>1, <1>7, <2>1, <2>2
<1> QED BY <1>1, <1>2, <1>6, <1>7 DEF len, b, s, f

-----------------------------------------------------------------------------
\* The status line is read when it has come.
LEMMA StatusReads ==
  ASSUME NEW a \in Answers, NEW e, NEW r, Reads(a, e, r)
  PROVE  LET q == ParseStatus(r)
         IN  Reads(a, e, q) /\ q.state = r.state /\ (q.status > 0 \/ FirstEol(q) = 0)
<1>1. r \in Requests /\ UpTo(a, e, r.buf) /\ a.status \in {200, 404}
  BY AnswerIs DEF Reads
<1>2. CASE r.status > 0 \/ FirstEol(r) = 0
  BY <1>2 DEF ParseStatus
<1>3. CASE ~ (r.status > 0 \/ FirstEol(r) = 0)
  <2>1. r.status = 0 /\ FirstEol(r) # 0
    BY <1>1, <1>3 DEF Requests
  <2>2. InHeader(a, e - Len(r.buf), r) /\ e - Len(r.buf) = 0
    BY <1>1, <2>1 DEF Reads, InHeader, InBody
  <2>3. Stream(a)[0 + 1] = Cell("status", a.status) /\ Stream(a)[0 + 2] = NL /\ a.status \in Nat
    BY <1>1, StreamIs
  <2>4. Stream(a)[0 + 1].t = "status" /\ Stream(a)[0 + 1].v = a.status
    BY <2>3, CellIs
  <2>5. FirstEol(r) = 2 /\ Len(r.buf) >= 2 /\ r.buf[1] = Stream(a)[0 + 1] /\ Len(r.buf) \in Nat
    <3>1. Stream(a)[0 + 1].t # "nl"
      BY <2>4
    <3> HIDE DEF Reads
    <3> QED BY <1>1, <2>1, <2>2, <2>3, <3>1, LineFound
  <2> DEFINE x == [r EXCEPT !.status = a.status]
             pos == FirstEol(r)
  <2>6. ParseStatus(r) = Taken(x, pos)
    BY <1>3, <2>4, <2>5 DEF ParseStatus
  <2>7. x \in Requests /\ x.buf = r.buf
    BY <1>1, <2>3 DEF Requests
  <2>8. UpTo(a, e, x.buf) /\ pos \in 0 .. Len(x.buf) /\ pos = 2
    BY <1>1, <2>5, <2>7
  <2>9. PICK b : Leaves(a, e, x, pos, b)
    <3>1. x \in Requests /\ UpTo(a, e, x.buf) /\ pos \in 0 .. Len(x.buf)
      BY <2>7, <2>8
    <3> HIDE DEF x, pos
    <3> QED BY ONLY <3>1, TakenUpTo
  <2>10. UpTo(a, e, b) /\ e - Len(b) = (e - Len(r.buf)) + 2 /\ b \in Seq(Cells)
    BY <2>7, <2>8, <2>9 DEF Rest, Leaves
  <2> DEFINE q == [x EXCEPT !.buf = b]
  <2>11. /\ q \in Requests /\ q.buf = b /\ q.state = r.state /\ q.header = r.header /\ q.chunked = r.chunked
         /\ q.length = r.length /\ q.chunk = r.chunk /\ q.body = r.body /\ q.status = a.status /\ q.fields = r.fields
    BY <1>1, <2>3, <2>10 DEF Requests
  <2> HIDE DEF q, x
  <2>12. e - Len(q.buf) = 2
    BY <2>2, <2>10, <2>11
  <2>13. InHeader(a, 2, q)
    BY <2>1, <2>2, <2>11, <1>1 DEF InHeader
  <2>14. Reads(a, e, q)
    BY <2>10, <2>11, <2>12, <2>13 DEF Reads
  <2>15. ParseStatus(r) = q
    BY <2>6, <2>9 DEF q, Leaves
  <2> QED BY <1>1, <2>11, <2>14, <2>15
<1> QED BY <1>2, <1>3

\* What http_parse makes of the fields when the header ends
LEMMA HeaderDoneIs ==
  ASSUME NEW a \in Answers, NEW x, x \in Requests,
         x.fields = IF a.frame = "close" THEN {} ELSE {Field(a)}
  PROVE  /\ HeaderDone(x) \in Requests /\ HeaderDone(x).header
         /\ HeaderDone(x).chunked = (a.frame = "chunked")
         /\ HeaderDone(x).length = IF a.frame = "length" THEN Length(a) ELSE 0
         /\ HeaderDone(x).state = x.state /\ HeaderDone(x).status = x.status /\ HeaderDone(x).chunk = x.chunk
         /\ HeaderDone(x).body = x.body /\ HeaderDone(x).buf = x.buf
<1> DEFINE chunked == \E f \in x.fields : f.t = "chunked"
           lengths == {f \in x.fields : f.t = "content-length"}
           length == IF chunked \/ lengths = {} THEN 0 ELSE (CHOOSE f \in lengths : TRUE).v
<1>1. a.frame \in {"close", "length", "chunked"} /\ Length(a) \in Nat
  BY AnswerIs
<1>2. (chunked <=> a.frame = "chunked") /\ length = IF a.frame = "length" THEN Length(a) ELSE 0
  <2>1. CASE a.frame = "close"
    <3>1. x.fields = {}
      BY <2>1
    <3>2. ~chunked /\ lengths = {}
      BY <3>1
    <3>3. length = 0
      BY <3>2, Zenon
    <3> QED BY <2>1, <3>2, <3>3
  <2>2. CASE a.frame = "chunked"
    <3>1. x.fields = {Field(a)} /\ Field(a).t = "chunked"
      BY <2>2, CellIs DEF Field
    <3>2. chunked
      BY <3>1
    <3>3. length = 0
      BY <3>2, Zenon
    <3> QED BY <2>2, <3>2, <3>3
  <2>3. CASE a.frame = "length"
    <3>1. x.fields = {Field(a)} /\ Field(a).t = "content-length" /\ Field(a).v = Length(a)
      BY <1>1, <2>3, CellIs DEF Field
    <3>2. ~chunked /\ lengths = {Field(a)}
      BY <3>1
    <3>3. (CHOOSE f \in lengths : TRUE) = Field(a)
      <4> HIDE DEF lengths
      <4> QED BY <3>2
    <3>4. lengths # {}
      BY <3>2
    <3>5. length = (CHOOSE f \in lengths : TRUE).v
      BY <3>2, <3>4, Zenon
    <3>6. length = Length(a)
      BY <3>1, <3>3, <3>5, Zenon
    <3> QED BY <2>3, <3>2, <3>6
  <2> QED BY <1>1, <2>1, <2>2, <2>3
<1>3. HeaderDone(x) = [x EXCEPT !.header = TRUE, !.chunked = chunked, !.length = length]
  BY DEF HeaderDone
<1>4. chunked \in BOOLEAN /\ length \in Nat /\ chunked = (a.frame = "chunked")
  BY <1>1, <1>2
<1> HIDE DEF chunked, length
<1> QED BY <1>2, <1>3, <1>4 DEF Requests

\* A turn of the loop over the header reads a line, or it leaves all as it is.
LEMMA HeaderTurnReads ==
  ASSUME NEW a \in Answers, NEW e, NEW r, Reads(a, e, r)
  PROVE  LET q == HeaderTurn(r)
         IN  /\ Reads(a, e, q) /\ q.state = r.state
             /\ \/ q = r /\ (r.status <= 0 \/ r.header \/ FirstEol(r) = 0)
                \/ q.status > 0 /\ Len(q.buf) < Len(r.buf)
<1> DEFINE pos == FirstEol(r)
           p == e - Len(r.buf)
           s == Stream(a)
<1>1. r \in Requests /\ UpTo(a, e, r.buf) /\ a.status \in {200, 404} /\ a.status \in Nat
  BY AnswerIs DEF Reads
<1>2. CASE r.status <= 0 \/ r.header \/ pos = 0
  BY <1>2 DEF HeaderTurn
<1>3. CASE ~ (r.status <= 0 \/ r.header \/ pos = 0)
  <2>1. /\ ~r.header /\ ~r.chunked /\ r.state = "none" /\ r.length = 0 /\ r.chunk = 0 /\ r.body = <<>>
        /\ r.status = a.status /\ pos # 0
        /\ \/ p = 2 /\ r.fields = {}
           \/ p = 4 /\ r.fields = {Field(a)} /\ a.frame # "close"
    BY <1>3 DEF Reads, InHeader, InBody
  <2>2. /\ HeaderLength(a) = IF a.frame = "close" THEN 3 ELSE 5
        /\ s[HeaderLength(a)] = NL
        /\ a.frame # "close" => s[3] = Field(a) /\ s[4] = NL
    BY StreamIs DEF HeaderLength
  <2>3. CASE p = 2 /\ a.frame # "close"
    <3>1. s[p + 1] = Field(a) /\ s[p + 2] = NL
      BY <2>2, <2>3
    <3>2. Field(a) \in Cells /\ Field(a).t # "nl"
      <4>1. Length(a) \in Nat
        BY AnswerIs
      <4> QED BY <4>1, CellIs DEF Field
    <3>3. pos = 2 /\ Len(r.buf) >= 2 /\ r.buf[1] = Field(a) /\ Len(r.buf) \in Nat
      <4>1. /\ a \in Answers /\ r \in Requests /\ UpTo(a, e, r.buf) /\ p = e - Len(r.buf)
            /\ Stream(a)[p + 1].t # "nl" /\ Stream(a)[p + 2] = NL
        BY <1>1, <3>1, <3>2
      <4> HIDE DEF p, s
      <4>2. /\ Len(r.buf) \in Nat
            /\ FirstEol(r) # 0 => FirstEol(r) = 2 /\ Len(r.buf) >= 2 /\ r.buf[1] = Stream(a)[p + 1]
        BY ONLY <4>1, LineFound
      <4> QED BY <2>1, <3>1, <4>2 DEF s
    <3> DEFINE x == [r EXCEPT !.fields = @ \cup {r.buf[1]}]
    <3>4. HeaderTurn(r) = Taken(x, pos)
      BY <1>3, <3>3 DEF HeaderTurn
    <3>5. x \in Requests /\ x.buf = r.buf /\ x.fields = {Field(a)}
      BY <1>1, <2>1, <2>3, <3>2, <3>3, SMTT(30) DEF Requests
    <3>6. PICK b : Leaves(a, e, x, pos, b)
      <4>1. x \in Requests /\ UpTo(a, e, x.buf) /\ pos \in 0 .. Len(x.buf)
        BY <1>1, <3>3, <3>5
      <4> HIDE DEF x, pos
      <4> QED BY ONLY <4>1, TakenUpTo
    <3>7. UpTo(a, e, b) /\ e - Len(b) = 4 /\ b \in Seq(Cells) /\ Len(b) = Len(r.buf) - 2
      BY <2>3, <3>3, <3>5, <3>6 DEF Rest, Leaves
    <3> DEFINE q == [x EXCEPT !.buf = b]
    <3>8. /\ q \in Requests /\ q.buf = b /\ q.state = "none" /\ ~q.header /\ ~q.chunked
          /\ q.length = 0 /\ q.chunk = 0 /\ q.body = <<>> /\ q.status = a.status /\ q.fields = {Field(a)}
      BY <1>1, <2>1, <3>5, <3>7 DEF Requests
    <3> HIDE DEF q, x
    <3>9. InHeader(a, 4, q)
      BY <2>3, <3>8 DEF InHeader
    <3>10. Reads(a, e, q)
      BY <3>7, <3>8, <3>9 DEF Reads
    <3>11. HeaderTurn(r) = q
      BY <3>4, <3>6 DEF q, Leaves
    <3> QED BY <1>1, <2>1, <3>3, <3>7, <3>8, <3>10, <3>11
  <2>4. CASE ~ (p = 2 /\ a.frame # "close")
    <3>1. p + 1 = HeaderLength(a) /\ r.fields = IF a.frame = "close" THEN {} ELSE {Field(a)}
      <4>1. CASE p = 2 /\ r.fields = {}
        <5>1. a.frame = "close" /\ HeaderLength(a) = 3
          BY <2>2, <2>4, <4>1
        <5> HIDE DEF p
        <5> QED BY <4>1, <5>1
      <4>2. CASE p = 4 /\ r.fields = {Field(a)} /\ a.frame # "close"
        <5>1. HeaderLength(a) = 5
          BY <2>2, <4>2
        <5> HIDE DEF p
        <5> QED BY <4>2, <5>1
      <4> QED BY <2>1, <4>1, <4>2
    <3>2. pos = 1 /\ Len(r.buf) >= 1 /\ Len(r.buf) \in Nat
      <4>1. Stream(a)[p + 1] = NL
        BY <2>2, <3>1
      <4>2. p = e - Len(r.buf)
        OBVIOUS
      <4> HIDE DEF s, p
      <4> QED BY <1>1, <2>1, <4>1, <4>2, BlankFound
    <3>3. HeaderTurn(r) = HeaderDone(Taken(r, pos))
      BY <1>3, <3>2 DEF HeaderTurn
    <3>4. PICK b : Leaves(a, e, r, pos, b)
      <4>1. r \in Requests /\ UpTo(a, e, r.buf) /\ pos \in 0 .. Len(r.buf)
        BY <1>1, <3>2
      <4> HIDE DEF pos
      <4> QED BY ONLY <4>1, TakenUpTo
    <3>5. UpTo(a, e, b) /\ e - Len(b) = HeaderLength(a) /\ b \in Seq(Cells) /\ Len(b) = Len(r.buf) - 1
      BY <3>1, <3>2, <3>4 DEF Rest, Leaves
    <3> DEFINE x == [r EXCEPT !.buf = b]
               q == HeaderDone(x)
    <3>6. /\ x \in Requests /\ x.buf = b /\ x.state = "none" /\ x.chunk = 0 /\ x.body = <<>>
          /\ x.status = a.status /\ x.fields = r.fields
      BY <1>1, <2>1, <3>5 DEF Requests
    <3>7. HeaderTurn(r) = q
      BY <3>3, <3>4 DEF Leaves
    <3> HIDE DEF x
    <3>8. /\ q \in Requests /\ q.header /\ q.chunked = (a.frame = "chunked")
          /\ q.length = IF a.frame = "length" THEN Length(a) ELSE 0
          /\ q.state = "none" /\ q.status = a.status /\ q.chunk = 0 /\ q.body = <<>> /\ q.buf = b
      BY <3>1, <3>6, HeaderDoneIs
    <3> HIDE DEF q
    <3>9. InBody(a, HeaderLength(a), q)
      <4>1. CASE a.frame = "chunked"
        <5>1. /\ 0 \in 0 .. Len(a.sizes) /\ HeaderLength(a) = End(a, 0)
              /\ <<>> = Bytes(0, Total(a.sizes, 0))
          <6>1. a.sizes \in Seq(Nat \ {0}) /\ Len(a.sizes) \in Nat
            BY AnswerIs
          <6>2. Total(a.sizes, 0) = 0
            BY <6>1, TotalIs
          <6>3. Bytes(0, 0) = <<>>
            BY DEF Bytes
          <6>4. End(a, 0) = 5 /\ HeaderLength(a) = 5
            BY <2>2, <4>1, ChunksAre
          <6> QED BY <6>1, <6>2, <6>3, <6>4
        <5> QED BY <3>8, <4>1, <5>1 DEF InBody, InChunks
      <4>2. CASE a.frame # "chunked"
        BY <3>8, <4>2 DEF InBody, InPlainBody
      <4> QED BY <4>1, <4>2
    <3>10. Reads(a, e, q)
      BY <3>5, <3>8, <3>9 DEF Reads
    <3> QED BY <1>1, <2>1, <3>2, <3>5, <3>7, <3>8, <3>10
  <2> QED BY <2>3, <2>4
<1> QED BY <1>2, <1>3

\* The loop over the header reads every line of it that has come.
LEMMA HeaderReads ==
  ASSUME NEW a \in Answers, NEW e, NEW r, Reads(a, e, r), r.status > 0 \/ FirstEol(r) = 0
  PROVE  LET q == ParseHeader(r)
         IN  Reads(a, e, q) /\ q.state = r.state /\ (q.status > 0 \/ FirstEol(q) = 0) /\ HeaderTurn(q) = q
<1> DEFINE K == {x \in Requests : Reads(a, e, x) /\ x.state = r.state /\ (x.status > 0 \/ FirstEol(x) = 0)}
           step == [x \in K |-> HeaderTurn(x)]
           size == [x \in K |-> Len(x.buf)]
           N == Len(r.buf)
           Up(f) == f = [n \in 0 .. N |-> IF n = 0 THEN r ELSE HeaderTurn(f[n - 1])]
           g == CHOOSE f : Up(f)
<1>1. \A x \in K : /\ HeaderTurn(x) \in K /\ Len(x.buf) \in Nat
                   /\ HeaderTurn(x) = x \/ Len(HeaderTurn(x).buf) < Len(x.buf)
  <2>1. ASSUME NEW x \in K
        PROVE  /\ HeaderTurn(x) \in K /\ Len(x.buf) \in Nat
               /\ HeaderTurn(x) = x \/ Len(HeaderTurn(x).buf) < Len(x.buf)
    <3>1. Reads(a, e, x) /\ x.state = r.state /\ (x.status > 0 \/ FirstEol(x) = 0)
      OBVIOUS
    <3>2. LET q == HeaderTurn(x)
          IN  /\ Reads(a, e, q) /\ q.state = r.state /\ (q.status > 0 \/ FirstEol(q) = 0)
              /\ q = x \/ Len(q.buf) < Len(x.buf)
      BY <3>1, HeaderTurnReads
    <3>3. HeaderTurn(x) \in Requests
      BY <3>2 DEF Reads
    <3>4. Len(x.buf) \in Nat
      BY LenProperties DEF Requests
    <3> QED BY <3>2, <3>3, <3>4
  <2> QED BY <2>1
<1>2. r \in K /\ N \in Nat
  <2>1. r \in Requests
    BY DEF Reads
  <2> QED BY <2>1, LenProperties DEF Requests
<1> HIDE DEF K
<1>3. step \in [K -> K] /\ size \in [K -> Nat] /\ \A y \in K : step[y] \in K /\ (step[y] = y \/ size[step[y]] < size[y])
  BY <1>1
<1>4. size[r] <= N
  BY <1>2
<1>5. \A y \in K : step[y] = HeaderTurn(y)
  OBVIOUS
<1> HIDE DEF step, size, N
<1>6. PICK f : Turns(N, r, step, f) /\ (\A n \in 0 .. N : f[n] \in K) /\ step[f[N]] = f[N]
  <2>1. K \subseteq K
    OBVIOUS
  <2> QED BY <1>2, <1>3, <1>4, <2>1, LoopEnds
<1>7. f = [n \in 0 .. N |-> IF n = 0 THEN r ELSE step[f[n - 1]]]
  BY <1>6, Zenon DEF Turns
<1>8. \A n \in 0 .. N : n # 0 => n - 1 \in 0 .. N
  BY <1>2
<1>9. Up(f)
  <2>1. \A n \in 0 .. N : n # 0 => step[f[n - 1]] = HeaderTurn(f[n - 1])
    BY <1>5, <1>6, <1>8
  <2>2. [n \in 0 .. N |-> IF n = 0 THEN r ELSE step[f[n - 1]]]
          = [n \in 0 .. N |-> IF n = 0 THEN r ELSE HeaderTurn(f[n - 1])]
    BY <2>1
  <2> QED BY <1>7, <2>2, Zenon
<1>10. Up(g)
  BY <1>9, Zenon
<1>11. ParseHeader(r) = g[N]
  BY Zenon DEF ParseHeader, N
<1> HIDE DEF g
<1>12. \A n \in 0 .. N : g[n] = IF n = 0 THEN r ELSE HeaderTurn(g[n - 1])
  BY <1>10, Zenon
<1>13. \A n \in 0 .. N : f[n] = IF n = 0 THEN r ELSE HeaderTurn(f[n - 1])
  BY <1>9, Zenon
<1> HIDE DEF Up
<1> DEFINE T == {n \in 0 .. N : g[n] = f[n]}
<1>14. 0 \in T
  <2>1. 0 \in 0 .. N
    BY <1>2
  <2>2. g[0] = r /\ f[0] = r
    BY <1>12, <1>13, <2>1, Zenon
  <2> QED BY <2>1, <2>2
<1>15. ASSUME NEW n \in 0 .. N - 1, n \in T PROVE n + 1 \in T
  <2>1. n + 1 \in 0 .. N /\ n + 1 # 0 /\ (n + 1) - 1 = n /\ g[n] = f[n]
    BY <1>2, <1>15
  <2>2. g[n + 1] = HeaderTurn(g[n]) /\ f[n + 1] = HeaderTurn(f[n])
    BY <1>12, <1>13, <2>1, Zenon
  <2>3. g[n + 1] = f[n + 1]
    BY <2>1, <2>2, Zenon
  <2> QED BY <2>1, <2>3
<1> HIDE DEF T
<1>16. 0 .. N \subseteq T
  BY <1>2, <1>14, <1>15, InductiveUpTo
<1>17. g[N] = f[N] /\ f[N] \in K
  <2>1. N \in 0 .. N
    BY <1>2
  <2> QED BY <1>6, <1>16, <2>1 DEF T
<1>18. HeaderTurn(f[N]) = f[N]
  BY <1>5, <1>6, <1>17
<1>19. Reads(a, e, f[N]) /\ f[N].state = r.state /\ (f[N].status > 0 \/ FirstEol(f[N]) = 0)
  BY <1>17 DEF K
<1> QED BY <1>11, <1>17, <1>18, <1>19

\* Bytes that follow the first m bytes of a body
LEMMA BytesGrow ==
  ASSUME NEW len \in Nat, NEW c \in Nat, NEW b \in Seq(Cells), Len(b) = c,
         \A j \in 1 .. c : b[j] = Cell("byte", len + j)
  PROVE  Bytes(0, len) \o b = Bytes(0, len + c)
<1> DEFINE x == Bytes(0, len)
           y == Bytes(0, len + c)
           z == x \o b
<1>1. x \in Seq(Cells) /\ Len(x) = len /\ \A j \in 1 .. len : x[j] = Cell("byte", 0 + j)
  BY BytesIs
<1>2. len + c \in Nat
  OBVIOUS
<1>3. y \in Seq(Cells) /\ Len(y) = len + c /\ \A j \in 1 .. len + c : y[j] = Cell("byte", 0 + j)
  BY <1>2, BytesIs
<1> HIDE DEF x, y
<1>4. /\ z \in Seq(Cells) /\ Len(z) = Len(x) + Len(b)
      /\ \A j \in 1 .. Len(x) : z[j] = x[j]
      /\ \A j \in 1 .. Len(b) : z[Len(x) + j] = b[j]
  <2>1. x \in Seq(Cells) /\ b \in Seq(Cells)
    BY <1>1
  <2> QED BY ONLY <2>1, Joined
<1> HIDE DEF z
<1>5. ASSUME NEW j \in 1 .. Len(z) PROVE z[j] = y[j]
  <2>1. j \in Nat /\ j \in 1 .. len + c /\ 0 + j = j
    BY <1>1, <1>4
  <2>2. y[j] = Cell("byte", j)
    BY <1>3, <2>1
  <2>3. CASE j <= len
    <3>1. j \in 1 .. len
      BY <2>1, <2>3
    <3>2. z[j] = x[j] /\ x[j] = Cell("byte", 0 + j)
      BY <1>1, <1>4, <3>1
    <3> QED BY <2>1, <2>2, <3>2
  <2>4. CASE ~ (j <= len)
    <3>1. j - len \in 1 .. c /\ len + (j - len) = j
      BY <2>1, <2>4
    <3>2. z[len + (j - len)] = b[j - len] /\ b[j - len] = Cell("byte", len + (j - len))
      BY <1>1, <1>4, <3>1
    <3> QED BY <2>2, <3>1, <3>2
  <2> QED BY <2>3, <2>4
<1>6. Len(z) = Len(y)
  BY <1>1, <1>3, <1>4
<1>7. z = y
  BY <1>3, <1>4, <1>5, <1>6, SeqEqual
<1> QED BY <1>7 DEF x, y, z

\* A chunk that is there with its line end is added to the body.
LEMMA AddChunkReads ==
  ASSUME NEW a \in Answers, NEW e, NEW r, Reads(a, e, r), r.header, r.chunked,
         r.state = "none", r.chunk > 0, Whole(r)
  PROVE  LET q == AddChunk(r)
         IN  Reads(a, e, q) /\ q.header /\ q.chunked /\ Len(q.buf) < Len(r.buf)
<1> DEFINE c == r.chunk
           p == e - Len(r.buf)
           s == Stream(a)
           n == Len(a.sizes)
           T(k) == Total(a.sizes, k)
<1>1. /\ r \in Requests /\ UpTo(a, e, r.buf) /\ a.frame = "chunked" /\ InBody(a, p, r)
      /\ r.status = a.status /\ r.length = 0 /\ c \in Nat /\ r.chunk # 0
  <2>1. r \in Requests /\ UpTo(a, e, r.buf) /\ InBody(a, p, r)
    BY DEF Reads, InHeader
  <2>2. InChunks(a, p, r) /\ r.status = a.status
    BY <2>1 DEF InBody, InPlainBody
  <2>3. c \in Nat /\ r.chunk # 0
    BY <2>1 DEF Requests
  <2> QED BY <2>1, <2>2, <2>3 DEF InChunks
<1>2. PICK k \in 1 .. n : p = End(a, k - 1) + 2 /\ c = a.sizes[k] /\ r.body = Bytes(0, T(k - 1))
  <2>1. InChunks(a, p, r)
    BY <1>1 DEF InBody, InPlainBody
  <2> QED BY <1>1, <2>1 DEF InChunks
<1>3. /\ End(a, k - 1) \in Nat /\ End(a, k) = End(a, k - 1) + c + 4
      /\ \A j \in 1 .. c : s[p + j] = Cell("byte", T(k - 1) + j)
  <2> DEFINE o == End(a, k - 1)
             v == a.sizes[k]
  <2>1. /\ o \in Nat /\ End(a, k) = o + v + 4
        /\ \A j \in 1 .. v : s[(o + 2) + j] = Cell("byte", T(k - 1) + j)
    BY <1>1, ChunksAre
  <2>2. p = o + 2 /\ c = v
    BY <1>2
  <2> HIDE DEF o, v, c, p, s, T
  <2>3. o \in Nat /\ End(a, k) = o + c + 4 /\ \A j \in 1 .. c : s[p + j] = Cell("byte", T(k - 1) + j)
    BY <2>1, <2>2
  <2> QED BY <2>3 DEF o
<1>4. T(k - 1) \in Nat /\ T(k) = T(k - 1) + c /\ k \in 0 .. n /\ n \in Nat
  <2>1. a.sizes \in Seq(Nat \ {0}) /\ n \in Nat
    BY AnswerIs
  <2>2. k \in 0 .. n /\ k - 1 \in 0 .. n
    BY <2>1
  <2> QED BY <1>2, <2>1, <2>2, TotalIs
<1>5. Len(r.buf) \in Nat /\ Len(r.buf) >= c + 2 /\ r.buf \in Seq(Cells)
  BY <1>1, LenProperties DEF Requests, Whole
<1> DEFINE f == First(r, c)
<1>6. f = SubSeq(r.buf, 1, c)
  BY <1>1, <1>5 DEF First
<1>7. f \in Seq(Cells) /\ Len(f) = c /\ \A j \in 1 .. c : f[j] = r.buf[j]
  <2>1. c \in 0 .. Len(r.buf)
    BY <1>1, <1>5
  <2> HIDE DEF c, f
  <2> QED BY <1>5, <1>6, <2>1, RestIs
<1>8. \A j \in 1 .. c : f[j] = Cell("byte", T(k - 1) + j)
  <2>1. \A j \in 1 .. c : j \in 1 .. Len(r.buf)
    BY <1>1, <1>5
  <2>2. \A j \in 1 .. Len(r.buf) : r.buf[j] = s[p + j]
    BY <1>1 DEF UpTo
  <2> QED BY <1>3, <1>7, <2>1, <2>2
<1> HIDE DEF f, s, p, T
<1>9. r.body \o f = Bytes(0, T(k))
  <2>1. T(k - 1) \in Nat /\ c \in Nat /\ f \in Seq(Cells) /\ Len(f) = c
        /\ \A j \in 1 .. c : f[j] = Cell("byte", T(k - 1) + j)
    BY <1>1, <1>4, <1>7, <1>8
  <2> HIDE DEF c
  <2>2. Bytes(0, T(k - 1)) \o f = Bytes(0, T(k - 1) + c)
    BY ONLY <2>1, BytesGrow
  <2> QED BY <1>2, <1>4, <2>2
<1>10. PICK b : Leaves(a, e, r, c, b)
  <2>1. r \in Requests /\ UpTo(a, e, r.buf) /\ c \in 0 .. Len(r.buf)
    BY <1>1, <1>5
  <2> HIDE DEF c
  <2> QED BY ONLY <2>1, TakenUpTo
<1>11. UpTo(a, e, b) /\ e - Len(b) = p + c /\ b \in Seq(Cells) /\ Len(b) = Len(r.buf) - c
  BY <1>10 DEF Rest, Leaves, p
<1> DEFINE x == [r EXCEPT !.buf = b]
<1>12. /\ x \in Requests /\ x.buf = b /\ x.body = r.body /\ x.state = "none" /\ x.header /\ x.chunked
       /\ x.status = a.status /\ x.length = 0
  BY <1>1, <1>11 DEF Requests
<1>13. Taken(r, c) = x
  BY <1>10 DEF Leaves
<1> HIDE DEF x
<1>14. PICK d : Leaves(a, e, x, 2, d)
  <2>1. x \in Requests /\ UpTo(a, e, x.buf) /\ 2 \in 0 .. Len(x.buf)
    BY <1>1, <1>5, <1>11, <1>12
  <2> QED BY ONLY <2>1, TakenUpTo
<1>15. UpTo(a, e, d) /\ e - Len(d) = (p + c) + 2 /\ d \in Seq(Cells) /\ Len(d) = Len(b) - 2
  BY <1>11, <1>12, <1>14 DEF Rest, Leaves
<1>16. e - Len(d) = End(a, k)
  <2> DEFINE o == End(a, k - 1)
             h == End(a, k)
             l == e - Len(d)
  <2>1. o \in Nat /\ p = o + 2 /\ c \in Nat /\ h = o + c + 4 /\ l = (p + c) + 2
    BY <1>1, <1>2, <1>3, <1>15
  <2> HIDE DEF o, c, h, l
  <2>2. l = h
    BY <2>1
  <2> QED BY <2>2 DEF h, l
<1>17. Len(d) < Len(r.buf)
  BY <1>1, <1>5, <1>11, <1>15
<1> DEFINE q == [x EXCEPT !.buf = d, !.chunk = 0, !.body = Bytes(0, T(k))]
<1>18. AddChunk(r) = q
  <2>1. Taken(Taken(r, r.chunk), 2) = [x EXCEPT !.buf = d]
    BY <1>13, <1>14 DEF Leaves
  <2>2. AddChunk(r) = [[x EXCEPT !.buf = d] EXCEPT !.chunk = 0, !.body = @ \o f]
    BY <2>1 DEF AddChunk, f
  <2>3. [x EXCEPT !.buf = d].body = x.body
    BY <1>12 DEF Requests
  <2>4. AddChunk(r) = [[x EXCEPT !.buf = d] EXCEPT !.chunk = 0, !.body = Bytes(0, T(k))]
    BY <1>9, <1>12, <2>2, <2>3
  <2> QED BY <1>12, <2>4 DEF Requests
<1>19. Bytes(0, T(k)) \in Seq(Cells)
  <2>1. T(k) \in Nat
    BY <1>1, <1>4
  <2> QED BY <2>1, BytesIs
<1>20. /\ q \in Requests /\ q.buf = d /\ q.body = Bytes(0, T(k)) /\ q.chunk = 0 /\ q.state = "none" /\ q.header
       /\ q.chunked /\ q.status = a.status /\ q.length = 0
  BY <1>12, <1>15, <1>19 DEF Requests
<1> HIDE DEF q
<1>21. InChunks(a, End(a, k), q)
  BY <1>1, <1>4, <1>20 DEF InChunks, T
<1>22. Reads(a, e, q)
  BY <1>15, <1>16, <1>20, <1>21 DEF Reads, InBody
<1> QED BY <1>17, <1>18, <1>20, <1>22

\* b is the recvbuf of r when a turn has read the size v of a chunk behind p cells.
SizeLeaves(a, e, r, p, v, b) ==
  /\ UpTo(a, e, b) /\ e - Len(b) = p + 2 /\ Len(b) < Len(r.buf) /\ b \in Seq(Cells)
  /\ ChunkTurn(r) = IF v = 0 THEN [r EXCEPT !.buf = b, !.state = "done"] ELSE [r EXCEPT !.buf = b, !.chunk = v]

\* A line with the size of a chunk is at the head of recvbuf: it is read when it has come.
LEMMA SizeReads ==
  ASSUME NEW a \in Answers, NEW e, NEW r, r \in Requests, UpTo(a, e, r.buf), r.state = "none", r.chunk = 0,
         NEW p, p = e - Len(r.buf), NEW v \in Nat, Stream(a)[p + 1] = Cell("size", v), Stream(a)[p + 2] = NL
  PROVE  \/ ChunkTurn(r) = r /\ Len(r.buf) < 2
         \/ \E b : SizeLeaves(a, e, r, p, v, b)
<1> DEFINE pos == FirstEol(r)
<1>1. Stream(a)[p + 1].t = "size" /\ Stream(a)[p + 1].v = v
  BY CellIs
<1>2. /\ Len(r.buf) \in Nat /\ p \in Nat
      /\ FirstEol(r) = 0 => Len(r.buf) < 2
      /\ FirstEol(r) # 0 => FirstEol(r) = 2 /\ Len(r.buf) >= 2 /\ r.buf[1] = Stream(a)[p + 1]
  <2>1. Stream(a)[p + 1].t # "nl"
    BY <1>1
  <2>2. /\ a \in Answers /\ r \in Requests /\ UpTo(a, e, r.buf) /\ p = e - Len(r.buf)
        /\ Stream(a)[p + 1].t # "nl" /\ Stream(a)[p + 2] = NL
    BY <2>1
  <2> QED BY ONLY <2>2, LineFound
<1>3. CASE pos = 0
  <2>1. ChunkTurn(r) = r
    BY <1>3 DEF ChunkTurn
  <2> QED BY <1>2, <1>3, <2>1
<1>4. CASE pos # 0
  <2>1. pos = 2 /\ Len(r.buf) >= 2 /\ r.buf[1].t = "size" /\ r.buf[1].v = v
    BY <1>1, <1>2, <1>4
  <2>2. PICK b : Leaves(a, e, r, pos, b)
    <3>1. r \in Requests /\ UpTo(a, e, r.buf) /\ pos \in 0 .. Len(r.buf)
      BY <1>2, <2>1
    <3> HIDE DEF pos
    <3> QED BY ONLY <3>1, TakenUpTo
  <2>3. UpTo(a, e, b) /\ e - Len(b) = p + 2 /\ b \in Seq(Cells) /\ Len(b) = Len(r.buf) - 2
    BY <2>1, <2>2 DEF Rest, Leaves
  <2>4. Taken(r, pos) = [r EXCEPT !.buf = b]
    BY <2>2 DEF Leaves
  <2>5. ChunkTurn(r) = IF v = 0 THEN [[r EXCEPT !.buf = b] EXCEPT !.state = "done"]
                       ELSE [[r EXCEPT !.buf = b] EXCEPT !.chunk = v]
    <3>1. ~ (pos < 2) /\ ~ (r.chunk > 0) /\ pos # 0
      BY <2>1
    <3> HIDE DEF pos
    <3>2. ChunkTurn(r) = IF v = 0 THEN [Taken(r, pos) EXCEPT !.state = "done"]
                         ELSE [Taken(r, pos) EXCEPT !.chunk = v]
      BY <2>1, <3>1 DEF ChunkTurn, pos
    <3> QED BY <2>4, <3>2
  <2>6. /\ [[r EXCEPT !.buf = b] EXCEPT !.state = "done"] = [r EXCEPT !.buf = b, !.state = "done"]
        /\ [[r EXCEPT !.buf = b] EXCEPT !.chunk = v] = [r EXCEPT !.buf = b, !.chunk = v]
    BY DEF Requests
  <2>7. Len(b) < Len(r.buf)
    BY <1>2, <2>3
  <2>8. ChunkTurn(r) = IF v = 0 THEN [r EXCEPT !.buf = b, !.state = "done"]
                       ELSE [r EXCEPT !.buf = b, !.chunk = v]
    BY <2>5, <2>6
  <2>9. SizeLeaves(a, e, r, p, v, b)
    BY <2>3, <2>7, <2>8 DEF SizeLeaves
  <2> QED BY <2>9
<1> QED BY <1>3, <1>4

\* A chunk ends within the chunks.
LEMMA EndInside ==
  ASSUME NEW a \in Answers, NEW k \in 0 .. Len(a.sizes)
  PROVE  End(a, k) \in Nat /\ End(a, Len(a.sizes)) \in Nat /\ End(a, k) <= End(a, Len(a.sizes))
<1> DEFINE n == Len(a.sizes)
<1>1. a.sizes \in Seq(Nat \ {0}) /\ n \in Nat
  BY AnswerIs
<1>2. /\ ChunksEnd(a.sizes, 0) = 0 /\ \A i \in 0 .. n : ChunksEnd(a.sizes, i) \in Nat
      /\ \A i \in 1 .. n : ChunksEnd(a.sizes, i) = ChunksEnd(a.sizes, i - 1) + a.sizes[i] + 4
  BY <1>1, ChunksEndIs
<1>3. ChunksEnd(a.sizes, k) <= ChunksEnd(a.sizes, n)
  <2>1. CASE k = 0
    BY <1>1, <1>2, <2>1
  <2>2. CASE k # 0
    <3>1. k \in 1 .. n /\ k - 1 \in 0 .. n
      BY <1>1, <2>2
    <3>2. a.sizes[k] \in Nat
      BY <1>1, <3>1, TotalIs
    <3>3. a.sizes[k] + 4 \in 1 .. a.sizes[k] + 4
      BY <3>2
    <3>4. ChunksEnd(a.sizes, k - 1) + (a.sizes[k] + 4) \in 1 .. ChunksEnd(a.sizes, n)
      <4> DEFINE chunks == [i \in DOMAIN a.sizes |-> Chunk(a.sizes, i)]
      <4>1. chunks = [i \in DOMAIN a.sizes |-> Chunk(a.sizes, i)]
        OBVIOUS
      <4> HIDE DEF chunks
      <4> QED BY <1>1, <3>1, <3>3, <4>1, FlatIs
    <3>5. /\ ChunksEnd(a.sizes, k) = ChunksEnd(a.sizes, k - 1) + a.sizes[k] + 4
          /\ ChunksEnd(a.sizes, k - 1) \in Nat /\ ChunksEnd(a.sizes, n) \in Nat
      BY <1>1, <1>2, <3>1
    <3> QED BY <3>2, <3>4, <3>5
  <2> QED BY <2>1, <2>2
<1>4. ChunksEnd(a.sizes, k) \in Nat /\ ChunksEnd(a.sizes, n) \in Nat
  BY <1>1, <1>2
<1> QED BY <1>3, <1>4 DEF End

\* More is to come of an answer in chunks, unless it is done.
More(a, e, r) == r.state = "none" => e < Len(Stream(a))

\* A turn of the loop over the chunks reads a size or a chunk, or it leaves all as it is.
LEMMA ChunkTurnReads ==
  ASSUME NEW a \in Answers, NEW e, NEW r, Reads(a, e, r), r.header, r.chunked
  PROVE  LET q == ChunkTurn(r)
         IN  Reads(a, e, q) /\ q.header /\ q.chunked /\ ((q = r /\ More(a, e, r)) \/ Len(q.buf) < Len(r.buf))
<1> DEFINE p == e - Len(r.buf)
           s == Stream(a)
           n == Len(a.sizes)
           T(k) == Total(a.sizes, k)
<1>1. /\ r \in Requests /\ UpTo(a, e, r.buf) /\ a.frame = "chunked" /\ InChunks(a, p, r)
      /\ r.status = a.status /\ r.length = 0 /\ r.chunk \in Nat
  <2>1. r \in Requests /\ UpTo(a, e, r.buf) /\ InBody(a, p, r)
    BY DEF Reads, InHeader
  <2>2. InChunks(a, p, r) /\ r.status = a.status
    BY <2>1 DEF InBody, InPlainBody
  <2>3. r.chunk \in Nat
    BY <2>1 DEF Requests
  <2> QED BY <2>1, <2>2, <2>3 DEF InChunks
<1>2. ASSUME ChunkTurn(r) = r, More(a, e, r)
      PROVE  LET q == ChunkTurn(r)
             IN  Reads(a, e, q) /\ q.header /\ q.chunked /\ ((q = r /\ More(a, e, r)) \/ Len(q.buf) < Len(r.buf))
  BY <1>2
<1>3. CASE r.state # "none"
  <2>1. ChunkTurn(r) = r
    BY <1>3 DEF ChunkTurn
  <2>2. More(a, e, r)
    BY <1>3 DEF More
  <2> QED BY <1>2, <2>1, <2>2
<1>4. CASE r.state = "none" /\ r.chunk > 0
  <2>1. CASE Whole(r)
    <3>1. ChunkTurn(r) = AddChunk(r)
      BY <1>4, <2>1 DEF ChunkTurn
    <3>2. LET q == AddChunk(r) IN Reads(a, e, q) /\ q.header /\ q.chunked /\ Len(q.buf) < Len(r.buf)
      BY <1>4, <2>1, AddChunkReads
    <3> QED BY <3>1, <3>2
  <2>2. CASE ~Whole(r)
    <3>1. ChunkTurn(r) = r
      BY <1>4, <2>2 DEF ChunkTurn
    <3>2. More(a, e, r)
      <4>1. PICK k \in 1 .. n : p = End(a, k - 1) + 2 /\ r.chunk = a.sizes[k]
        BY <1>1, <1>4 DEF InChunks
      <4> DEFINE len == Len(r.buf)
                 d == r.chunk
                 o == End(a, k - 1)
                 h == End(a, k)
                 i == End(a, n)
                 l == Len(s)
      <4>2. len \in Nat /\ len < d + 2 /\ d \in Nat
        <5>1. len \in Nat
          BY <1>1, LenProperties DEF Requests
        <5> QED BY <1>1, <2>2, <5>1 DEF Whole
      <4>3. k \in 0 .. n
        BY AnswerIs
      <4>4. l = i + 2 /\ o \in Nat /\ h = o + d + 4
        BY <1>1, <4>1, ChunksAre
      <4>5. h \in Nat /\ i \in Nat /\ h <= i
        BY <4>3, EndInside
      <4>6. e - len = o + 2 /\ e \in Nat
        BY <1>1, <4>1 DEF UpTo
      <4> HIDE DEF len, d, o, h, i, l
      <4>7. e < l
        BY <4>2, <4>4, <4>5, <4>6
      <4> QED BY <4>7 DEF More, l, s
    <3> QED BY <1>2, <3>1, <3>2
  <2> QED BY <2>1, <2>2
<1>5. CASE r.state = "none" /\ ~ (r.chunk > 0)
  <2>1. r.chunk = 0
    BY <1>1, <1>5
  <2>2. PICK k \in 0 .. n : p = End(a, k) /\ r.body = Bytes(0, T(k))
    <3>1. ~ \E k \in 1 .. n : r.chunk = a.sizes[k]
      <4>1. \A k \in 1 .. n : a.sizes[k] # 0
        <5>1. a.sizes \in Seq(Nat \ {0})
          BY AnswerIs
        <5> QED BY <5>1, TotalIs
      <4> QED BY <2>1, <4>1
    <3> QED BY <1>1, <1>5, <3>1 DEF InChunks
  <2>3. a.sizes \in Seq(Nat \ {0}) /\ n \in Nat
    BY AnswerIs
  <2>4. ASSUME ChunkTurn(r) = r, Len(r.buf) < 2 PROVE More(a, e, r)
    <3> DEFINE len == Len(r.buf)
               h == End(a, k)
               i == End(a, n)
               l == Len(s)
    <3>1. len \in Nat /\ len < 2
      BY <1>1, <2>4, LenProperties DEF Requests
    <3>2. l = i + 2
      BY <1>1, ChunksAre
    <3>3. h \in Nat /\ i \in Nat /\ h <= i
      BY EndInside
    <3>4. e - len = h /\ e \in Nat
      BY <1>1, <2>2 DEF UpTo
    <3> HIDE DEF len, h, i, l
    <3>5. e < l
      BY <3>1, <3>2, <3>3, <3>4
    <3> QED BY <3>5 DEF More, l, s
  <2>5. CASE k = n
    <3>1. s[p + 1] = Cell("size", 0) /\ s[p + 2] = NL /\ Len(s) = p + 2
      BY <1>1, <2>2, <2>5, ChunksAre
    <3>2. CASE ChunkTurn(r) = r /\ Len(r.buf) < 2
      BY <1>2, <2>4, <3>2
    <3>3. CASE ~ (ChunkTurn(r) = r /\ Len(r.buf) < 2)
      <4>1. PICK b : SizeLeaves(a, e, r, p, 0, b)
        <5>1. 0 \in Nat /\ p = e - Len(r.buf) /\ Stream(a)[p + 1] = Cell("size", 0) /\ Stream(a)[p + 2] = NL
          BY <3>1
        <5>2. r \in Requests /\ UpTo(a, e, r.buf) /\ r.state = "none" /\ r.chunk = 0
          BY <1>1, <1>5, <2>1
        <5> HIDE DEF p
        <5> QED BY <3>3, <5>1, <5>2, SizeReads
      <4> DEFINE q == [r EXCEPT !.buf = b, !.state = "done"]
      <4>2. /\ UpTo(a, e, b) /\ e - Len(b) = p + 2 /\ Len(b) < Len(r.buf) /\ b \in Seq(Cells)
            /\ ChunkTurn(r) = q
        BY <4>1 DEF SizeLeaves
      <4>3. /\ q \in Requests /\ q.buf = b /\ q.body = r.body /\ q.chunk = 0 /\ q.state = "done" /\ q.header
            /\ q.chunked /\ q.status = a.status /\ q.length = 0
        BY <1>1, <2>1, <4>2 DEF Requests
      <4> HIDE DEF q
      <4>4. r.body = Body(a)
        BY <2>2, <2>5 DEF Body, Length
      <4>5. InChunks(a, Len(Stream(a)), q)
        BY <1>1, <4>3, <4>4 DEF InChunks
      <4>6. e - Len(q.buf) = Len(Stream(a))
        BY <3>1, <4>2, <4>3
      <4>7. Reads(a, e, q)
        BY <4>2, <4>3, <4>5, <4>6 DEF Reads, InBody
      <4> QED BY <4>2, <4>3, <4>7
    <3> QED BY <3>2, <3>3
  <2>6. CASE k # n
    <3> DEFINE i == k + 1
               v == a.sizes[i]
    <3>1. i \in 1 .. n /\ i - 1 = k
      BY <2>3, <2>6
    <3>2. v \in Nat \ {0} /\ s[End(a, i - 1) + 1] = Cell("size", v) /\ s[End(a, i - 1) + 2] = NL
      <4> HIDE DEF i
      <4> QED BY <1>1, <3>1, ChunksAre
    <3>3. s[p + 1] = Cell("size", v) /\ s[p + 2] = NL
      BY <2>2, <3>1, <3>2
    <3>4. CASE ChunkTurn(r) = r /\ Len(r.buf) < 2
      BY <1>2, <2>4, <3>4
    <3>5. CASE ~ (ChunkTurn(r) = r /\ Len(r.buf) < 2)
      <4>1. PICK b : SizeLeaves(a, e, r, p, v, b)
        <5>1. v \in Nat /\ p = e - Len(r.buf) /\ Stream(a)[p + 1] = Cell("size", v) /\ Stream(a)[p + 2] = NL
          BY <3>2, <3>3
        <5>2. r \in Requests /\ UpTo(a, e, r.buf) /\ r.state = "none" /\ r.chunk = 0
          BY <1>1, <1>5, <2>1
        <5> HIDE DEF p, v
        <5> QED BY <3>5, <5>1, <5>2, SizeReads
      <4> DEFINE q == [r EXCEPT !.buf = b, !.chunk = v]
      <4>2. /\ UpTo(a, e, b) /\ e - Len(b) = p + 2 /\ Len(b) < Len(r.buf) /\ b \in Seq(Cells)
            /\ ChunkTurn(r) = q
        BY <3>2, <4>1 DEF SizeLeaves
      <4>3. /\ q \in Requests /\ q.buf = b /\ q.body = r.body /\ q.chunk = v /\ q.state = "none" /\ q.header
            /\ q.chunked /\ q.status = a.status /\ q.length = 0
        BY <1>1, <1>5, <3>2, <4>2 DEF Requests
      <4>4. r.body = Bytes(0, T(i - 1)) /\ p + 2 = End(a, i - 1) + 2
        BY <2>2, <3>1
      <4> HIDE DEF q, v, i, p
      <4>5. q.chunk = a.sizes[i]
        BY <4>3 DEF v
      <4>6. InChunks(a, End(a, i - 1) + 2, q)
        BY <1>1, <3>1, <4>3, <4>4, <4>5 DEF InChunks
      <4>7. e - Len(q.buf) = End(a, i - 1) + 2
        BY <4>2, <4>3, <4>4
      <4>8. Reads(a, e, q)
        BY <4>2, <4>3, <4>6, <4>7 DEF Reads, InBody
      <4> QED BY <4>2, <4>3, <4>8
    <3> QED BY <3>4, <3>5
  <2> QED BY <2>5, <2>6
<1> QED BY <1>3, <1>4, <1>5

\* The loop over the chunks reads every chunk that has come.
LEMMA ChunksRead ==
  ASSUME NEW a \in Answers, NEW e, NEW r, Reads(a, e, r), r.header, r.chunked
  PROVE  LET q == ParseChunks(r)
         IN  Reads(a, e, q) /\ q.header /\ q.chunked /\ More(a, e, q)
<1> DEFINE K == {x \in Requests : Reads(a, e, x) /\ x.header /\ x.chunked}
           step == [x \in K |-> ChunkTurn(x)]
           size == [x \in K |-> Len(x.buf)]
           N == Len(r.buf)
           Up(f) == f = [n \in 0 .. N |-> IF n = 0 THEN r ELSE ChunkTurn(f[n - 1])]
           g == CHOOSE f : Up(f)
<1>1. \A x \in K : /\ ChunkTurn(x) \in K /\ Len(x.buf) \in Nat
                   /\ ChunkTurn(x) = x \/ Len(ChunkTurn(x).buf) < Len(x.buf)
  <2>1. ASSUME NEW x \in K
        PROVE  /\ ChunkTurn(x) \in K /\ Len(x.buf) \in Nat
               /\ ChunkTurn(x) = x \/ Len(ChunkTurn(x).buf) < Len(x.buf)
    <3>1. Reads(a, e, x) /\ x.header /\ x.chunked
      OBVIOUS
    <3>2. LET q == ChunkTurn(x)
          IN  Reads(a, e, q) /\ q.header /\ q.chunked /\ (q = x \/ Len(q.buf) < Len(x.buf))
      BY <3>1, ChunkTurnReads
    <3>3. ChunkTurn(x) \in Requests
      BY <3>2 DEF Reads
    <3>4. Len(x.buf) \in Nat
      BY LenProperties DEF Requests
    <3> QED BY <3>2, <3>3, <3>4
  <2> QED BY <2>1
<1>2. r \in K /\ N \in Nat
  <2>1. r \in Requests
    BY DEF Reads
  <2> QED BY <2>1, LenProperties DEF Requests
<1> HIDE DEF K
<1>3. step \in [K -> K] /\ size \in [K -> Nat] /\ \A y \in K : step[y] \in K /\ (step[y] = y \/ size[step[y]] < size[y])
  BY <1>1
<1>4. size[r] <= N
  BY <1>2
<1>5. \A y \in K : step[y] = ChunkTurn(y)
  OBVIOUS
<1> HIDE DEF step, size, N
<1>6. PICK f : Turns(N, r, step, f) /\ (\A n \in 0 .. N : f[n] \in K) /\ step[f[N]] = f[N]
  <2>1. K \subseteq K
    OBVIOUS
  <2> QED BY <1>2, <1>3, <1>4, <2>1, LoopEnds
<1>7. f = [n \in 0 .. N |-> IF n = 0 THEN r ELSE step[f[n - 1]]]
  BY <1>6, Zenon DEF Turns
<1>8. \A n \in 0 .. N : n # 0 => n - 1 \in 0 .. N
  BY <1>2
<1>9. Up(f)
  <2>1. \A n \in 0 .. N : n # 0 => step[f[n - 1]] = ChunkTurn(f[n - 1])
    BY <1>5, <1>6, <1>8
  <2>2. [n \in 0 .. N |-> IF n = 0 THEN r ELSE step[f[n - 1]]]
          = [n \in 0 .. N |-> IF n = 0 THEN r ELSE ChunkTurn(f[n - 1])]
    BY <2>1
  <2> QED BY <1>7, <2>2, Zenon
<1>10. Up(g)
  BY <1>9, Zenon
<1>11. ParseChunks(r) = g[N]
  BY Zenon DEF ParseChunks, N
<1> HIDE DEF g
<1>12. \A n \in 0 .. N : g[n] = IF n = 0 THEN r ELSE ChunkTurn(g[n - 1])
  BY <1>10, Zenon
<1>13. \A n \in 0 .. N : f[n] = IF n = 0 THEN r ELSE ChunkTurn(f[n - 1])
  BY <1>9, Zenon
<1> HIDE DEF Up
<1> DEFINE T == {n \in 0 .. N : g[n] = f[n]}
<1>14. 0 \in T
  <2>1. 0 \in 0 .. N
    BY <1>2
  <2>2. g[0] = r /\ f[0] = r
    BY <1>12, <1>13, <2>1, Zenon
  <2> QED BY <2>1, <2>2
<1>15. ASSUME NEW n \in 0 .. N - 1, n \in T PROVE n + 1 \in T
  <2>1. n + 1 \in 0 .. N /\ n + 1 # 0 /\ (n + 1) - 1 = n /\ g[n] = f[n]
    BY <1>2, <1>15
  <2>2. g[n + 1] = ChunkTurn(g[n]) /\ f[n + 1] = ChunkTurn(f[n])
    BY <1>12, <1>13, <2>1, Zenon
  <2>3. g[n + 1] = f[n + 1]
    BY <2>1, <2>2, Zenon
  <2> QED BY <2>1, <2>3
<1> HIDE DEF T
<1>16. 0 .. N \subseteq T
  BY <1>2, <1>14, <1>15, InductiveUpTo
<1>17. g[N] = f[N] /\ f[N] \in K
  <2>1. N \in 0 .. N
    BY <1>2
  <2> QED BY <1>6, <1>16, <2>1 DEF T
<1>18. ChunkTurn(f[N]) = f[N]
  BY <1>5, <1>6, <1>17
<1>19. Reads(a, e, f[N]) /\ f[N].header /\ f[N].chunked
  BY <1>17 DEF K
<1>20. More(a, e, f[N])
  <2>1. LET q == ChunkTurn(f[N])
        IN  (q = f[N] /\ More(a, e, f[N])) \/ Len(q.buf) < Len(f[N].buf)
    BY <1>19, ChunkTurnReads
  <2>2. Len(f[N].buf) \in Nat
    <3>1. f[N] \in Requests
      BY <1>19 DEF Reads
    <3> QED BY <3>1, LenProperties DEF Requests
  <2> QED BY <1>18, <2>1, <2>2
<1> QED BY <1>11, <1>17, <1>19, <1>20

\* A body of known length is read when all of it has come.
LEMMA LengthReads ==
  ASSUME NEW a \in Answers, NEW e, NEW r, Reads(a, e, r), r.header, ~r.chunked, r.state = "none"
  PROVE  LET q == ParseLength(r)
         IN  /\ Reads(a, e, q) /\ q.header /\ ~q.chunked /\ q.length = r.length
             /\ q.length > 0 => More(a, e, q)
<1> DEFINE len == Len(r.buf)
           p == e - Len(r.buf)
           s == Stream(a)
           L == Length(a)
<1>1. /\ r \in Requests /\ UpTo(a, e, r.buf) /\ InPlainBody(a, p, r) /\ r.status = a.status
      /\ r.length \in Nat /\ len \in Nat
  <2>1. r \in Requests /\ UpTo(a, e, r.buf) /\ InBody(a, p, r)
    BY DEF Reads, InHeader
  <2>2. InPlainBody(a, p, r) /\ r.status = a.status
    BY <2>1 DEF InBody, InChunks
  <2> QED BY <2>1, <2>2, LenProperties DEF Requests
<1>2. /\ a.frame # "chunked" /\ r.chunk = 0 /\ p = HeaderLength(a)
      /\ r.length = IF a.frame = "length" THEN L ELSE 0
  BY <1>1 DEF InPlainBody
<1>3. CASE r.length = 0
  <2>1. ParseLength(r) = r
    BY <1>3 DEF ParseLength
  <2> QED BY <1>3, <2>1
<1>4. CASE r.length # 0
  <2>1. a.frame = "length" /\ r.length = L /\ L \in Nat /\ L > 0
    BY <1>1, <1>2, <1>4
  <2>2. /\ p = 5 /\ Len(s) = 5 + L
        /\ \A j \in 1 .. L : s[5 + j] = Cell("byte", 0 + j)
    <3>1. /\ Len(s) = HeaderLength(a) + Len(After(a)) /\ HeaderLength(a) = 5
          /\ \A j \in 1 .. Len(After(a)) : s[HeaderLength(a) + j] = After(a)[j]
      BY <2>1, StreamIs
    <3>2. After(a) = Bytes(0, L)
      BY <2>1 DEF After, Body
    <3>3. Len(Bytes(0, L)) = L /\ \A j \in 1 .. L : Bytes(0, L)[j] = Cell("byte", 0 + j)
      BY <2>1, BytesIs
    <3> HIDE DEF s, L
    <3>4. Len(s) = 5 + L /\ \A j \in 1 .. L : s[5 + j] = Cell("byte", 0 + j)
      BY <3>1, <3>2, <3>3
    <3> QED BY <1>2, <3>1, <3>4
  <2>3. e \in Nat /\ e <= 5 + L /\ e = 5 + len
    <3>1. e \in Nat /\ e <= Len(s) /\ e - len = 5
      BY <1>1, <2>2 DEF UpTo
    <3> HIDE DEF len, s, L
    <3> QED BY <1>1, <2>1, <2>2, <3>1
  <2>4. CASE len >= L
    <3>1. len = L /\ e = Len(s)
      <4> HIDE DEF len, L, s
      <4> QED BY <1>1, <2>1, <2>2, <2>3, <2>4
    <3> DEFINE f == First(r, r.length)
    <3>2. f = SubSeq(r.buf, 1, L)
      BY <2>1, <3>1 DEF First
    <3>3. f \in Seq(Cells) /\ Len(f) = L /\ \A j \in 1 .. L : f[j] = r.buf[j]
      <4>1. L \in 0 .. Len(r.buf) /\ r.buf \in Seq(Cells)
        BY <1>1, <2>1, <3>1 DEF Requests
      <4> HIDE DEF L, f
      <4> QED BY <3>2, <4>1, RestIs
    <3>4. \A j \in 1 .. L : f[j] = Cell("byte", 0 + j)
      <4>1. \A j \in 1 .. len : r.buf[j] = s[5 + j]
        BY <1>1, <2>2 DEF UpTo
      <4> HIDE DEF L, f, len, s
      <4> QED BY <2>2, <3>1, <3>3, <4>1
    <3>5. f = Body(a)
      <4> DEFINE y == Bytes(0, L)
      <4>1. y \in Seq(Cells) /\ Len(y) = L /\ \A j \in 1 .. L : y[j] = Cell("byte", 0 + j)
        BY <2>1, BytesIs
      <4>2. y = Body(a)
        BY DEF Body
      <4> HIDE DEF f, y, L
      <4>3. f = y
        <5>1. f \in Seq(Cells) /\ y \in Seq(Cells) /\ Len(f) = Len(y) /\ \A j \in 1 .. Len(f) : f[j] = y[j]
          BY <3>3, <3>4, <4>1
        <5> QED BY ONLY <5>1, SeqEqual
      <4> QED BY <4>2, <4>3
    <3>6. PICK b : Leaves(a, e, r, L, b)
      <4>1. r \in Requests /\ UpTo(a, e, r.buf) /\ L \in 0 .. Len(r.buf)
        BY <1>1, <2>1, <3>1
      <4> HIDE DEF L
      <4> QED BY ONLY <4>1, TakenUpTo
    <3>7. UpTo(a, e, b) /\ b \in Seq(Cells) /\ e - Len(b) = p + L
      BY <3>6 DEF Rest, Leaves
    <3>8. e - Len(b) = Len(s)
      BY <2>2, <3>7
    <3> DEFINE q == [r EXCEPT !.buf = b, !.body = Body(a), !.state = "done"]
    <3>9. ParseLength(r) = q
      <4>1. ParseLength(r) = [Taken(r, r.length) EXCEPT !.body = f, !.state = "done"]
        BY <2>1, <3>1 DEF ParseLength
      <4>2. Taken(r, r.length) = [r EXCEPT !.buf = b]
        BY <2>1, <3>6 DEF Leaves
      <4>3. ParseLength(r) = [[r EXCEPT !.buf = b] EXCEPT !.body = Body(a), !.state = "done"]
        BY <3>5, <4>1, <4>2
      <4> QED BY <1>1, <4>3 DEF Requests
    <3>10. Body(a) \in Seq(Cells)
      BY <2>1, BytesIs DEF Body
    <3>11. /\ q \in Requests /\ q.buf = b /\ q.body = Body(a) /\ q.state = "done" /\ q.header /\ ~q.chunked
           /\ q.chunk = 0 /\ q.status = a.status /\ q.length = r.length
      BY <1>1, <1>2, <3>7, <3>10 DEF Requests
    <3> HIDE DEF q
    <3>12. InPlainBody(a, Len(Stream(a)), q)
      BY <2>1, <3>11 DEF InPlainBody
    <3>13. Reads(a, e, q)
      BY <3>7, <3>8, <3>11, <3>12 DEF Reads, InBody
    <3>14. More(a, e, q)
      BY <3>11 DEF More
    <3> QED BY <3>9, <3>11, <3>13, <3>14
  <2>5. CASE ~ (len >= L)
    <3>1. ParseLength(r) = r
      BY <2>1, <2>5 DEF ParseLength
    <3>2. e < Len(s)
      <4> HIDE DEF len, L, s
      <4> QED BY <1>1, <2>1, <2>2, <2>3, <2>5
    <3>3. More(a, e, r)
      BY <3>2 DEF More
    <3> QED BY <3>1, <3>3
  <2> QED BY <2>4, <2>5
<1> QED BY <1>3, <1>4

\* What http_parse has left in recvbuf is not enough to go on.
Enough(a, e, q) ==
  /\ ~q.header => e < HeaderLength(a)
  /\ q.header /\ (q.chunked \/ q.length > 0) => More(a, e, q)

\* The header is over as soon as its last line has come.
LEMMA HeaderOver ==
  ASSUME NEW a \in Answers, NEW e, NEW r, Reads(a, e, r), ~r.header,
         r.status > 0 \/ FirstEol(r) = 0, HeaderTurn(r) = r
  PROVE  e < HeaderLength(a)
<1> DEFINE p == e - Len(r.buf)
           s == Stream(a)
<1>1. r \in Requests /\ UpTo(a, e, r.buf) /\ InHeader(a, p, r) /\ r.status \in Nat /\ Len(r.buf) \in Nat
  <2>1. r \in Requests /\ UpTo(a, e, r.buf) /\ InHeader(a, p, r)
    BY DEF Reads, InBody
  <2> QED BY <2>1, LenProperties DEF Requests
<1>2. FirstEol(r) = 0
  <2>1. LET q == HeaderTurn(r)
        IN  \/ q = r /\ (r.status <= 0 \/ r.header \/ FirstEol(r) = 0)
            \/ q.status > 0 /\ Len(q.buf) < Len(r.buf)
    BY HeaderTurnReads
  <2> QED BY <1>1, <2>1
<1>3. /\ s[1].t # "nl" /\ s[2] = NL
      /\ a.frame = "close" => HeaderLength(a) = 3 /\ s[3] = NL
      /\ a.frame # "close" => HeaderLength(a) = 5 /\ s[3].t # "nl" /\ s[4] = NL /\ s[5] = NL
  <2>1. a.status \in Nat /\ Length(a) \in Nat
    BY AnswerIs
  <2>2. Cell("status", a.status).t # "nl" /\ Field(a).t # "nl"
    BY <2>1, CellIs DEF Field
  <2> QED BY <2>2, StreamIs
<1>4. CASE p = 0
  <2>1. s[p + 1].t # "nl" /\ s[p + 2] = NL
    BY <1>3, <1>4
  <2>2. Len(r.buf) < 2 /\ e = p + Len(r.buf)
    <3>1. /\ a \in Answers /\ r \in Requests /\ UpTo(a, e, r.buf) /\ p = e - Len(r.buf)
          /\ Stream(a)[p + 1].t # "nl" /\ Stream(a)[p + 2] = NL /\ FirstEol(r) = 0
      BY <1>1, <1>2, <2>1
    <3> HIDE DEF p
    <3> QED BY ONLY <3>1, LineFound
  <2>3. HeaderLength(a) \in {3, 5}
    BY StreamIs
  <2> QED BY <1>1, <1>4, <2>2, <2>3
<1>5. CASE p = 2 /\ a.frame # "close"
  <2>1. s[p + 1].t # "nl" /\ s[p + 2] = NL
    BY <1>3, <1>5
  <2>2. Len(r.buf) < 2 /\ e = p + Len(r.buf)
    <3>1. /\ a \in Answers /\ r \in Requests /\ UpTo(a, e, r.buf) /\ p = e - Len(r.buf)
          /\ Stream(a)[p + 1].t # "nl" /\ Stream(a)[p + 2] = NL /\ FirstEol(r) = 0
      BY <1>1, <1>2, <2>1
    <3> HIDE DEF p
    <3> QED BY ONLY <3>1, LineFound
  <2>3. HeaderLength(a) = 5
    BY <1>3, <1>5
  <2> QED BY <1>1, <1>5, <2>2, <2>3
<1>6. CASE (p = 2 /\ a.frame = "close") \/ (p = 4 /\ a.frame # "close")
  <2>1. s[p + 1] = NL /\ p + 1 = HeaderLength(a)
    BY <1>3, <1>6
  <2>2. Len(r.buf) = 0 /\ e = p + Len(r.buf) /\ p \in Nat
    <3>1. /\ a \in Answers /\ r \in Requests /\ UpTo(a, e, r.buf) /\ p = e - Len(r.buf)
          /\ Stream(a)[p + 1] = NL /\ FirstEol(r) = 0
      BY <1>1, <1>2, <2>1
    <3> HIDE DEF p
    <3> QED BY ONLY <3>1, BlankFound
  <2> QED BY <2>1, <2>2
<1> QED BY <1>1, <1>4, <1>5, <1>6 DEF InHeader

\* What http_parse keeps when a piece of the answer has come, and that it leaves nothing it could read.
LEMMA ParseReads ==
  ASSUME NEW a \in Answers, NEW e, NEW r, Reads(a, e, r), r.state = "none"
  PROVE  LET q == ParseBody(ParseHeader(ParseStatus(r)))
         IN  Reads(a, e, q) /\ Enough(a, e, q)
<1> DEFINE x == ParseStatus(r)
           h == ParseHeader(x)
           q == ParseBody(h)
<1>1. Reads(a, e, x) /\ x.state = "none" /\ (x.status > 0 \/ FirstEol(x) = 0)
  BY StatusReads
<1> HIDE DEF x
<1>2. Reads(a, e, h) /\ h.state = "none" /\ (h.status > 0 \/ FirstEol(h) = 0) /\ HeaderTurn(h) = h
  BY <1>1, HeaderReads
<1> HIDE DEF h
<1>3. CASE ~h.header
  <2>1. q = h
    BY <1>3 DEF ParseBody
  <2>2. e < HeaderLength(a)
    BY <1>2, <1>3, HeaderOver
  <2> QED BY <1>2, <1>3, <2>1, <2>2 DEF Enough, x, h
<1>4. CASE h.header /\ h.chunked
  <2>1. q = ParseChunks(h)
    BY <1>4 DEF ParseBody
  <2>2. Reads(a, e, q) /\ q.header /\ More(a, e, q)
    BY <1>2, <1>4, <2>1, ChunksRead
  <2> QED BY <2>2 DEF Enough, x, h
<1>5. CASE h.header /\ ~h.chunked
  <2>1. q = ParseLength(h)
    BY <1>5 DEF ParseBody
  <2>2. Reads(a, e, q) /\ q.header /\ ~q.chunked /\ (q.length > 0 => More(a, e, q))
    BY <1>2, <1>5, <2>1, LengthReads
  <2> QED BY <2>2 DEF Enough, x, h
<1> QED BY <1>3, <1>4, <1>5

\* w is what stands in the stream behind cell e, or the beginning of it.
Ahead(a, e, w) ==
  w \in Seq(Cells) /\ e + Len(w) <= Len(Stream(a)) /\ \A j \in 1 .. Len(w) : w[j] = Stream(a)[e + j]

\* What has come of the answer is its first e cells, req is what http_parse keeps of them when it can read no
\* more, and net is what follows them up to where the connection ends.
Follows(e) ==
  /\ Reads(answer, e, req) /\ Enough(answer, e, req) /\ req.state = "none" /\ Ahead(answer, e, net)
  /\ cut = "no" => e + Len(net) = Len(Stream(answer))
  /\ cut = "body" => HeaderLength(answer) <= e + Len(net) /\ e + Len(net) < Len(Stream(answer))

\* Nothing is told before the end, and unless recvbuf has lost something the request is where the answer is.
Underway ==
  /\ told = Nothing /\ (cut # "no" => closed)
  /\ ~overrun => \E e \in 0 .. Len(Stream(answer)) : Follows(e)

\* The invariant of the HTTP client that is inductive
HttpInv ==
  /\ answer \in Answers /\ owner \in {"rss", "search"}
  /\ RightAnswer
  /\ ~loaded /\ owner = "rss" => stage = "none"
  /\ stage = "waiting" => req = NewRequest /\ told = Nothing /\ cut = "no" /\ ~overrun
  /\ stage = "up" => Underway

\* What a plugin is called back with
Told(q) == [state |-> IF q.state = "done" THEN "done" ELSE "err", status |-> q.status, body |-> q.body]

\* A request that is done is told as the answer it is.
LEMMA DoneReads ==
  ASSUME NEW a \in Answers, NEW e, NEW q, Reads(a, e, q), q.state = "done"
  PROVE  Told(HttpParse([q EXCEPT !.buf = <<>>], TRUE)) = Expected(a) /\ Told(q) = Expected(a)
<1>1. q \in Requests /\ q.status = a.status /\ q.body = Body(a) /\ (a.frame = "chunked" \/ Length(a) > 0)
  BY DEF Reads, InHeader, InBody, InPlainBody, InChunks
<1>2. a.frame = "chunked" \/ a.sizes # <<>>
  BY <1>1, LengthIs
<1>3. Expected(a) = [state |-> "done", status |-> a.status, body |-> Body(a)]
  BY <1>2 DEF Expected
<1>4. /\ [q EXCEPT !.buf = <<>>].state = "done" /\ [q EXCEPT !.buf = <<>>].status = q.status
      /\ [q EXCEPT !.buf = <<>>].body = q.body
  BY <1>1 DEF Requests
<1>5. HttpParse([q EXCEPT !.buf = <<>>], TRUE) = [q EXCEPT !.buf = <<>>]
  BY <1>4 DEF HttpParse
<1> QED BY <1>1, <1>3, <1>4, <1>5 DEF Told

\* Without framing, what is in recvbuf at the end of the answer is the body.
LEMMA RestIsBody ==
  ASSUME NEW a \in Answers, NEW e, NEW q, Reads(a, e, q), e = Len(Stream(a)),
         e - Len(q.buf) = HeaderLength(a), a.frame # "chunked"
  PROVE  q.buf = Body(a)
<1> DEFINE len == Len(q.buf)
           h == HeaderLength(a)
           s == Stream(a)
           y == Body(a)
<1>1. /\ q.buf \in Seq(Cells) /\ len \in Nat /\ e \in Nat /\ \A j \in 1 .. len : q.buf[j] = s[(e - len) + j]
  BY LenProperties DEF Reads, UpTo
<1>2. /\ Len(s) = h + Len(y) /\ h \in Nat /\ \A j \in 1 .. Len(y) : s[h + j] = y[j]
  <2>1. After(a) = y
    BY DEF After
  <2> QED BY <2>1, StreamIs, SMTT(30)
<1>3. y \in Seq(Cells) /\ Len(y) \in Nat
  BY AnswerIs, BytesIs DEF Body
<1>4. e = Len(s) /\ e - len = h
  OBVIOUS
<1> HIDE DEF len, h, s, y
<1>5. len = Len(y)
  BY <1>1, <1>2, <1>3, <1>4
<1>6. \A j \in 1 .. len : q.buf[j] = y[j]
  BY <1>1, <1>2, <1>4, <1>5
<1>7. q.buf = y
  <2>1. Len(q.buf) = Len(y) /\ \A j \in 1 .. Len(q.buf) : q.buf[j] = y[j]
    BY <1>5, <1>6 DEF len
  <2>2. q.buf \in Seq(Cells) /\ y \in Seq(Cells)
    BY <1>1, <1>3
  <2> QED BY ONLY <2>1, <2>2, SeqEqual
<1> QED BY <1>7 DEF y

\* What is told at the end of the stream: the answer when it is whole, and no page that has an end when it is not.
LEMMA EndReads ==
  ASSUME NEW a \in Answers, NEW e, NEW r, Reads(a, e, r), r.state = "none"
  PROVE  LET q == HttpParse(r, TRUE)
         IN  /\ e = Len(Stream(a)) => Told(q) = Expected(a)
             /\ HeaderLength(a) <= e /\ e < Len(Stream(a)) /\ a.frame # "close" => q.state # "done"
<1> DEFINE x == ParseBody(ParseHeader(ParseStatus(r)))
           q == NoMoreData(x)
           p == e - Len(x.buf)
           s == Stream(a)
           h == HeaderLength(a)
<1>1. HttpParse(r, TRUE) = q
  BY DEF HttpParse
<1>2. Reads(a, e, x) /\ Enough(a, e, x)
  BY ParseReads
<1> HIDE DEF x
<1>3. /\ x \in Requests /\ UpTo(a, e, x.buf) /\ e \in Nat /\ Len(x.buf) \in Nat /\ e <= Len(s)
      /\ h \in {3, 5} /\ Len(s) \in Nat /\ h <= Len(s) /\ p \in Nat
  <2>1. x \in Requests /\ UpTo(a, e, x.buf) /\ e \in Nat /\ e <= Len(s) /\ Len(x.buf) <= e
    BY <1>2 DEF Reads, UpTo
  <2>2. Len(x.buf) \in Nat
    BY <2>1, LenProperties DEF Requests
  <2>3. Len(s) = h + Len(After(a)) /\ h \in {3, 5} /\ Len(After(a)) \in Nat
    BY StreamIs, AfterType
  <2> HIDE DEF s, h
  <2> QED BY <2>1, <2>2, <2>3
<1>4. CASE e < h
  <2>1. ~ (e = Len(s)) /\ ~ (h <= e)
    BY <1>3, <1>4
  <2> QED BY <1>1, <2>1
<1>5. CASE ~ (e < h)
  <2>1. x.header /\ InBody(a, p, x) /\ x.status = a.status
    BY <1>2, <1>5 DEF Enough, Reads, InHeader, InBody
  <2>2. CASE x.state = "done"
    <3>1. q = x
      <4>1. x.chunked \/ x.length # 0
        BY <2>1, <2>2, <1>3 DEF InBody, InChunks, InPlainBody, Requests
      <4> QED BY <2>2, <4>1 DEF NoMoreData
    <3>2. Told(x) = Expected(a)
      BY <1>2, <2>2, DoneReads
    <3>3. p = Len(s)
      BY <2>1, <2>2 DEF InBody, InChunks, InPlainBody
    <3>4. ~ (e < Len(s))
      BY <1>3, <3>3
    <3> QED BY <1>1, <3>1, <3>2, <3>4
  <2>3. CASE x.state # "done" /\ (x.chunked \/ x.length # 0)
    <3>1. x.state = "none"
      BY <1>2, <2>3 DEF Reads, InHeader, InBody, InPlainBody, InChunks
    <3>2. x.length > 0 \/ x.chunked
      <4>1. x.length \in Nat
        BY <1>3 DEF Requests
      <4> QED BY <2>3, <4>1
    <3>3. e < Len(s)
      BY <1>2, <2>1, <3>1, <3>2 DEF Enough, More
    <3>4. q.state # "done"
      <4>1. [x EXCEPT !.state = "err", !.body = <<>>].state = "err"
        BY <1>3 DEF Requests
      <4>2. [[x EXCEPT !.state = "err", !.body = <<>>] EXCEPT !.status = 0].state = "err"
        BY <1>3 DEF Requests
      <4> QED BY <2>3, <3>1, <4>1, <4>2 DEF NoMoreData
    <3>5. ~ (e = Len(s))
      BY <1>3, <3>3
    <3> HIDE DEF q
    <3> QED BY <1>1, <3>4, <3>5
  <2>4. CASE x.state # "done" /\ ~x.chunked /\ x.length = 0
    <3>1. /\ a.frame # "chunked" /\ p = h /\ x.state = "none" /\ x.body = <<>>
          /\ (a.frame = "length" => Length(a) = 0)
      BY <2>1, <2>4 DEF InBody, InChunks, InPlainBody
    <3>2. ASSUME h <= e, e < Len(s), a.frame # "close" PROVE FALSE
      <4>1. a.frame = "length" /\ Length(a) = 0
        BY <3>1, <3>2, AnswerIs
      <4>2. After(a) = Bytes(0, 0) /\ Len(Bytes(0, 0)) = 0
        BY <4>1, BytesIs DEF After, Body
      <4>3. Len(s) = h + 0
        BY <4>2, StreamIs
      <4> QED BY <1>3, <3>2, <4>3
    <3>3. ASSUME e = Len(s) PROVE Told(q) = Expected(a)
      <4>1. x.buf = Body(a)
        <5>1. /\ a \in Answers /\ Reads(a, e, x) /\ e = Len(Stream(a)) /\ e - Len(x.buf) = HeaderLength(a)
              /\ a.frame # "chunked"
          BY <1>2, <3>1, <3>3
        <5> QED BY ONLY <5>1, RestIsBody
      <4>2. CASE a.sizes = <<>>
        <5>1. x.buf = <<>>
          <6>1. Length(a) = 0
            BY <4>2, LengthIs
          <6>2. Bytes(0, 0) = <<>>
            BY DEF Bytes
          <6> QED BY <4>1, <6>1, <6>2 DEF Body
        <5> DEFINE y == [x EXCEPT !.state = "err"]
        <5>2. y.state = "err" /\ y.status = a.status /\ y.body = <<>>
          BY <1>3, <2>1, <3>1 DEF Requests
        <5>3. q = IF y.status = 200 THEN [y EXCEPT !.status = 0] ELSE y
          BY <2>4, <5>1, <5>2 DEF NoMoreData
        <5>4. /\ [y EXCEPT !.status = 0].state = "err" /\ [y EXCEPT !.status = 0].status = 0
              /\ [y EXCEPT !.status = 0].body = <<>>
          BY <1>3, <5>2 DEF Requests
        <5>5. q.state = "err" /\ q.status = (IF a.status = 200 THEN 0 ELSE a.status) /\ q.body = <<>>
          <6> HIDE DEF y, q
          <6> QED BY <5>2, <5>3, <5>4
        <5>6. Expected(a) = [state |-> "err", status |-> IF a.status = 200 THEN 0 ELSE a.status, body |-> <<>>]
          BY <3>1, <4>2 DEF Expected
        <5> QED BY <5>5, <5>6 DEF Told
      <4>3. CASE a.sizes # <<>>
        <5>1. x.buf # <<>>
          <6>1. Length(a) # 0 /\ Length(a) \in Nat
            BY <4>3, LengthIs, AnswerIs
          <6>2. Len(Body(a)) = Length(a)
            BY <6>1, BytesIs DEF Body
          <6> QED BY <4>1, <6>1, <6>2, EmptySeq
        <5> DEFINE y == [x EXCEPT !.body = x.buf, !.buf = <<>>, !.state = "done"]
        <5>2. y.state = "done" /\ y.status = a.status /\ y.body = Body(a)
          BY <1>3, <2>1, <4>1 DEF Requests
        <5>3. q = y
          BY <2>4, <5>1, <5>2 DEF NoMoreData
        <5>4. Expected(a) = [state |-> "done", status |-> a.status, body |-> Body(a)]
          BY <3>1, <4>3 DEF Expected
        <5> HIDE DEF y, q
        <5> QED BY <5>2, <5>3, <5>4 DEF Told
      <4> QED BY <4>2, <4>3
    <3> QED BY <1>1, <3>2, <3>3
  <2> QED BY <2>2, <2>3, <2>4
<1> QED BY <1>4, <1>5

\* recvbuf of r when n cells of w have come
Got(r, w, n) == [r EXCEPT !.buf = @ \o SubSeq(w, 1, n)]

\* The next n cells of the stream have come into recvbuf, and fit.
LEMMA Received ==
  ASSUME NEW a \in Answers, NEW e, NEW r, Reads(a, e, r), r.state = "none",
         NEW w, Ahead(a, e, w), NEW n \in 0 .. Len(w), Len(r.buf) + n < Size
  PROVE  Reads(a, e + n, Got(r, w, n)) /\ Got(r, w, n).state = "none"
<1> DEFINE len == Len(r.buf)
           s == Stream(a)
           c == SubSeq(w, 1, n)
           b == r.buf \o c
<1>1. /\ r \in Requests /\ r.buf \in Seq(Cells) /\ len \in Nat /\ e \in Nat /\ len <= e
      /\ \A j \in 1 .. len : r.buf[j] = s[(e - len) + j]
  BY LenProperties DEF Reads, UpTo, Requests
<1>2. c \in Seq(Cells) /\ Len(c) = n /\ \A j \in 1 .. n : c[j] = w[j]
  BY RestIs DEF Ahead
<1>3. /\ Len(w) \in Nat /\ n \in Nat /\ n <= Len(w) /\ e + Len(w) <= Len(s)
      /\ \A j \in 1 .. Len(w) : w[j] = s[e + j]
  BY LenProperties DEF Ahead
<1>4. Len(s) \in Nat
  <2>1. s \in Seq(Cells)
    BY StreamIs
  <2> QED BY <2>1, LenProperties
<1> HIDE DEF s, c
<1>5. /\ b \in Seq(Cells) /\ Len(b) = len + n
      /\ \A j \in 1 .. len : b[j] = r.buf[j]
      /\ \A j \in 1 .. n : b[len + j] = c[j]
  <2>1. r.buf \in Seq(Cells) /\ c \in Seq(Cells)
    BY <1>1, <1>2
  <2>2. /\ b \in Seq(Cells) /\ Len(b) = Len(r.buf) + Len(c)
        /\ \A j \in 1 .. Len(r.buf) : b[j] = r.buf[j]
        /\ \A j \in 1 .. Len(c) : b[Len(r.buf) + j] = c[j]
    BY ONLY <2>1, Joined
  <2> QED BY <1>2, <2>2
<1> DEFINE g == [r EXCEPT !.buf = @ \o SubSeq(w, 1, n)]
<1>6. /\ g \in Requests /\ g.buf = b /\ g.state = "none" /\ g.status = r.status /\ g.header = r.header
      /\ g.fields = r.fields /\ g.chunked = r.chunked /\ g.length = r.length /\ g.chunk = r.chunk /\ g.body = r.body
  BY <1>1, <1>5 DEF Requests, c
<1> HIDE DEF g, b
<1>7. (e + n) - (len + n) = e - len
  BY <1>1, <1>3
<1>8. UpTo(a, e + n, g.buf)
  <2>1. e + n \in Nat /\ e + n <= Len(s) /\ len + n <= e + n /\ len + n < Size
    <3> QED BY <1>1, <1>3, <1>4
  <2>2. ASSUME NEW j \in 1 .. len + n PROVE b[j] = s[(e - len) + j]
    <3>1. CASE j <= len
      <4>1. j \in 1 .. len
        BY <1>1, <1>3, <3>1
      <4> QED BY <1>1, <1>5, <4>1
    <3>2. CASE ~ (j <= len)
      <4> DEFINE i == j - len
      <4>1. i \in 1 .. n /\ len + i = j /\ (e - len) + j = e + i /\ i \in 1 .. Len(w)
        BY <1>1, <1>3, <3>2
      <4> HIDE DEF i
      <4>2. b[len + i] = c[i] /\ c[i] = w[i] /\ w[i] = s[e + i]
        BY <1>2, <1>3, <1>5, <4>1
      <4> QED BY <4>1, <4>2
    <3> QED BY <3>1, <3>2
  <2>3. b \in Seq(Cells) /\ Len(b) = len + n
    BY <1>5
  <2> HIDE DEF len
  <2>4. \A j \in 1 .. Len(b) : b[j] = s[((e + n) - Len(b)) + j]
    BY <1>7, <2>2, <2>3
  <2>5. Len(b) <= e + n /\ Len(b) < Size
    BY <2>1, <2>3
  <2> QED BY <1>6, <2>1, <2>3, <2>4, <2>5 DEF UpTo, s
<1>9. (e + n) - Len(g.buf) = e - len
  BY <1>5, <1>6, <1>7
<1>10. InHeader(a, e - len, r) \/ InBody(a, e - len, r)
  BY DEF Reads
<1> HIDE DEF len
<1>11. InHeader(a, e - len, g) \/ InBody(a, e - len, g)
  <2>1. CASE InHeader(a, e - len, r)
    BY <1>6, <2>1 DEF InHeader
  <2>2. CASE InBody(a, e - len, r)
    <3>1. CASE InPlainBody(a, e - len, r)
      <4>1. InPlainBody(a, e - len, g)
        BY <1>6, <3>1 DEF InPlainBody
      <4> QED BY <1>6, <2>2, <4>1 DEF InBody
    <3>2. CASE InChunks(a, e - len, r)
      <4>1. InChunks(a, e - len, g)
        BY <1>6, <3>2 DEF InChunks
      <4> QED BY <1>6, <2>2, <4>1 DEF InBody
    <3> QED BY <2>2, <3>1, <3>2 DEF InBody
  <2> QED BY <1>10, <2>1, <2>2
<1>12. Reads(a, e + n, g)
  BY <1>6, <1>8, <1>9, <1>11 DEF Reads
<1> QED BY <1>6, <1>12 DEF g, Got

\* A request that begins has read nothing.
LEMMA NewReads ==
  ASSUME NEW a \in Answers
  PROVE  /\ Reads(a, 0, NewRequest) /\ NewRequest.state = "none" /\ Stream(a) \in Seq(Cells)
         /\ Len(Stream(a)) \in Nat
<1>1. Stream(a) \in Seq(Cells) /\ Len(Stream(a)) \in Nat
  BY StreamIs, LenProperties
<1>2. <<>> \in Seq(Cells) /\ Len(<<>>) = 0
  BY EmptySeq
<1>3. NewRequest \in Requests /\ NewRequest.buf = <<>>
  BY <1>2 DEF NewRequest, Requests
<1>4. UpTo(a, 0, <<>>)
  BY <1>1, <1>2, HttpAssumption DEF UpTo
<1>5. InHeader(a, 0, NewRequest)
  BY DEF InHeader, NewRequest
<1>6. 0 - Len(NewRequest.buf) = 0
  <2>1. Len(NewRequest.buf) = 0
    BY <1>2, <1>3
  <2> QED BY <2>1
<1>7. Reads(a, 0, NewRequest)
  BY <1>3, <1>4, <1>5, <1>6 DEF Reads
<1> QED BY <1>1, <1>7 DEF NewRequest

\* Nothing has been told when a request begins.
LEMMA HttpInitInv == HttpInit => HttpInv
<1> SUFFICES ASSUME HttpInit PROVE HttpInv
  OBVIOUS
<1>1. RightAnswer
  BY DEF HttpInit, RightAnswer, Nothing
<1> QED BY <1>1 DEF HttpInit, HttpInv

\* A request that begins forgets the one before.
LEMMA StartKeeps ==
  ASSUME HttpInv, NEW p \in {"rss", "search"}, Start(p), loaded
  PROVE  HttpInv'
<1>1. /\ owner' = p /\ answer' \in Answers /\ req' = NewRequest /\ cut' = "no" /\ overrun' = FALSE
      /\ told' = Nothing /\ stage' \in {"waiting", "none", "leaked"} /\ loaded'
  BY DEF Start
<1>2. RightAnswer'
  BY <1>1 DEF RightAnswer, Nothing
<1> QED BY <1>1, <1>2 DEF HttpInv

\* The plugin is unloaded or loaded.
LEMMA UnloadKeeps ==
  ASSUME HttpInv, HttpUnload \/ HttpLoad
  PROVE  HttpInv'
<1>1. /\ answer' = answer /\ owner' = owner /\ req' = req /\ net' = net /\ closed' = closed /\ cut' = cut
      /\ overrun' = overrun /\ told' = told
  BY DEF HttpUnload, HttpLoad, request
<1>2. RightAnswer'
  BY <1>1 DEF HttpInv, RightAnswer
<1>3. stage' = stage \/ stage' = "none"
  BY DEF HttpUnload, HttpLoad, request, Destroyed
<1>5. (~loaded /\ owner = "rss" => stage = "none")'
  BY <1>1, <1>3 DEF HttpInv, HttpUnload, HttpLoad, Destroyed
<1>6. (stage = "waiting" => req = NewRequest /\ told = Nothing /\ cut = "no" /\ ~overrun)'
  BY <1>1, <1>3 DEF HttpInv
<1>7. (stage = "up" => Underway)'
  BY <1>1, <1>3 DEF HttpInv, Underway, Follows, Ahead, Enough, More
<1>8. answer' \in Answers /\ owner' \in {"rss", "search"}
  BY <1>1 DEF HttpInv
<1> QED BY <1>2, <1>5, <1>6, <1>7, <1>8 DEF HttpInv

\* The callback with q: what is told has to be right.
LEMMA CallBackKeeps ==
  ASSUME HttpInv, NEW q, CallBack(q), stage \in {"waiting", "up"},
         ~overrun' => /\ cut' = "no" => Told(q) = Expected(answer)
                      /\ cut' = "body" /\ answer.frame # "close" /\ q.state = "done" => Told(q) = Expected(answer)
  PROVE  HttpInv'
<1>1. /\ stage' = (IF loaded THEN "none" ELSE "crashed") /\ told' = Told(q)
      /\ owner' = owner /\ loaded' = loaded /\ answer' = answer
  BY DEF CallBack, Told
<1>2. told'.state = "done" => q.state = "done"
  BY <1>1 DEF Told
<1>3. Expected(answer)' = Expected(answer)
  BY <1>1 DEF Expected, Body, Length, Total, Bytes, Cell
<1>4. RightAnswer'
  BY <1>1, <1>2, <1>3 DEF RightAnswer
<1>5. ~loaded => owner = "search"
  BY DEF HttpInv
<1>6. (~loaded /\ owner = "rss" => stage = "none")'
  BY <1>1, <1>5
<1> QED BY <1>1, <1>4, <1>6 DEF HttpInv

\* The connection is there, and the answer under way.
LEMMA ConnectedKeeps ==
  ASSUME HttpInv, Connected
  PROVE  HttpInv'
<1>1. /\ stage = "waiting" /\ stage' = "up" /\ net' = Stream(answer) /\ owner' = owner /\ loaded' = loaded
      /\ req' = req /\ closed' = closed /\ answer' = answer /\ cut' = cut /\ overrun' = overrun /\ told' = told
  BY DEF Connected
<1>2. RightAnswer'
  BY <1>1 DEF HttpInv, RightAnswer
<1>3. (~loaded /\ owner = "rss" => stage = "none")'
  BY <1>1 DEF HttpInv
<1>4. req' = NewRequest /\ told' = Nothing /\ cut' = "no"
  BY <1>1 DEF HttpInv
<1>5. answer \in Answers
  BY DEF HttpInv
<1>6. Follows(0)'
  <2>1. /\ Reads(answer, 0, NewRequest) /\ NewRequest.state = "none" /\ Stream(answer) \in Seq(Cells)
        /\ Len(Stream(answer)) \in Nat
    BY <1>5, NewReads
  <2> DEFINE s == Stream(answer)
  <2>2. \A j \in 1 .. Len(s) : s[j] = s[0 + j]
    <3> HIDE DEF s
    <3>1. \A j \in 1 .. Len(s) : 0 + j = j
      OBVIOUS
    <3> QED BY <3>1
  <2>3. 0 + Len(s) <= Len(s) /\ 0 + Len(s) = Len(s)
    BY <2>1
  <2>4. answer' = answer /\ net' = s /\ req' = NewRequest /\ cut' = "no"
    BY <1>1, <1>4
  <2>5. /\ Reads(answer', 0, req') /\ req'.state = "none" /\ net' \in Seq(Cells)
        /\ \A j \in 1 .. Len(net') : net'[j] = Stream(answer')[0 + j]
        /\ 0 + Len(net') <= Len(Stream(answer')) /\ 0 + Len(net') = Len(Stream(answer'))
    <3> DEFINE t == Stream(answer')
    <3>1. t = s
      BY <2>4
    <3> HIDE DEF s, t
    <3> QED BY <2>1, <2>2, <2>3, <2>4, <3>1 DEF s, t
  <2>6. Enough(answer', 0, req')
    <3>1. HeaderLength(answer) \in {3, 5} /\ ~NewRequest.header
      BY <1>5, StreamIs DEF NewRequest
    <3> QED BY <2>4, <3>1 DEF Enough
  <2> QED BY <2>4, <2>5, <2>6 DEF Follows, Ahead
<1>7. Underway'
  <2>1. 0 \in 0 .. Len(Stream(answer'))
    BY <1>1, <1>5, NewReads
  <2> QED BY <1>4, <1>6, <2>1 DEF Underway
<1>8. (stage = "waiting" => req = NewRequest /\ told = Nothing /\ cut = "no" /\ ~overrun)'
  BY <1>1
<1>9. answer' \in Answers /\ owner' \in {"rss", "search"}
  BY <1>1 DEF HttpInv
<1> QED BY <1>2, <1>3, <1>7, <1>8, <1>9 DEF HttpInv

\* A request that never gets an answer tells nothing.
LEMMA SilentKeeps ==
  ASSUME HttpInv, GoesSilent
  PROVE  HttpInv'
<1>1. /\ stage \in {"waiting", "up"} /\ stage' \in {"lost", "silent"} /\ owner' = owner /\ loaded' = loaded
      /\ answer' = answer /\ cut' = cut /\ overrun' = overrun /\ told' = told
  BY DEF GoesSilent
<1>2. RightAnswer'
  BY <1>1 DEF HttpInv, RightAnswer
<1>3. (~loaded /\ owner = "rss" => stage = "none")'
  BY <1>1 DEF HttpInv
<1> QED BY <1>1, <1>2, <1>3 DEF HttpInv

\* No address or no connection is an error that the plugin is told of.
LEMMA NotConnectedKeeps ==
  ASSUME HttpInv, NotConnected
  PROVE  HttpInv'
<1> DEFINE q == HttpParse(req, TRUE)
<1>1. CallBack(q) /\ stage = "waiting" /\ cut' = "header"
  BY DEF NotConnected, CbErr
<1> HIDE DEF q
<1> QED BY <1>1, CallBackKeeps

\* The server ends the connection, be it before the end of the answer.
LEMMA ClosesKeeps ==
  ASSUME HttpInv, ServerCloses
  PROVE  HttpInv'
<1>1. PICK n \in 0 .. Len(net) :
        /\ net' = SubSeq(net, 1, n)
        /\ cut' = IF n = Len(net) THEN "no"
                  ELSE IF Len(Stream(answer)) - Len(net) + n < HeaderLength(answer) THEN "header" ELSE "body"
  BY DEF ServerCloses
<1>2. /\ stage = "up" /\ ~closed /\ closed' = TRUE /\ stage' = stage /\ owner' = owner /\ loaded' = loaded
      /\ req' = req /\ answer' = answer /\ overrun' = overrun /\ told' = told
  BY DEF ServerCloses
<1>3. Underway /\ cut = "no" /\ told = Nothing /\ answer \in Answers
  BY <1>2 DEF HttpInv, Underway
<1>4. RightAnswer'
  <2>1. told'.state = "none" /\ told' = Nothing
    BY <1>2, <1>3 DEF Nothing
  <2> QED BY <1>2, <2>1 DEF RightAnswer
<1>5. (~loaded /\ owner = "rss" => stage = "none")'
  BY <1>2 DEF HttpInv
<1>6. Underway'
  <2>1. CASE overrun
    BY <1>2, <1>3, <2>1 DEF Underway
  <2>2. CASE ~overrun
    <3>1. PICK e \in 0 .. Len(Stream(answer)) : Follows(e)
      BY <1>3, <2>2 DEF Underway
    <3> DEFINE len == Len(net)
               l == Len(Stream(answer))
               h == HeaderLength(answer)
    <3>2. /\ net \in Seq(Cells) /\ len \in Nat /\ l \in Nat /\ e \in Nat /\ e + len = l /\ n \in Nat /\ n <= len
          /\ h \in {3, 5} /\ \A j \in 1 .. len : net[j] = Stream(answer)[e + j]
      <4>1. net \in Seq(Cells) /\ e + len = l /\ \A j \in 1 .. len : net[j] = Stream(answer)[e + j]
        BY <1>3, <3>1 DEF Follows, Ahead
      <4>2. len \in Nat /\ l \in Nat /\ h \in {3, 5}
        BY <1>3, <4>1, LenProperties, NewReads, StreamIs
      <4> QED BY <4>1, <4>2
    <3>3. net' \in Seq(Cells) /\ Len(net') = n /\ \A j \in 1 .. n : net'[j] = net[j]
      BY <1>1, <3>2, RestIs
    <3>4. cut' = IF n = len THEN "no" ELSE IF l - len + n < h THEN "header" ELSE "body"
      BY <1>1
    <3>5. \A j \in 1 .. n : net'[j] = Stream(answer)[e + j]
      <4>1. \A j \in 1 .. n : j \in 1 .. len
        BY <3>2
      <4> QED BY <3>2, <3>3, <4>1
    <3> HIDE DEF len, l, h
    <3>6. /\ e + n <= l
          /\ cut' = "no" => e + n = l
          /\ cut' = "body" => h <= e + n /\ e + n < l
      BY <3>2, <3>4
    <3>7. Follows(e)'
      <4>1. Reads(answer, e, req) /\ Enough(answer, e, req) /\ req.state = "none"
        BY <3>1 DEF Follows, Ahead
      <4>2. Reads(answer', e, req') /\ Enough(answer', e, req') /\ req'.state = "none"
        BY <1>2, <4>1
      <4> QED BY <1>2, <3>3, <3>5, <3>6, <4>2 DEF Follows, Ahead, len, l, h
    <3>8. told' = Nothing /\ closed' = TRUE /\ answer' = answer
      BY <1>2, <1>3
    <3> QED BY <3>7, <3>8 DEF Underway
  <2> QED BY <2>1, <2>2
<1>7. answer' \in Answers /\ owner' \in {"rss", "search"} /\ stage' = "up"
  BY <1>2, <1>3 DEF HttpInv
<1> QED BY <1>4, <1>5, <1>6, <1>7 DEF HttpInv

\* What recv brings is read as far as it goes, and the end of the answer is told.
LEMMA CanReadKeeps ==
  ASSUME HttpInv, CanRead
  PROVE  HttpInv'
<1>1. PICK n \in 0 .. Len(net), dropped \in 0 .. Piece :
        LET have == Len(req.buf) + n
            got == [req EXCEPT !.buf = @ \o SubSeq(net, 1, n)]
        IN /\ n + dropped <= Len(net) /\ (n > 0 => Fits(Len(req.buf), n))
           /\ (dropped > 0 => ~Fits(have, dropped))
           /\ n + dropped > 0 \/ closed
           /\ overrun' = (overrun \/ dropped > 0 \/ have = Size)
           /\ IF closed /\ n = Len(net) THEN CbErr(got)
              ELSE CbData(got, SubSeq(net, n + dropped + 1, Len(net)))
  BY DEF CanRead
<1> DEFINE have == Len(req.buf) + n
           got == [req EXCEPT !.buf = @ \o SubSeq(net, 1, n)]
           rest == SubSeq(net, n + dropped + 1, Len(net))
           full == HttpParse(got, TRUE)
           parsed == HttpParse(got, FALSE)
           last == HttpParse([parsed EXCEPT !.buf = <<>>], TRUE)
<1>2. /\ stage = "up" /\ cut' = cut /\ Underway /\ answer \in Answers /\ told = Nothing /\ (cut # "no" => closed)
      /\ (n > 0 => Fits(Len(req.buf), n)) /\ (overrun' <=> (overrun \/ dropped > 0 \/ have = Size))
  BY <1>1 DEF CanRead, HttpInv, Underway
<1>3. /\ closed /\ n = Len(net) => CallBack(full)
      /\ ~ (closed /\ n = Len(net)) =>
           IF parsed.state \in {"err", "done"} \/ Len(parsed.buf) = Size THEN CallBack(last)
           ELSE req' = parsed /\ net' = rest /\ UNCHANGED <<stage, owner, loaded, closed, answer, told>>
  BY <1>1 DEF CbErr, CbData
<1> HIDE DEF full, last
\* Unless something is lost, what has come is what the answer goes on with.
<1>4. ASSUME ~overrun'
      PROVE  \E e \in 0 .. Len(Stream(answer)) :
               /\ Follows(e) /\ dropped = 0 /\ n \in Nat /\ Len(net) \in Nat /\ n <= Len(net)
               /\ Reads(answer, e + n, got) /\ got.state = "none"
  <2>1. ~overrun /\ dropped = 0 /\ have # Size
    <3>1. ~overrun /\ ~ (dropped > 0) /\ have # Size
      BY <1>2, <1>4
    <3> QED BY <3>1, HttpAssumption
  <2>2. PICK e \in 0 .. Len(Stream(answer)) : Follows(e)
    BY <1>2, <2>1 DEF Underway
  <2>3. /\ Reads(answer, e, req) /\ req.state = "none" /\ net \in Seq(Cells) /\ e + Len(net) <= Len(Stream(answer))
        /\ \A j \in 1 .. Len(net) : net[j] = Stream(answer)[e + j]
    BY <2>2 DEF Follows, Ahead
  <2>4. Len(req.buf) \in Nat /\ Len(req.buf) < Size /\ Len(net) \in Nat /\ Size \in Nat
    BY <2>3, LenProperties, HttpAssumption DEF Reads, UpTo
  <2>5. Len(req.buf) + n < Size
    <3>1. n = 0 \/ Fits(Len(req.buf), n)
      BY <1>2
    <3> QED BY <2>1, <2>4, <3>1 DEF Fits
  <2>6. Reads(answer, e + n, got) /\ got.state = "none"
    <3> DEFINE w == net
               r == req
    <3>1. /\ answer \in Answers /\ Reads(answer, e, r) /\ r.state = "none" /\ Ahead(answer, e, w)
          /\ n \in 0 .. Len(w) /\ Len(r.buf) + n < Size
      BY <1>2, <2>2, <2>3, <2>5 DEF Follows
    <3>2. got = Got(r, w, n)
      BY DEF Got
    <3> HIDE DEF w, r, got
    <3>3. Reads(answer, e + n, Got(r, w, n)) /\ Got(r, w, n).state = "none"
      BY ONLY <3>1, Received
    <3> QED BY <3>2, <3>3
  <2> QED BY <2>1, <2>2, <2>4, <2>6
<1> HIDE DEF got
<1>5. CASE closed /\ n = Len(net)
  <2>1. ASSUME ~overrun'
        PROVE  /\ cut' = "no" => Told(full) = Expected(answer)
               /\ cut' = "body" /\ answer.frame # "close" /\ full.state = "done" => Told(full) = Expected(answer)
    <3>1. PICK e \in 0 .. Len(Stream(answer)) :
            /\ Follows(e) /\ dropped = 0 /\ n \in Nat /\ Len(net) \in Nat /\ n <= Len(net)
            /\ Reads(answer, e + n, got) /\ got.state = "none"
      BY <1>4, <2>1
    <3>2. /\ e + n = Len(Stream(answer)) => Told(full) = Expected(answer)
          /\ HeaderLength(answer) <= e + n /\ e + n < Len(Stream(answer)) /\ answer.frame # "close" =>
               full.state # "done"
      BY <1>2, <3>1, EndReads DEF full
    <3>3. /\ cut = "no" => e + n = Len(Stream(answer))
          /\ cut = "body" => HeaderLength(answer) <= e + n /\ e + n < Len(Stream(answer))
      BY <1>5, <3>1 DEF Follows, Ahead
    <3> QED BY <1>2, <3>2, <3>3
  <2> QED BY <1>2, <1>3, <1>5, <2>1, CallBackKeeps
<1>6. ASSUME ~ (closed /\ n = Len(net)), ~overrun'
      PROVE  \E e \in 0 .. Len(Stream(answer)) :
               /\ Follows(e) /\ dropped = 0 /\ n \in Nat /\ n <= Len(net) /\ Reads(answer, e + n, parsed)
               /\ Enough(answer, e + n, parsed)
  <2>1. PICK e \in 0 .. Len(Stream(answer)) :
          /\ Follows(e) /\ dropped = 0 /\ n \in Nat /\ Len(net) \in Nat /\ n <= Len(net)
          /\ Reads(answer, e + n, got) /\ got.state = "none"
    BY <1>4, <1>6
  <2>2. parsed = ParseBody(ParseHeader(ParseStatus(got)))
    BY <2>1 DEF HttpParse
  <2>3. Reads(answer, e + n, parsed) /\ Enough(answer, e + n, parsed)
    BY <1>2, <2>1, <2>2, ParseReads
  <2> QED BY <2>1, <2>3
<1> HIDE DEF parsed
<1>7. CASE ~ (closed /\ n = Len(net)) /\ (parsed.state \in {"err", "done"} \/ Len(parsed.buf) = Size)
  <2>1. ASSUME ~overrun' PROVE Told(last) = Expected(answer)
    <3>1. PICK e \in 0 .. Len(Stream(answer)) :
            /\ Follows(e) /\ dropped = 0 /\ n \in Nat /\ n <= Len(net) /\ Reads(answer, e + n, parsed)
            /\ Enough(answer, e + n, parsed)
      BY <1>6, <1>7, <2>1
    <3>2. parsed.state # "err" /\ Len(parsed.buf) < Size /\ Len(parsed.buf) \in Nat
      BY <3>1, LenProperties DEF Reads, UpTo, InHeader, InBody, InPlainBody, InChunks
    <3>3. parsed.state = "done"
      BY <1>7, <3>2, HttpAssumption
    <3> QED BY <1>2, <3>1, <3>3, DoneReads DEF last
  <2> QED BY <1>2, <1>3, <1>7, <2>1, CallBackKeeps
<1>8. CASE ~ (closed /\ n = Len(net)) /\ ~ (parsed.state \in {"err", "done"} \/ Len(parsed.buf) = Size)
  <2>1. /\ req' = parsed /\ net' = rest /\ stage' = stage /\ owner' = owner /\ loaded' = loaded /\ closed' = closed
        /\ answer' = answer /\ told' = told
    BY <1>3, <1>8
  <2>2. RightAnswer'
    <3>1. told'.state = "none" /\ told' = Nothing
      BY <1>2, <2>1 DEF Nothing
    <3> QED BY <1>2, <2>1, <3>1 DEF RightAnswer
  <2>3. (~loaded /\ owner = "rss" => stage = "none")'
    BY <2>1 DEF HttpInv
  <2>4. Underway'
    <3>1. CASE overrun'
      BY <1>2, <2>1, <3>1 DEF Underway
    <3>2. CASE ~overrun'
      <4>1. PICK e \in 0 .. Len(Stream(answer)) :
              /\ Follows(e) /\ dropped = 0 /\ n \in Nat /\ n <= Len(net) /\ Reads(answer, e + n, parsed)
              /\ Enough(answer, e + n, parsed)
        BY <1>6, <1>8, <3>2
      <4> DEFINE len == Len(net)
                 l == Len(Stream(answer))
                 h == HeaderLength(answer)
                 d == e + n
      <4>2. /\ net \in Seq(Cells) /\ len \in Nat /\ e \in Nat /\ n \in Nat /\ n <= len /\ e + len <= l /\ l \in Nat
            /\ (cut = "no" => e + len = l) /\ (cut = "body" => h <= e + len /\ e + len < l)
            /\ \A j \in 1 .. len : net[j] = Stream(answer)[e + j]
        <5>1. net \in Seq(Cells)
          BY <4>1 DEF Follows, Ahead
        <5>2. len \in Nat /\ l \in Nat
          BY <1>2, <5>1, LenProperties, NewReads
        <5> QED BY <4>1, <5>1, <5>2 DEF Follows, Ahead
      <4>3. rest = SubSeq(net, n + 1, Len(net))
        BY <4>1
      <4>4. rest \in Seq(Cells) /\ Len(rest) = len - n /\ \A j \in 1 .. len - n : rest[j] = net[n + j]
        <5>1. n \in 0 .. Len(net)
          OBVIOUS
        <5> HIDE DEF rest
        <5> QED BY <4>2, <4>3, <5>1, RestIs
      <4> HIDE DEF len, l, h, rest
      <4>5. d + (len - n) = e + len /\ d \in 0 .. l
        BY <4>2
      <4>6. ASSUME NEW j \in 1 .. len - n PROVE rest[j] = Stream(answer)[d + j]
        <5>1. n + j \in 1 .. len /\ e + (n + j) = d + j
          BY <4>2
        <5> HIDE DEF d
        <5> QED BY <4>2, <4>4, <5>1
      <4>7. Reads(answer, d, parsed) /\ parsed.state = "none"
        <5>1. parsed.state \in {"none", "err", "done"}
          BY <4>1 DEF Reads, Requests
        <5> QED BY <1>8, <4>1, <5>1
      <4> HIDE DEF d
      <4>8. Follows(d)'
        <5>1. /\ d + Len(rest) <= l
              /\ (cut = "no" => d + Len(rest) = l) /\ (cut = "body" => h <= d + Len(rest) /\ d + Len(rest) < l)
          BY <4>2, <4>4, <4>5
        <5>2. \A j \in 1 .. Len(rest) : rest[j] = Stream(answer)[d + j]
          BY <4>4, <4>6
        <5>3. Enough(answer, d, parsed)
          BY <4>1 DEF d
        <5>4. Reads(answer', d, req') /\ Enough(answer', d, req') /\ req'.state = "none"
          BY <2>1, <4>7, <5>3
        <5> QED BY <1>2, <2>1, <4>4, <5>1, <5>2, <5>4 DEF Follows, Ahead, l, h
      <4>9. d \in 0 .. Len(Stream(answer'))
        BY <2>1, <4>5 DEF l
      <4>10. told' = Nothing /\ (cut' # "no" => closed')
        BY <1>2, <2>1
      <4> QED BY <4>8, <4>9, <4>10 DEF Underway
    <3> QED BY <3>1, <3>2
  <2>5. answer' \in Answers /\ owner' \in {"rss", "search"} /\ stage' = "up"
    BY <1>2, <2>1 DEF HttpInv
  <2> QED BY <2>2, <2>3, <2>4, <2>5 DEF HttpInv
<1> QED BY <1>5, <1>7, <1>8

\* Every step keeps the invariant of the HTTP client.
LEMMA HttpStepKeeps == HttpInv /\ [HttpNext]_httpVars => HttpInv'
<1> SUFFICES ASSUME HttpInv, [HttpNext]_httpVars PROVE HttpInv'
  OBVIOUS
<1>1. CASE RssTimer
  BY <1>1, StartKeeps DEF RssTimer
<1>2. CASE Search
  BY <1>2, StartKeeps DEF Search
<1>3. CASE HttpUnload \/ HttpLoad
  BY <1>3, UnloadKeeps
<1>4. CASE Connected
  BY <1>4, ConnectedKeeps
<1>5. CASE NotConnected
  BY <1>5, NotConnectedKeeps
<1>6. CASE GoesSilent
  BY <1>6, SilentKeeps
<1>7. CASE ServerCloses
  BY <1>7, ClosesKeeps
<1>8. CASE CanRead
  BY <1>8, CanReadKeeps
<1>9. CASE UNCHANGED httpVars
  BY <1>9 DEF httpVars, request, HttpInv, RightAnswer, Underway, Follows, Ahead
<1> QED BY <1>1, <1>2, <1>3, <1>4, <1>5, <1>6, <1>7, <1>8, <1>9 DEF HttpNext

\* The invariant of the HTTP client
THEOREM HttpInvariant == HttpSpec => []HttpInv
<1> QED BY HttpInitInv, HttpStepKeeps, PTL DEF HttpSpec

\* However recv splits an answer of whatever length, framing and chunks, and whatever else happens to the
\* request, the plugin is called back with the status and the body of the answer when the connection does not
\* break and recvbuf never fills up (http_parse, http.c:139-289).
THEOREM HttpRightAnswer == HttpSpec => []RightAnswer
<1>1. HttpInv => RightAnswer
  BY DEF HttpInv
<1> QED BY <1>1, HttpInvariant, PTL

\* An answer that is all there, and whose end does not have to be told by the close of the connection, has been
\* handed to the plugin already, however it was split (http_parse, http.c:198-262).
THEOREM HttpNotHeldBack == HttpSpec => []NotHeldBack
<1>1. ASSUME HttpInv PROVE NotHeldBack
  <2> SUFFICES ASSUME stage = "up", net = <<>>, cut = "no", ~overrun
               PROVE  answer.frame = "close" \/ (answer.frame = "length" /\ answer.sizes = <<>>)
    BY DEF NotHeldBack
  <2> DEFINE s == Stream(answer)
  <2>1. answer \in Answers
    BY <1>1 DEF HttpInv
  <2>2. PICK e \in 0 .. Len(s) : Follows(e)
    BY <1>1 DEF HttpInv, Underway
  <2>3. Len(s) \in Nat /\ HeaderLength(answer) \in {3, 5} /\ HeaderLength(answer) <= Len(s)
    <3>1. /\ Len(s) = HeaderLength(answer) + Len(After(answer)) /\ HeaderLength(answer) \in {3, 5}
          /\ Len(After(answer)) \in Nat
      BY <2>1, StreamIs, AfterType
    <3> HIDE DEF s
    <3> QED BY <3>1
  <2>4. e = Len(s)
    <3>1. e + Len(net) = Len(s) /\ Len(net) = 0
      BY <2>2 DEF Follows
    <3> HIDE DEF s
    <3> QED BY <2>2, <2>3, <3>1
  <2>5. req.header /\ ~ (req.chunked \/ req.length > 0)
    BY <2>2, <2>3, <2>4 DEF Follows, Enough, More
  <2>6. InPlainBody(answer, e - Len(req.buf), req) /\ req.length \in Nat
    BY <2>2, <2>5 DEF Follows, Reads, InHeader, InBody, InChunks, Requests
  <2>7. answer.frame = "length" => Length(answer) = 0
    BY <2>5, <2>6 DEF InPlainBody
  <2>8. answer.frame \in {"close", "length"}
    BY <2>1, <2>6, AnswerIs DEF InPlainBody
  <2> QED BY <2>1, <2>7, <2>8, LengthIs
<1> QED BY <1>1, HttpInvariant, PTL
=============================================================================
