------------------------------- MODULE Plugins -------------------------------
(***************************************************************************)
(* The registry of src/plugins.c, the commands of src/plugin.c that change *)
(* it while the bot runs, and the walk over it in irc_cb_data (src/irc.c)  *)
(* from which those commands come.                                         *)
(***************************************************************************)
EXTENDS Lists, SequencesExt

CONSTANTS
  Plugin,      \* the modules there are
  Deps,        \* Plugin -> the sequence plugin_info.depends
  HasTimer,    \* those with a timer
  HasInit,     \* those with an init, which may fail
  Configured,  \* the sequence of "module" entries of the configuration
  Manager,     \* plugin.so
  MaxDep       \* MAX_DEP

ASSUME PluginsAssumption ==
  /\ Deps \in [Plugin -> Seq(Plugin)]
  /\ HasTimer \subseteq Plugin /\ HasInit \subseteq Plugin
  /\ Configured \in Seq(Plugin) /\ Manager \in Plugin /\ MaxDep \in Nat
  /\ "none" \notin Plugin

VARIABLES
  plugins,   \* the loaded ones, last loaded first
  timers,    \* Plugin -> how many entries of timerlist have its function
  phase,     \* "off", "on", "unloading", "crashed"
  cursor,    \* the plugin whose reply runs, or None
  commanded, \* the manager has obeyed the command that the line holds
  \* ghosts
  start,     \* the list as the current line was cut
  asked,     \* those that were given the line
  bypassed,  \* a plugin went although others depend on it
  orphans    \* plugins whose reload failed and that kept their timer

pluginsVars == <<plugins, timers, phase, cursor, commanded, start, asked, bypassed, orphans>>
walk == <<cursor, commanded, start, asked>>

None == "none"

Loaded(l) == ToSet(l)
DepSet(p) == ToSet(Deps[p])
Dependents(l, p) == {q \in Loaded(l) : p \in DepSet(q)}

PluginsInit ==
  /\ plugins = <<>> /\ timers = [p \in Plugin |-> 0] /\ phase = "off" /\ cursor = None /\ commanded = FALSE
  /\ start = <<>> /\ asked = {} /\ bypassed = FALSE /\ orphans = {}

-----------------------------------------------------------------------------
(* plugins_open and plugins_require work on [list, timers, ok].  missing are *)
(* the files that cannot be opened, failing the inits that return -1.        *)

Registries == [list : Seq(Plugin), timers : [Plugin -> Nat], ok : BOOLEAN]
Registry == [list |-> plugins, timers |-> timers, ok |-> TRUE]

Fail(r) == [r EXCEPT !.ok = FALSE]
Good(r) == [r EXCEPT !.ok = TRUE]

\* io_settimer and, as init fails, io_unsettimer
Refused(r, p) == Fail(r)

Entered(r, p) ==
  [list |-> <<p>> \o r.list, ok |-> TRUE,
   timers |-> IF p \in HasTimer THEN [r.timers EXCEPT ![p] = @ + 1] ELSE r.timers]

\* plugins_find
Found(r, p) == p \in Loaded(r.list)

\* plugins_require: a dependency is looked for in the configuration; opener[<<r, p>>] is what
\* plugins_open makes of r.
Require(r, p, opener) ==
  IF Found(r, p) THEN Good(r)
  ELSE IF p \notin Loaded(Configured) THEN Fail(r)
  ELSE opener[<<r, p>>]

\* One dependency after the other, until there is one that fails
Needs(r, p, opener) ==
  Through(Len(Deps[p]), Good(r),
        [x \in (1 .. Len(Deps[p])) \X Registries |->
           IF x[2].ok THEN Require(x[2], Deps[p][x[1]], opener) ELSE x[2]])

OpenOne(r, p, opener, missing, failing) ==
  IF Found(r, p) THEN Good(r)
  ELSE IF p \in missing THEN Fail(r)
  ELSE LET needs == Needs(r, p, opener)
       IN  IF ~needs.ok THEN needs
           ELSE IF p \in failing THEN Refused(needs, p)
           ELSE Entered(needs, p)

\* plugins_require may be inside itself MAX_DEP times, which stops a circle: behind that nothing is opened.
Opener(missing, failing) ==
  LET deep[n \in 0 .. MaxDep + 1] ==
        [x \in Registries \X Plugin |->
           IF n = 0 THEN Fail(x[1]) ELSE OpenOne(x[1], x[2], deep[n - 1], missing, failing)]
  IN  deep[MaxDep + 1]

Open(r, p, missing, failing) == Opener(missing, failing)[<<r, p>>]

AtMostOne(S) == {{}} \cup {{p} : p \in S}

\* plugins_load: a module that cannot be loaded is left out.
LoadAll ==
  /\ phase = "off"
  /\ \E missing \in AtMostOne(Plugin), failing \in AtMostOne(HasInit) :
       LET r == Through(Len(Configured), Registry,
                      [x \in (1 .. Len(Configured)) \X Registries |->
                         Open(x[2], Configured[x[1]], missing, failing)])
       IN  plugins' = r.list /\ timers' = r.timers
  /\ phase' = "on"
  /\ UNCHANGED <<walk, bypassed, orphans>>

\* plugins_unload, when a session ends: last in, first out; destroy may use the
\* plugins it depends on.
UnloadOne ==
  /\ phase = "unloading" /\ plugins # <<>>
  /\ plugins' = Tail(plugins)
  /\ timers' = [timers EXCEPT ![Head(plugins)] = IF @ > 0 THEN @ - 1 ELSE 0]
  /\ UNCHANGED <<phase, walk, bypassed, orphans>>

SessionEnds ==
  /\ phase = "on" /\ cursor = None
  /\ phase' = "unloading"
  /\ UNCHANGED <<plugins, timers, walk, bypassed, orphans>>

Unloaded ==
  /\ phase = "unloading" /\ plugins = <<>>
  /\ phase' = "off"
  /\ bypassed' = FALSE
  /\ UNCHANGED <<plugins, timers, walk, orphans>>

-----------------------------------------------------------------------------
(* irc_cb_data: the plugins get a line in the order of the list.            *)

Line ==
  /\ phase = "on" /\ cursor = None /\ plugins # <<>>
  /\ cursor' = Head(plugins)
  /\ commanded' = FALSE
  /\ start' = plugins
  /\ asked' = {Head(plugins)}
  /\ UNCHANGED <<plugins, timers, phase, bypassed, orphans>>

\* Mutant: entries are counted as when the walk began.
PositionAtStart == SelectInSeq(start, LAMBDA p : p = cursor)

Position == SelectInSeq(plugins, LAMBDA p : p = cursor)

\* reply returns 0: on to the next entry, as the list is now.
NextPlugin ==
  /\ cursor \in Loaded(plugins)
  /\ LET i == Position
     IN  IF i >= Len(plugins)
           THEN cursor' = None /\ asked' = {} /\ start' = <<>>
           ELSE cursor' = plugins[i + 1] /\ asked' = asked \cup {plugins[i + 1]} /\ UNCHANGED start
  /\ UNCHANGED <<plugins, timers, phase, commanded, bypassed, orphans>>

\* reply returns something else.
Handled ==
  /\ cursor \in Loaded(plugins)
  /\ cursor' = None /\ asked' = {} /\ start' = <<>>
  /\ UNCHANGED <<plugins, timers, phase, commanded, bypassed, orphans>>

\* The reply of the manager, which obeys one command per line.
Commanding ==
  /\ cursor = Manager /\ cursor \in Loaded(plugins)
  /\ ~commanded /\ commanded' = TRUE
  /\ UNCHANGED <<phase, cursor, start, asked>>

\* pload
Pload(p) ==
  /\ Commanding
  /\ \E missing \in AtMostOne(Plugin), failing \in AtMostOne(HasInit) :
       LET r == Open(Registry, p, missing, failing)
       IN  plugins' = r.list /\ timers' = r.timers
  /\ UNCHANGED <<bypassed, orphans>>

\* Mutant: nobody is asked.
NobodyDepends(l, p, typed) == FALSE

\* plugins_depends compares the name as it was typed with names that end in
\* ".so": without that ending it never finds any.
Depended(l, p, typed) == typed = "with .so" /\ Dependents(l, p) # {}

\* punload, with plugins_close
Punload(p, typed) ==
  /\ Commanding
  /\ p \in Loaded(plugins)
  /\ ~Depended(plugins, p, typed)
  /\ plugins' = Sublist(plugins, {i \in DOMAIN plugins : plugins[i] # p})
  /\ timers' = [timers EXCEPT ![p] = IF @ > 0 THEN @ - 1 ELSE 0]
  /\ bypassed' = (bypassed \/ (typed # "with .so" /\ Dependents(plugins, p) # {}))
  /\ UNCHANGED orphans

\* preload whose init fails (one that succeeds leaves the registry as it is): the
\* plugin is taken out, with no look at its dependents and its timer.  Bound: the
\* reload of a plugin fails once.
Preload(p) ==
  /\ Commanding
  /\ p \in (Loaded(plugins) \cap HasInit) \ orphans
  /\ plugins' = Sublist(plugins, {i \in DOMAIN plugins : plugins[i] # p})
  /\ bypassed' = (bypassed \/ Dependents(plugins, p) # {})
  /\ orphans' = orphans \cup ({p} \cap HasTimer)
  /\ UNCHANGED timers

\* The manager has closed itself: the reply that called plugins_close is gone.
Torn ==
  /\ phase = "on" /\ cursor # None /\ cursor \notin Loaded(plugins)
  /\ phase' = "crashed"
  /\ UNCHANGED <<plugins, timers, walk, bypassed, orphans>>

PluginsNext ==
  \/ phase = "crashed" /\ UNCHANGED pluginsVars
  \/ Torn
  \/ LoadAll \/ SessionEnds \/ UnloadOne \/ Unloaded
  \/ Line \/ NextPlugin \/ Handled
  \/ \E p \in Plugin : \/ Pload(p) \/ Preload(p)
                       \/ \E typed \in {"with .so", "without"} : Punload(p, typed)

PluginsSpec == PluginsInit /\ [][PluginsNext]_pluginsVars

-----------------------------------------------------------------------------
\* Whatever is loaded, unloaded and refused, every loaded plugin finds the ones
\* it depends on, also in the destroy functions of the last unload; but for the
\* two ways round plugins_depends (plugins.c:85, 270).
DepsLoaded == ~bypassed => \A p \in Loaded(plugins) : DepSet(p) \subseteq Loaded(plugins)

\* A timer is set exactly while its plugin is loaded: no function of a library
\* that is gone is called by io_loop, unless a reload failed (plugins.c:268-272).
TimersLoaded ==
  \A p \in Plugin \ orphans : timers[p] = IF p \in HasTimer \cap Loaded(plugins) THEN 1 ELSE 0

\* Nothing that is loaded or called points to a library that is gone (plugins.c:78, 153, 228, 268).
NothingDangling == DepsLoaded /\ TimersLoaded

\* Loading and unloading in the middle of a line hides it from no plugin that
\* stays loaded: what comes before the cursor was asked.
NoneMissed ==
  cursor \in Loaded(plugins) =>
    LET i == SelectInSeq(plugins, LAMBDA p : p = cursor)
    IN  \A k \in 1 .. i : plugins[k] \in ToSet(start) => plugins[k] \in asked
=============================================================================
