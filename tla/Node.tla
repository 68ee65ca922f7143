-------------------------------- MODULE Node --------------------------------
(***************************************************************************)
(* Nodes on one machine, from the command line to the end: each finds its  *)
(* configuration (RuntimePaths), makes the directories it needs while      *)
(* other nodes do the same, becomes the owner of its PID file (PidFile),   *)
(* serves, hears of signals and stops (ProcessControl), and gives the PID  *)
(* file up.                                                                *)
(***************************************************************************)
EXTENDS PidFile, RuntimePaths, ProcessControl

CONSTANTS Working,        \* working directories a node is started in
          ConfigNames,    \* what the command line calls the configuration
          Obstacles,      \* paths at which something other than a directory may be
          MaxSignals      \* bound on the signals sent

\* The configuration names a PID file.
ASSUME NodeAssumption ==
  /\ Working \subseteq Name /\ ConfigNames \subseteq Setting
  /\ \A working \in Working, name \in ConfigNames :
        LET found == prepare_paths(working, Missing, name)
            config == config_load(found.path)
        IN  found.ok /\ config.ok => config.daemon \in Path

VARIABLES boot,           \* what a process that prepares its directories is about to do
          configuration,  \* the configuration file of a process
          dirs, nondirs,  \* directories, and obstacles
          control,        \* the control state of a process
          asked,          \* a SIGTERM has been handled
          signals         \* the number of signals sent

bootVars == <<boot, configuration, dirs, nondirs>>
controlVars == <<control, asked, signals>>
vars == <<pidVars, bootVars, controlVars>>

NoBoot == [todo |-> << >>, daemon |-> << >>, active |-> FALSE, failed |-> FALSE]

Init ==
  /\ PidInit
  /\ boot = [p \in Process |-> NoBoot]
  /\ configuration = [p \in Process |-> << >>]
  /\ dirs = {d \in Files : \E f \in Files : d = path_parent(f)}
  /\ nondirs \in SUBSET Obstacles
  /\ control = [p \in Process |-> NewControl]
  /\ asked = [p \in Process |-> FALSE]
  /\ signals = 0
-----------------------------------------------------------------------------
Main_working(p) ==
  /\ at[p] = "off" /\ parent[p] = NoParent /\ ~boot[p].active /\ launches < MaxLaunches
  /\ \E working \in Working, name \in ConfigNames :
        LET found == prepare_paths(working, Missing, name)
            config == config_load(Append(working, "conf"))
        IN  /\ found.ok /\ config.ok
            /\ configuration' = [configuration EXCEPT ![p] = found.path]
            /\ boot' = [boot EXCEPT ![p] = [todo |-> config.make, daemon |-> config.daemon,
                                            active |-> TRUE, failed |-> FALSE]]
  /\ UNCHANGED <<pidVars, dirs, nondirs, controlVars>>

\* main with --runtime-paths, up to the directories.  A process that fails before it
\* gets there changes nothing others can see.
Main(p) ==
  /\ at[p] = "off" /\ parent[p] = NoParent /\ ~boot[p].active /\ launches < MaxLaunches
  /\ \E working \in Working, name \in ConfigNames :
        LET found == prepare_paths(working, Missing, name)
            config == config_load(found.path)
        IN  /\ found.ok /\ config.ok
            /\ configuration' = [configuration EXCEPT ![p] = found.path]
            /\ boot' = [boot EXCEPT ![p] = [todo |-> config.make, daemon |-> config.daemon,
                                            active |-> TRUE, failed |-> FALSE]]
  /\ UNCHANGED <<pidVars, dirs, nondirs, controlVars>>

Todo(p, todo) == boot' = [boot EXCEPT ![p].todo = todo]

Blocked(d) == \E i \in 0 .. Len(d) : SubSeq(d, 1, i) \in nondirs

path_mkdir_alone(p) ==
  LET todo == boot[p].todo
      d == todo[Len(todo)]
  IN  /\ todo # << >> /\ ~boot[p].failed
      /\ \/ /\ d \in dirs \/ Blocked(d)
            /\ boot' = [boot EXCEPT ![p].failed = TRUE] /\ UNCHANGED dirs
         \/ /\ d \notin dirs /\ ~Blocked(d) /\ path_parent(d) \notin dirs
            /\ Todo(p, Append(todo, path_parent(d))) /\ UNCHANGED dirs
         \/ /\ d \notin dirs /\ ~Blocked(d) /\ path_parent(d) \in dirs
            /\ Todo(p, SubSeq(todo, 1, Len(todo) - 1)) /\ dirs' = dirs \cup {d}

\* One uv_fs_mkdir of skyuv_path_mkdir.  What is there already must be a directory,
\* whoever made it; a missing parent is made first, and then the same call again.
path_mkdir(p) ==
  LET todo == boot[p].todo
      d == todo[Len(todo)]
  IN  /\ todo # << >> /\ ~boot[p].failed
      /\ \/ d \in dirs /\ Todo(p, SubSeq(todo, 1, Len(todo) - 1)) /\ UNCHANGED dirs
         \/ Blocked(d) /\ boot' = [boot EXCEPT ![p].failed = TRUE] /\ UNCHANGED dirs
         \/ /\ d \notin dirs /\ ~Blocked(d) /\ path_parent(d) \notin dirs
            /\ Todo(p, Append(todo, path_parent(d))) /\ UNCHANGED dirs
         \/ /\ d \notin dirs /\ ~Blocked(d) /\ path_parent(d) \in dirs
            /\ Todo(p, SubSeq(todo, 1, Len(todo) - 1)) /\ dirs' = dirs \cup {d}

Mkdir(p) == path_mkdir(p) /\ UNCHANGED <<pidVars, configuration, nondirs, controlVars>>

\* The process ends before it has touched the PID file, by itself or killed.
BootEnds(p) ==
  /\ boot[p].active
  /\ boot' = [boot EXCEPT ![p] = NoBoot]
  /\ configuration' = [configuration EXCEPT ![p] = << >>]
  /\ UNCHANGED <<pidVars, dirs, nondirs, controlVars>>

\* daemon_init begins.
Daemonize(p) ==
  /\ boot[p].active /\ boot[p].todo = << >>
  /\ boot[p].daemon \in Path /\ Launch(p, boot[p].daemon)
  /\ boot' = [boot EXCEPT ![p] = NoBoot]
  /\ UNCHANGED <<configuration, dirs, nondirs, controlVars>>
-----------------------------------------------------------------------------
\* The steps of daemon.c; when a process is gone, so is its control state.
Forget(p) ==
  IF at'[p] = "off"
  THEN /\ control' = [control EXCEPT ![p] = NewControl]
       /\ asked' = [asked EXCEPT ![p] = FALSE]
       /\ configuration' = [configuration EXCEPT ![p] = << >>]
  ELSE UNCHANGED <<control, asked, configuration>>

Daemon(p) == (Acquire(p) \/ Publish(p)) /\ UNCHANGED <<bootVars, controlVars>>

GiveUp(p) == Release(p) /\ Forget(p) /\ UNCHANGED <<boot, dirs, nondirs, signals>>

Killed(p) == Crash(p) /\ Forget(p) /\ UNCHANGED <<boot, dirs, nondirs, signals>>

Leave(p) == ParentExits(p) /\ UNCHANGED <<bootVars, controlVars>>

Unrelated == OtherProcess /\ UNCHANGED <<bootVars, controlVars>>
-----------------------------------------------------------------------------
\* A serving node.
Controls(p, c) ==
  /\ control' = [control EXCEPT ![p] = c]
  /\ UNCHANGED <<pidVars, bootVars>>

Serving(p) == at[p] = "run"

FirstPoll(p) ==
  /\ Serving(p) /\ control[p].signals = "default"
  /\ \E ok \in BOOLEAN : Controls(p, initialize_process_signals(control[p], ok))
  /\ UNCHANGED <<asked, signals>>

Hangup(p) ==
  /\ Serving(p) /\ control[p].signals = "on" /\ signals < MaxSignals
  /\ signals' = signals + 1
  /\ \E kept \in BOOLEAN : Controls(p, on_hangup_signal(control[p], kept))
  /\ UNCHANGED asked

Terminate(p) ==
  /\ Serving(p) /\ control[p].signals = "on" /\ signals < MaxSignals
  /\ signals' = signals + 1
  /\ asked' = [asked EXCEPT ![p] = TRUE]
  /\ \E kept \in BOOLEAN : Controls(p, on_termination_signal(control[p], kept))

\* A signal nobody watches ends the process at once.
DefaultSignal(p) ==
  /\ Serving(p) /\ control[p].signals # "on" /\ signals < MaxSignals
  /\ signals' = signals + 1
  /\ Crash(p) /\ Forget(p)
  /\ UNCHANGED <<boot, dirs, nondirs>>

Quiet(p) == Serving(p) /\ UNCHANGED <<asked, signals>>

\* The socket thread.
PollEvent(p) ==
  /\ Quiet(p) /\ control[p].signals \in {"on", "closed"} /\ control[p].events # << >>
  /\ Controls(p, socket_server_poll(control[p]))

RunExit(p) ==
  /\ Quiet(p) /\ control[p].signals = "on" /\ control[p].exit = "asked"
  /\ Controls(p, process_exit(control[p]))

PollExit(p) ==
  /\ Quiet(p) /\ control[p].exit = "ready" /\ control[p].events = << >>
  /\ control[p].socket = "running"
  /\ Controls(p, socket_ends(control[p]))

\* poll fails for ever if the signals could not be watched; the socket thread then
\* goes on until all services are gone.
PollError(p) ==
  /\ Quiet(p) /\ control[p].signals = "failed" /\ control[p].services = "gone"
  /\ control[p].socket = "running"
  /\ Controls(p, socket_ends(control[p]))

\* The logger, and Skynet's services and timer thread.
LoggerReopens(p) ==
  /\ Quiet(p) /\ control[p].mail > 0
  /\ Controls(p, logger_reopen(control[p]))

TakeShutdown(p) ==
  /\ Quiet(p) /\ control[p].timer = "running" /\ control[p].process_shutdown_requested
  /\ Controls(p, socket_server_updatetime(control[p]))

ServicesAbort(p) ==
  /\ Quiet(p) /\ control[p].services = "up"
  /\ Controls(p, [control[p] EXCEPT !.services = "retiring"])

ServicesGone(p) ==
  /\ Quiet(p) /\ control[p].services = "retiring"
  /\ Controls(p, services_gone(control[p]))

\* The timer thread sees that the services are gone.
TimerEnds(p) ==
  /\ Quiet(p) /\ control[p].services = "gone" /\ control[p].timer = "running"
  /\ \E ok \in BOOLEAN : Controls(p, timer_ends(socket_server_exit(control[p], ok)))

\* The main thread has joined both and calls daemon_exit.
Stop(p) ==
  /\ control[p].timer = "ended" /\ control[p].socket = "ended"
  /\ Exit(p)
  /\ UNCHANGED <<bootVars, controlVars>>

ControlStep(p) ==
  \/ FirstPoll(p) \/ PollEvent(p) \/ RunExit(p) \/ PollExit(p) \/ PollError(p)
  \/ LoggerReopens(p) \/ TakeShutdown(p) \/ ServicesGone(p) \/ TimerEnds(p) \/ Stop(p)

Next ==
  \/ \E p \in Process :
        \/ Main(p) \/ Mkdir(p) \/ BootEnds(p) \/ Daemonize(p)
        \/ Daemon(p) \/ GiveUp(p) \/ Killed(p) \/ Leave(p)
        \/ ControlStep(p) \/ Hangup(p) \/ Terminate(p) \/ DefaultSignal(p) \/ ServicesAbort(p)
  \/ Unrelated

\* Some thread of a serving node goes on, retired services end, and a process that
\* gives up its PID file goes on doing so: each of these steps leaves less to do.
\* Nobody has to start a node or to signal.
Fairness == \A p \in Process : WF_vars(ControlStep(p) \/ GiveUp(p))

Spec == Init /\ [][Next]_vars /\ Fairness
-----------------------------------------------------------------------------
\* At most one node starts or serves with a configuration, from whatever directory and
\* under whatever name it was started: resolve_root and resolve_output lead to the same
\* PID file (docs/plans/008 on two working directories).  All nodes have the same roots in
\* their options and environment: with other roots a PID file is another one.
OneInstance ==
  \A p, q \in Process :
     /\ {at[p], at[q]} \subseteq {"fork", "truncate", "write", "redirect", "run"}
     /\ configuration[p] = configuration[q]
     => p = q

\* skyuv_path_mkdir fails only if something else is in the way, not because another
\* node made the same directory first; and a node whose PID file is relative to the run
\* root goes on only when that root exists.
DirectoriesShared ==
  \A p \in Process :
     /\ boot[p].failed => Blocked(boot[p].todo[Len(boot[p].todo)])
     /\ at[p] # "off" /\ Config.daemon.kind = "relative" =>
           run_root(configuration[p]).path \in dirs

\* A SIGTERM that was handled ends the node, even if the event that goes with it was
\* lost: process_shutdown_requested does not depend on it.  The one thing that keeps
\* such a node up is an EXIT command that there was no memory for (socket_server_exit).
TerminationCompletes ==
  \A p \in Process : asked[p] ~> (at[p] = "off" \/ control[p].exit = "lost")

\* The SIGHUPs among events the socket thread has not taken.
Untaken(events) == Cardinality({i \in 1 .. Len(events) : events[i] = "REOPEN_LOG"})

\* A SIGHUP whose event was queued is not lost before the logger has reopened its
\* file: it is among the runtime's events or in the logger's queue while the node runs.
HangupNotLost ==
  \A p \in Process : control[p].services = "up" =>
     control[p].hangups = Untaken(control[p].events) + control[p].mail
=============================================================================
