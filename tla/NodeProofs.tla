----------------------------- MODULE NodeProofs -----------------------------
(***************************************************************************)
(* What is proved of PidFile holds of whole nodes: every step of a node    *)
(* is a step of daemon.c or leaves its state alone.  Of the nodes          *)
(* themselves: the PID file a process uses is the one its configuration    *)
(* names, it goes on only when the directories it asked for exist, and     *)
(* while it serves no SIGHUP is lost on its way to the logger.             *)
(***************************************************************************)
EXTENDS Node, PidFileProofs, FiniteSetTheorems

\* A step of a node is a step of daemon.c, or it leaves PID files alone.
LEMMA NodeStep == [Next]_vars => [PidNext]_pidVars
<1>1. ASSUME NEW p \in Process, Main(p) \/ Mkdir(p) \/ BootEnds(p) PROVE UNCHANGED pidVars
  BY <1>1 DEF Main, Mkdir, BootEnds
<1>2. ASSUME NEW p \in Process,
             \/ FirstPoll(p) \/ PollEvent(p) \/ RunExit(p) \/ PollExit(p) \/ PollError(p)
             \/ LoggerReopens(p) \/ TakeShutdown(p) \/ ServicesGone(p) \/ TimerEnds(p)
             \/ Hangup(p) \/ Terminate(p) \/ ServicesAbort(p)
      PROVE  UNCHANGED pidVars
  BY <1>2 DEF FirstPoll, PollEvent, RunExit, PollExit, PollError, LoggerReopens, TakeShutdown,
     ServicesGone, TimerEnds, Hangup, Terminate, ServicesAbort, Controls
<1>3. ASSUME NEW p \in Process,
             \/ Daemon(p) \/ GiveUp(p) \/ Killed(p) \/ Leave(p) \/ Stop(p) \/ DefaultSignal(p)
      PROVE  PidNext
  BY <1>3 DEF Daemon, GiveUp, Killed, Leave, Stop, DefaultSignal, PidNext, PidStep
<1>4. ASSUME NEW p \in Process, Daemonize(p) PROVE PidNext
  BY <1>4 DEF Daemonize, PidNext
<1>5. ASSUME Unrelated PROVE PidNext
  BY <1>5 DEF Unrelated, PidNext
<1>6. CASE UNCHANGED vars
  BY <1>6 DEF vars
<1>7. QED
  BY <1>1, <1>2, <1>3, <1>4, <1>5, <1>6 DEF Next, ControlStep

\* A node implements daemon.c as PidFile describes it.
LEMMA NodeImplementsPidFile == Spec => PidSpec
<1>1. Init => PidInit
  BY DEF Init
<1>2. QED
  BY <1>1, NodeStep, PTL DEF Spec, PidSpec

\* Of all nodes that use a PID file one at a time owns it, whatever else they do: from
\* main to the signals that end them.
THEOREM NodesLock == Spec => ImplementsLock
<1>1. QED
  BY NodeImplementsPidFile, PidFileIsLock, PTL

\* The PID file of a serving node names it, for any number of nodes.
THEOREM NodesNamed == Spec => []PublishedNamesOwner
<1>1. QED
  BY NodeImplementsPidFile, PidFileNamesServer, PTL

\* Nodes that have ended by themselves have left no PID behind.
THEOREM NodesLeaveNothing == Spec => []NothingLeftBehind
<1>1. QED
  BY NodeImplementsPidFile, NoPidLeft, PTL
-----------------------------------------------------------------------------
Booting == [todo : Seq(Name), daemon : Name, active : BOOLEAN, failed : BOOLEAN]

\* What a process knows of its configuration while it prepares its directories, and
\* later: the PID file it uses is that of the configuration.
BootOk(p) ==
  /\ boot[p].active => at[p] = "off" /\ boot[p].daemon = config_load(configuration[p]).daemon
  /\ ~boot[p].active => boot[p] = NoBoot
  /\ boot[p].failed => boot[p].todo # << >> /\ Blocked(boot[p].todo[Len(boot[p].todo)])
  /\ at[p] # "off" => path[p] = config_load(configuration[p]).daemon

\* The root its PID file is relative to is still to be made, or exists.
RootOk(p) ==
  LET root == run_root(configuration[p]).path IN
  /\ boot[p].active =>
        root \in dirs \/ \E i \in 1 .. Len(boot[p].todo) : boot[p].todo[i] = root
  /\ at[p] # "off" => root \in dirs

ProcessOk(p) == BootOk(p) /\ (Config.daemon.kind = "relative" => RootOk(p))

BootInv ==
  /\ boot \in [Process -> Booting]
  /\ configuration \in [Process -> Name]
  /\ \A p \in Process : ProcessOk(p)
-----------------------------------------------------------------------------
\* The helpers of runtime_paths.c lead from paths to paths.
LEMMA ParentTyped == ASSUME NEW d \in Name PROVE path_parent(d) \in Name
BY DEF path_parent, Name

LEMMA AbsoluteTyped ==
  ASSUME NEW base \in Name, NEW setting \in Setting
  PROVE  path_absolute(base, setting).path \in Name
<1>1. setting.parts \in Name /\ base \o setting.parts \in Name /\ << >> \in Name
  BY DEF Setting, Name
<1> QED
  BY <1>1 DEF path_absolute, Found, Failure

LEMMA RootTyped ==
  ASSUME NEW option \in Setting, NEW variable \in Setting, NEW key \in Setting,
         NEW fallback \in Setting, NEW config_root \in Name
  PROVE  resolve_root(option, variable, key, fallback, config_root).path \in Name
<1>1. << >> \in Name
  BY DEF Name
<1> QED
  BY <1>1, AbsoluteTyped DEF resolve_root, Failure

LEMMA RootsTyped ==
  ASSUME NEW f \in Name
  PROVE  log_root(f).path \in Name /\ run_root(f).path \in Name
<1>1. Relative(<<"log">>) \in Setting /\ Relative(<<"run">>) \in Setting
  <2>1. <<"log">> \in Name /\ <<"run">> \in Name
    BY PathsAssumption DEF Name
  <2> QED
    BY Zenon, <2>1 DEF Relative, Setting
<1>2. Config.skyuv_log_root \in Setting /\ Config.skyuv_run_root \in Setting
  BY PathsAssumption
<1>3. /\ RunRootOption \in Setting /\ LogRootOption \in Setting
      /\ RunRootVariable \in Setting /\ LogRootVariable \in Setting
  BY PathsAssumption
<1> QED
  BY <1>1, <1>2, <1>3, ParentTyped, RootTyped DEF log_root, run_root

LEMMA OutputTyped ==
  ASSUME NEW setting \in Setting, NEW root \in Name
  PROVE  /\ resolve_output(setting, root).path \in Name
         /\ resolve_output(setting, root).make \in Seq(Name)
         /\ setting.kind = "relative" /\ resolve_output(setting, root).ok =>
               resolve_output(setting, root).make = <<root>>
<1>1. << >> \in Name /\ << >> \in Seq(Name) /\ <<root>> \in Seq(Name)
  BY DEF Name
<1>2. path_absolute(root, setting).path \in Name
  BY AbsoluteTyped
<1> QED
  BY <1>1, <1>2 DEF resolve_output, Setting

\* The PID file and the directories of a configuration; the root that the PID file is
\* relative to is among them.
LEMMA ConfigTyped ==
  ASSUME NEW f \in Name
  PROVE  /\ config_load(f).daemon \in Name
         /\ config_load(f).make \in Seq(Name)
         /\ Config.daemon.kind = "relative" /\ config_load(f).ok =>
               \E i \in 1 .. Len(config_load(f).make) :
                  config_load(f).make[i] = run_root(f).path
<1> DEFINE setting == IF Config.logservice THEN Missing ELSE Config.logger
           logger == resolve_output(setting, log_root(f).path)
           daemon == resolve_output(Config.daemon, run_root(f).path)
<1>1. setting \in Setting /\ Config.daemon \in Setting
  BY PathsAssumption DEF Missing, Setting, Name
<1>2. log_root(f).path \in Name /\ run_root(f).path \in Name
  BY RootsTyped
<1>3. logger.make \in Seq(Name) /\ daemon.make \in Seq(Name) /\ daemon.path \in Name
      /\ (Config.daemon.kind = "relative" /\ daemon.ok => daemon.make = <<run_root(f).path>>)
  BY <1>1, <1>2, OutputTyped
<1>4. /\ config_load(f).daemon = daemon.path
      /\ config_load(f).make = daemon.make \o logger.make
      /\ config_load(f).ok => daemon.ok
  BY DEF config_load
<1> HIDE DEF logger, daemon
<1>5. ASSUME Config.daemon.kind = "relative", config_load(f).ok
      PROVE  \E i \in 1 .. Len(config_load(f).make) :
                config_load(f).make[i] = run_root(f).path
  <2>1. daemon.make = <<run_root(f).path>>
    BY <1>3, <1>4, <1>5
  <2>2. 1 \in 1 .. Len(daemon.make \o logger.make)
        /\ (daemon.make \o logger.make)[1] = run_root(f).path
    BY <1>3, <2>1
  <2> QED
    BY Zenon, <1>4, <2>2
<1>6. daemon.make \o logger.make \in Seq(Name)
  BY <1>3
<1> QED
  BY Zenon, <1>3, <1>4, <1>5, <1>6

\* The configuration is an existing file.
LEMMA PrepareTyped ==
  ASSUME NEW working, NEW install, NEW config
  PROVE  prepare_paths(working, install, config).path \in Name
<1>1. << >> \in Name
  BY DEF Name
<1>2. ASSUME NEW f PROVE path_real(f).path \in Name
  BY <1>1, PathsAssumption DEF path_real, path_exists, Found, Failure
<1> QED
  BY <1>1, <1>2 DEF prepare_paths, Failure
-----------------------------------------------------------------------------
\* A process that a step leaves alone stays as it should be; directories only come.
LEMMA ProcessKept ==
  ASSUME NEW q \in Process, ProcessOk(q),
         boot'[q] = boot[q], configuration'[q] = configuration[q], path'[q] = path[q],
         at'[q] = "off" <=> at[q] = "off",
         nondirs' = nondirs, dirs \subseteq dirs'
  PROVE  ProcessOk(q)'
<1>1. \A d : Blocked(d)' <=> Blocked(d)
  BY DEF Blocked
<1>2. BootOk(q)'
  BY <1>1 DEF ProcessOk, BootOk
<1>3. Config.daemon.kind = "relative" => RootOk(q)'
  BY DEF ProcessOk, RootOk
<1> QED
  BY <1>2, <1>3 DEF ProcessOk

\* So does one that is gone.
LEMMA ProcessGone ==
  ASSUME NEW q \in Process, boot'[q] = NoBoot, at'[q] = "off"
  PROVE  ProcessOk(q)'
BY DEF ProcessOk, BootOk, RootOk, NoBoot

LEMMA MainKeeps == ASSUME BootInv, NEW p \in Process, Main(p) PROVE BootInv'
<1>1. PICK working \in Working, name \in ConfigNames :
        LET found == prepare_paths(working, Missing, name)
            config == config_load(found.path)
        IN  /\ found.ok /\ config.ok
            /\ configuration' = [configuration EXCEPT ![p] = found.path]
            /\ boot' = [boot EXCEPT ![p] = [todo |-> config.make, daemon |-> config.daemon,
                                            active |-> TRUE, failed |-> FALSE]]
  BY Zenon DEF Main
<1> DEFINE f == prepare_paths(working, Missing, name).path
           config == config_load(f)
           b == [todo |-> config.make, daemon |-> config.daemon, active |-> TRUE, failed |-> FALSE]
<1>2. f \in Name
  BY PrepareTyped
<1>3. b \in Booting
  BY Zenon, <1>2, ConfigTyped DEF Booting
<1>4. at[p] = "off" /\ UNCHANGED <<at, path, dirs, nondirs>>
  BY DEF Main, pidVars, procVars
<1>5. /\ boot' = [boot EXCEPT ![p] = b] /\ configuration' = [configuration EXCEPT ![p] = f]
      /\ config.ok
  BY <1>1
<1>6. ProcessOk(p)'
  <2>1. boot'[p] = b /\ configuration'[p] = f
    BY <1>5 DEF BootInv
  <2>2. BootOk(p)'
    BY <1>4, <2>1 DEF BootOk
  <2>3. Config.daemon.kind = "relative" => RootOk(p)'
    BY <1>2, <1>4, <1>5, <2>1, ConfigTyped DEF RootOk
  <2> QED
    BY <2>2, <2>3 DEF ProcessOk
<1>7. ASSUME NEW q \in Process, q # p PROVE ProcessOk(q)'
  BY <1>4, <1>5, <1>7, ProcessKept DEF BootInv
<1>8. boot' \in [Process -> Booting] /\ configuration' \in [Process -> Name]
  BY <1>2, <1>3, <1>5 DEF BootInv
<1> QED
  BY <1>6, <1>7, <1>8 DEF BootInv

LEMMA MkdirKeeps == ASSUME BootInv, NEW p \in Process, Mkdir(p) PROVE BootInv'
<1> DEFINE todo == boot[p].todo
           d == todo[Len(todo)]
           left == SubSeq(todo, 1, Len(todo) - 1)
<1>1. todo \in Seq(Name) /\ todo # << >> /\ ~boot[p].failed /\ boot[p] \in Booting
  BY DEF BootInv, Booting, Mkdir, path_mkdir
<1>2. boot[p].active /\ at[p] = "off"
  BY <1>1 DEF BootInv, ProcessOk, BootOk, NoBoot
<1>3. UNCHANGED <<at, path, configuration, nondirs>>
  BY DEF Mkdir, pidVars, procVars
<1>4. d \in Name /\ left \in Seq(Name) /\ Append(todo, path_parent(d)) \in Seq(Name)
  BY <1>1, ParentTyped
<1>5. /\ Len(left) = Len(todo) - 1 /\ Len(todo) \in Nat \ {0}
      /\ \A i \in 1 .. Len(todo) - 1 : left[i] = todo[i]
  BY <1>1
<1>6. CASE d \in dirs' /\ Todo(p, left) /\ dirs \subseteq dirs'
  <2>1. boot'[p] = [boot[p] EXCEPT !.todo = left]
    BY <1>6 DEF Todo, BootInv
  <2>2. boot' \in [Process -> Booting] /\ \A q \in Process : q # p => boot'[q] = boot[q]
    BY Zenon, <1>1, <1>4, <1>6 DEF Todo, BootInv, Booting
  <2>3. BootOk(p)'
    BY <1>1, <1>2, <1>3, <2>1 DEF BootInv, ProcessOk, BootOk, Booting
  <2>4. ASSUME Config.daemon.kind = "relative" PROVE RootOk(p)'
    <3> DEFINE root == run_root(configuration[p]).path
    <3>1. root \in dirs \/ \E i \in 1 .. Len(todo) : todo[i] = root
      BY <1>2, <2>4 DEF BootInv, ProcessOk, RootOk
    <3>2. root \in dirs' \/ \E i \in 1 .. Len(left) : left[i] = root
      BY <1>5, <1>6, <3>1
    <3>3. boot'[p].todo = left
      BY <1>1, <2>1 DEF Booting
    <3> QED
      BY <1>2, <1>3, <3>2, <3>3 DEF RootOk
  <2> QED
    BY <1>3, <1>6, <2>2, <2>3, <2>4, ProcessKept DEF BootInv, ProcessOk
<1>7. CASE Blocked(d) /\ boot' = [boot EXCEPT ![p].failed = TRUE] /\ UNCHANGED dirs
  <2>1. boot'[p] = [boot[p] EXCEPT !.failed = TRUE]
    BY <1>7 DEF BootInv
  <2>2. boot' \in [Process -> Booting] /\ \A q \in Process : q # p => boot'[q] = boot[q]
    BY Zenon, <1>1, <1>7 DEF BootInv, Booting
  <2>3. BootOk(p)'
    BY Zenon, <1>1, <1>2, <1>3, <1>7, <2>1 DEF BootInv, ProcessOk, BootOk, Booting, Blocked
  <2>4. Config.daemon.kind = "relative" => RootOk(p)'
    BY <1>1, <1>2, <1>3, <1>7, <2>1 DEF BootInv, ProcessOk, RootOk, Booting
  <2> QED
    BY <1>3, <1>7, <2>2, <2>3, <2>4, ProcessKept DEF BootInv, ProcessOk
<1>8. CASE Todo(p, Append(todo, path_parent(d))) /\ UNCHANGED dirs
  <2>1. boot'[p] = [boot[p] EXCEPT !.todo = Append(todo, path_parent(d))]
    BY <1>8 DEF Todo, BootInv
  <2>2. boot' \in [Process -> Booting] /\ \A q \in Process : q # p => boot'[q] = boot[q]
    BY Zenon, <1>1, <1>4, <1>8 DEF Todo, BootInv, Booting
  <2>3. BootOk(p)'
    BY <1>1, <1>2, <1>3, <2>1 DEF BootInv, ProcessOk, BootOk, Booting
  <2>4. Config.daemon.kind = "relative" => RootOk(p)'
    BY <1>1, <1>2, <1>3, <1>8, <2>1 DEF BootInv, ProcessOk, RootOk, Booting
  <2> QED
    BY <1>3, <1>8, <2>2, <2>3, <2>4, ProcessKept DEF BootInv, ProcessOk
<1> QED
  BY <1>6, <1>7, <1>8 DEF Mkdir, path_mkdir

LEMMA BootEndsKeeps == ASSUME BootInv, NEW p \in Process, BootEnds(p) PROVE BootInv'
<1>1. /\ boot' = [boot EXCEPT ![p] = NoBoot]
      /\ configuration' = [configuration EXCEPT ![p] = << >>]
      /\ UNCHANGED <<at, path, dirs, nondirs>>
  BY DEF BootEnds, pidVars, procVars
<1>2. NoBoot \in Booting /\ << >> \in Name
  BY DEF NoBoot, Booting, Name
<1>3. boot' \in [Process -> Booting] /\ configuration' \in [Process -> Name]
  BY <1>1, <1>2 DEF BootInv
<1>4. at[p] = "off"
  BY DEF BootEnds, BootInv, ProcessOk, BootOk
<1>5. ProcessOk(p)'
  BY <1>1, <1>4, ProcessGone DEF BootInv
<1>6. ASSUME NEW q \in Process, q # p PROVE ProcessOk(q)'
  BY <1>1, <1>6, ProcessKept DEF BootInv
<1> QED
  BY <1>3, <1>5, <1>6 DEF BootInv

\* daemon_init begins with the PID file of the configuration, once the root is there.
LEMMA DaemonizeKeeps ==
  ASSUME PidTypeInv, BootInv, NEW p \in Process, Daemonize(p) PROVE BootInv'
<1>1. /\ boot' = [boot EXCEPT ![p] = NoBoot] /\ path' = [path EXCEPT ![p] = boot[p].daemon]
      /\ at' = [at EXCEPT ![p] = "guard"] /\ UNCHANGED <<configuration, dirs, nondirs>>
      /\ boot[p].active /\ boot[p].todo = << >>
  BY DEF Daemonize, Launch, Goto
<1>2. boot' \in [Process -> Booting] /\ configuration' \in [Process -> Name]
  BY <1>1 DEF BootInv, NoBoot, Booting, Name
<1>3. ProcessOk(p)'
  <2>1. boot'[p] = NoBoot /\ path'[p] = boot[p].daemon /\ configuration'[p] = configuration[p]
    BY <1>1 DEF BootInv, PidTypeInv
  <2>2. BootOk(p)'
    BY <1>1, <2>1 DEF BootInv, ProcessOk, BootOk, NoBoot
  <2>3. Config.daemon.kind = "relative" => RootOk(p)'
    BY <1>1, <2>1 DEF BootInv, ProcessOk, RootOk, NoBoot
  <2> QED
    BY <2>2, <2>3 DEF ProcessOk
<1>4. ASSUME NEW q \in Process, q # p PROVE ProcessOk(q)'
  BY <1>1, <1>4, ProcessKept DEF BootInv, PidTypeInv
<1> QED
  BY <1>2, <1>3, <1>4 DEF BootInv

\* A step of daemon.c changes what one process is about to do, and no name; only the
\* last steps end the process.
LEMMA PidStepPath ==
  ASSUME PidTypeInv, NEW p \in Process, PidStep(p) \/ Exit(p) \/ Crash(p) \/ ParentExits(p)
  PROVE  /\ UNCHANGED path /\ \A q \in Process : q # p => at'[q] = at[q]
         /\ Release(p) \/ Crash(p) => at[p] # "off"
         /\ Acquire(p) \/ Publish(p) \/ Exit(p) \/ ParentExits(p) =>
               (at'[p] = "off" <=> at[p] = "off")
<1> USE DEF PidTypeInv, Goto
<1>1. Acquire(p) =>
        /\ UNCHANGED path /\ \A q \in Process : q # p => at'[q] = at[q]
        /\ at[p] # "off" /\ at'[p] # "off"
  BY DEF Acquire, LockGuard, OpenPid, LockPid, CheckPid
<1>2. Publish(p) =>
        /\ UNCHANGED path /\ \A q \in Process : q # p => at'[q] = at[q]
        /\ at[p] # "off" /\ at'[p] # "off"
  BY DEF Publish, Fork, Truncate, Write, Redirect
<1>3. Release(p) \/ Crash(p) =>
        /\ UNCHANGED path /\ \A q \in Process : q # p => at'[q] = at[q]
        /\ at[p] # "off"
  BY DEF Release, Compare, Unlink, ClosePid, Unguard, Crash
<1>4. Exit(p) \/ ParentExits(p) =>
        /\ UNCHANGED path /\ \A q \in Process : q # p => at'[q] = at[q]
        /\ at'[p] = "off" <=> at[p] = "off"
  BY DEF Exit, ParentExits
<1> QED
  BY <1>1, <1>2, <1>3, <1>4 DEF PidStep

LEMMA PidStepKeeps ==
  ASSUME BootInv, NEW p \in Process,
         UNCHANGED path, \A q \in Process : q # p => at'[q] = at[q],
         \/ at[p] # "off" /\ Forget(p)
         \/ (at'[p] = "off" <=> at[p] = "off") /\ UNCHANGED configuration,
         UNCHANGED <<boot, dirs, nondirs>>
  PROVE  BootInv'
<1>1. << >> \in Name
  BY DEF Name
<1>2. /\ configuration' \in [Process -> Name]
      /\ \A q \in Process : q # p => configuration'[q] = configuration[q]
      /\ at'[p] # "off" => at[p] # "off" /\ configuration'[p] = configuration[p]
      /\ at'[p] = "off" /\ at[p] = "off" => configuration'[p] = configuration[p]
  BY <1>1 DEF Forget, BootInv
<1>3. ASSUME NEW q \in Process, q # p PROVE ProcessOk(q)'
  BY <1>2, <1>3, ProcessKept DEF BootInv
<1>4. ProcessOk(p)'
  <2>1. CASE at'[p] # "off" \/ at[p] = "off"
    BY <1>2, <2>1, ProcessKept DEF BootInv
  <2>2. CASE at'[p] = "off" /\ at[p] # "off"
    <3>1. boot[p] = NoBoot
      BY <2>2 DEF BootInv, ProcessOk, BootOk
    <3> QED
      BY <2>2, <3>1, ProcessGone
  <2> QED
    BY <2>1, <2>2
<1> QED
  BY <1>2, <1>3, <1>4 DEF BootInv

LEMMA BootNext == PidTypeInv /\ BootInv /\ [Next]_vars => BootInv'
<1> SUFFICES ASSUME PidTypeInv, BootInv, [Next]_vars PROVE BootInv'
  OBVIOUS
<1>1. CASE UNCHANGED <<at, path, bootVars>>
  <2>1. \A q \in Process : ProcessOk(q)'
    BY <1>1, ProcessKept DEF BootInv, bootVars
  <2> QED
    BY <1>1, <2>1 DEF BootInv, bootVars
<1>2. ASSUME NEW p \in Process, Main(p) \/ Mkdir(p) \/ BootEnds(p) \/ Daemonize(p) PROVE BootInv'
  BY <1>2, MainKeeps, MkdirKeeps, BootEndsKeeps, DaemonizeKeeps
<1>3. ASSUME NEW p \in Process, Daemon(p) \/ Leave(p) \/ Stop(p) PROVE BootInv'
  <2>1. (Acquire(p) \/ Publish(p) \/ ParentExits(p) \/ Exit(p)) /\ UNCHANGED bootVars
    BY <1>3 DEF Daemon, Leave, Stop
  <2> QED
    BY <2>1, PidStepPath, PidStepKeeps DEF PidStep, bootVars
<1>4. ASSUME NEW p \in Process, GiveUp(p) \/ Killed(p) \/ DefaultSignal(p) PROVE BootInv'
  <2>1. (Release(p) \/ Crash(p)) /\ Forget(p) /\ UNCHANGED <<boot, dirs, nondirs>>
    BY <1>4 DEF GiveUp, Killed, DefaultSignal
  <2> QED
    BY <2>1, PidStepPath, PidStepKeeps DEF PidStep
<1>5. ASSUME NEW p \in Process,
             \/ FirstPoll(p) \/ PollEvent(p) \/ RunExit(p) \/ PollExit(p) \/ PollError(p)
             \/ LoggerReopens(p) \/ TakeShutdown(p) \/ ServicesGone(p) \/ TimerEnds(p)
             \/ Hangup(p) \/ Terminate(p) \/ ServicesAbort(p)
      PROVE  BootInv'
  <2>1. UNCHANGED <<pidVars, bootVars>>
    BY <1>5 DEF FirstPoll, PollEvent, RunExit, PollExit, PollError, LoggerReopens, TakeShutdown,
       ServicesGone, TimerEnds, Hangup, Terminate, ServicesAbort, Controls
  <2> QED
    BY <1>1, <2>1 DEF pidVars, procVars
<1>6. CASE Unrelated
  BY <1>1, <1>6 DEF Unrelated, OtherProcess, procVars
<1>7. CASE UNCHANGED vars
  BY <1>1, <1>7 DEF vars, pidVars, procVars
<1> QED
  BY <1>2, <1>3, <1>4, <1>5, <1>6, <1>7 DEF Next, ControlStep

LEMMA BootInit == Init => BootInv
<1> SUFFICES ASSUME Init PROVE BootInv
  OBVIOUS
<1>1. NoBoot \in Booting /\ << >> \in Name
  BY DEF NoBoot, Booting, Name
<1>2. \A p \in Process : ProcessOk(p)
  BY DEF Init, PidInit, ProcessOk, BootOk, RootOk, NoBoot
<1> QED
  BY <1>1, <1>2 DEF Init, BootInv
-----------------------------------------------------------------------------
\* In every behaviour a process uses the PID file its configuration names, and the
\* directories it has prepared are there.
THEOREM NodesPrepared == Spec => [](PidInv /\ BootInv)
<1>1. Init => PidInv /\ BootInv
  BY PidInitInv, BootInit DEF Init
<1>2. PidInv /\ BootInv /\ [Next]_vars => PidInv' /\ BootInv'
  BY NodeStep, PidNextInv, BootNext DEF PidInv
<1> QED
  BY <1>1, <1>2, PTL DEF Spec

\* At most one node starts or serves with a configuration, whatever directory each was
\* started in and whatever it calls the configuration.
THEOREM OneNodePerConfiguration == Spec => []OneInstance
<1>1. ASSUME PidInv, BootInv PROVE OneInstance
  <2>1. ASSUME NEW p \in Process,
               at[p] \in {"fork", "truncate", "write", "redirect", "run"}
        PROVE  Holds(p) /\ path[p] = config_load(configuration[p]).daemon
    <3>1. at[p] \in Guarded /\ at[p] # "off"
      BY <2>1 DEF Guarded
    <3> QED
      BY <1>1, <3>1 DEF PidInv, StepInv, Holds, BootInv, ProcessOk, BootOk
  <2> QED
    BY <1>1, <2>1 DEF PidInv, GuardInv, OneInstance
<1> QED
  BY <1>1, NodesPrepared, PTL

\* Nodes that make the same directories at the same time do not make each other fail,
\* and none goes on before its run root exists.
THEOREM DirectoriesMade == Spec => []DirectoriesShared
<1>1. PidInv /\ BootInv => DirectoriesShared
  BY DEF BootInv, ProcessOk, BootOk, RootOk, DirectoriesShared
<1> QED
  BY <1>1, NodesPrepared, PTL
-----------------------------------------------------------------------------
\* The places of the SIGHUPs in a queue.
Places(events) == {i \in 1 .. Len(events) : events[i] = "REOPEN_LOG"}

LEMMA UntakenFinite ==
  ASSUME NEW events \in Seq(Event)
  PROVE  /\ IsFiniteSet(Places(events)) /\ Untaken(events) = Cardinality(Places(events))
         /\ Untaken(events) \in Nat
<1>1. IsFiniteSet(1 .. Len(events))
  BY FS_Interval
<1>2. Places(events) \in SUBSET (1 .. Len(events))
  BY DEF Places
<1>3. IsFiniteSet(Places(events))
  BY <1>1, <1>2, FS_Subset
<1>4. Untaken(events) = Cardinality(Places(events))
  BY DEF Untaken, Places
<1> QED
  BY <1>3, <1>4, FS_CardinalityType

\* push_event: a SIGHUP more if that is the event, and the same ones otherwise.
LEMMA UntakenPushed ==
  ASSUME NEW events \in Seq(Event), NEW event \in Event
  PROVE  Untaken(Append(events, event)) =
           IF event = "REOPEN_LOG" THEN Untaken(events) + 1 ELSE Untaken(events)
<1> DEFINE pushed == Append(events, event)
           last == Len(events) + 1
<1>1. /\ pushed \in Seq(Event) /\ Len(pushed) = last /\ pushed[last] = event
      /\ \A i \in 1 .. Len(events) : pushed[i] = events[i]
  BY DEF Event
<1>2. last \notin Places(events)
  BY DEF Places
<1>3. CASE event = "REOPEN_LOG"
  <2>1. Places(pushed) = Places(events) \cup {last}
    BY <1>1, <1>3 DEF Places
  <2>2. Cardinality(Places(events) \cup {last}) = Cardinality(Places(events)) + 1
    BY Zenon, <1>2, UntakenFinite, FS_AddElement
  <2>3. Untaken(pushed) = Cardinality(Places(pushed))
    BY Zenon, <1>1, UntakenFinite
  <2> QED
    BY Zenon, <1>3, <2>1, <2>2, <2>3, UntakenFinite
<1>4. CASE event # "REOPEN_LOG"
  <2>1. Places(pushed) = Places(events)
    BY <1>1, <1>4 DEF Places
  <2> QED
    BY Zenon, <1>1, <1>4, <2>1, UntakenFinite
<1> QED
  BY <1>3, <1>4

\* poll takes the first event: the places of the others move by one.
LEMMA UntakenTaken ==
  ASSUME NEW events \in Seq(Event), events # << >>
  PROVE  /\ Tail(events) \in Seq(Event) /\ Head(events) \in Event
         /\ Untaken(events) =
              IF Head(events) = "REOPEN_LOG" THEN Untaken(Tail(events)) + 1
              ELSE Untaken(Tail(events))
<1> DEFINE left == Tail(events)
           moved == {i \in 2 .. Len(events) : events[i] = "REOPEN_LOG"}
           by == [i \in Places(left) |-> i + 1]
<1>1. /\ left \in Seq(Event) /\ Len(left) = Len(events) - 1 /\ Len(events) \in Nat \ {0}
      /\ \A i \in 1 .. Len(left) : left[i] = events[i + 1]
      /\ Head(events) = events[1] /\ Head(events) \in Event
  OBVIOUS
<1> HIDE DEF left
<1>2. ExistsBijection(Places(left), moved)
  <2>1. by \in [Places(left) -> moved]
    BY <1>1 DEF Places
  <2>2. \A i, j \in Places(left) : by[i] = by[j] => i = j
    BY <1>1 DEF Places
  <2>3. \A j \in moved : \E i \in Places(left) : by[i] = j
    <3> SUFFICES ASSUME NEW j \in moved PROVE \E i \in Places(left) : by[i] = j
      OBVIOUS
    <3>1. j - 1 \in Places(left) /\ (j - 1) + 1 = j
      BY <1>1 DEF Places
    <3> QED
      BY <3>1
  <2>4. by \in Bijection(Places(left), moved)
    BY <2>1, <2>2, <2>3 DEF Bijection, Injection, Surjection, IsInjective
  <2> QED
    BY <2>4 DEF ExistsBijection
<1>3. IsFiniteSet(moved) /\ Cardinality(moved) = Untaken(left)
  <2>1. IsFiniteSet(Places(left)) /\ Untaken(left) = Cardinality(Places(left))
    BY <1>1, UntakenFinite
  <2> HIDE DEF moved
  <2> QED
    BY <1>2, <2>1, FS_Bijection
<1>4. CASE Head(events) = "REOPEN_LOG"
  <2>1. Places(events) = moved \cup {1} /\ 1 \notin moved
    BY <1>1, <1>4 DEF Places
  <2> QED
    <3>1. Untaken(events) = Cardinality(Places(events))
      BY UntakenFinite
    <3> HIDE DEF moved
    <3>2. Cardinality(moved \cup {1}) = Cardinality(moved) + 1
      BY <1>3, <2>1, FS_AddElement
    <3> QED
      BY <1>1, <1>3, <1>4, <2>1, <3>1, <3>2 DEF left
<1>5. CASE Head(events) # "REOPEN_LOG"
  <2>1. Places(events) = moved
    BY <1>1, <1>5 DEF Places
  <2> QED
    BY Zenon, <1>1, <1>3, <1>5, <2>1, UntakenFinite DEF left
<1> QED
  BY <1>4, <1>5

LEMMA UntakenEmpty == << >> \in Seq(Event) /\ Untaken(<< >>) = 0
<1>1. Places(<< >>) = {} /\ << >> \in Seq(Event)
  BY DEF Places
<1> QED
  BY Zenon, <1>1, UntakenFinite, FS_EmptySet
-----------------------------------------------------------------------------
\* The control state of a process, and the SIGHUPs that are due: no reopening is in
\* the logger's queue that no SIGHUP asked for.
DueOk(c) ==
  /\ c \in Control /\ c.mail <= c.hangups
  /\ c.services = "up" => c.hangups = Untaken(c.events) + c.mail

HangupInv == control \in [Process -> Control] /\ \A p \in Process : DueOk(control[p])

\* Handlers assign fields of the control state.
LEMMA FieldsTyped ==
  /\ \A c \in Control, events \in Seq(Event) : [c EXCEPT !.events = events] \in Control
  /\ \A c \in Control, n \in Nat : [c EXCEPT !.mail = n] \in Control
  /\ \A c \in Control, n \in Nat : [c EXCEPT !.hangups = n] \in Control
  /\ \A c \in Control : [c EXCEPT !.services = "gone"] \in Control
BY DEF Control

\* What each handler makes of a control state in which nothing is lost.
LEMMA SignalsDue ==
  ASSUME NEW c, DueOk(c), NEW yes \in BOOLEAN
  PROVE  /\ DueOk(initialize_process_signals(c, yes))
         /\ DueOk(on_hangup_signal(c, yes)) /\ DueOk(on_termination_signal(c, yes))
<1>1. c \in Control /\ c.events \in Seq(Event) /\ c.mail \in Nat /\ c.hangups \in Nat
  BY DEF DueOk, Control
<1>2. DueOk(initialize_process_signals(c, yes))
  BY <1>1 DEF DueOk, Control, initialize_process_signals
<1>3. \A event \in Event : Append(c.events, event) \in Seq(Event)
  BY <1>1
<1>4. DueOk(on_hangup_signal(c, yes))
  <2>1. CASE yes
    <3>1. "REOPEN_LOG" \in Event
      BY DEF Event
    <3>2. Untaken(Append(c.events, "REOPEN_LOG")) = Untaken(c.events) + 1
      BY <1>1, <3>1, UntakenPushed
    <3>3. Untaken(c.events) \in Nat
      BY <1>1, UntakenFinite
    <3>4. on_hangup_signal(c, yes) =
            [c EXCEPT !.events = Append(c.events, "REOPEN_LOG"), !.hangups = c.hangups + 1]
      BY <1>1, <2>1 DEF on_hangup_signal, push_event, Control
    <3> QED
      <4> DEFINE d == on_hangup_signal(c, yes)
      <4>1. d \in Control
        <5>1. c.hangups + 1 \in Nat /\ Append(c.events, "REOPEN_LOG") \in Seq(Event)
          BY <1>1, <1>3, <3>1
        <5>2. [c EXCEPT !.events = Append(c.events, "REOPEN_LOG")] \in Control
          BY Zenon, <1>1, <5>1, FieldsTyped
        <5>3. [c EXCEPT !.events = Append(c.events, "REOPEN_LOG"), !.hangups = c.hangups + 1]
                \in Control
          BY Zenon, <5>1, <5>2, FieldsTyped
        <5> QED
          BY Zenon, <3>4, <5>3
      <4>2. /\ d.events = Append(c.events, "REOPEN_LOG") /\ d.hangups = c.hangups + 1
            /\ d.mail = c.mail /\ d.services = c.services
        BY <1>1, <3>4 DEF Control
      <4> HIDE DEF d
      <4>3. DueOk(d)
        BY <1>1, <3>2, <3>3, <4>1, <4>2 DEF DueOk
      <4> QED
        BY <4>3 DEF d
  <2>2. CASE ~yes
    <3>1. on_hangup_signal(c, yes) = c
      BY <1>1, <2>2 DEF on_hangup_signal, push_event, Control
    <3> QED
      BY <3>1
  <2> QED
    BY <2>1, <2>2
<1>5. DueOk(on_termination_signal(c, yes))
  <2>1. "PROCESS_SHUTDOWN" \in Event /\ "PROCESS_SHUTDOWN" # "REOPEN_LOG"
    BY DEF Event
  <2>2. Untaken(Append(c.events, "PROCESS_SHUTDOWN")) = Untaken(c.events)
    BY <1>1, <2>1, UntakenPushed
  <2> QED
    BY <1>1, <1>3, <2>1, <2>2 DEF DueOk, Control, on_termination_signal, push_event
<1> QED
  BY <1>2, <1>4, <1>5

\* poll moves a SIGHUP from the events to the logger's queue, and the logger answers it.
LEMMA LoggerDue ==
  ASSUME NEW c, DueOk(c)
  PROVE  /\ c.events # << >> => DueOk(socket_server_poll(c))
         /\ c.mail > 0 => DueOk(logger_reopen(c))
<1>1. c \in Control /\ c.events \in Seq(Event) /\ c.mail \in Nat /\ c.hangups \in Nat
  BY DEF DueOk, Control
<1>2. ASSUME c.events # << >> PROVE DueOk(socket_server_poll(c))
  <2> DEFINE left == Tail(c.events)
  <2>1. left \in Seq(Event) /\ Untaken(left) \in Nat
    BY Zenon, <1>1, <1>2, UntakenTaken, UntakenFinite
  <2>2. Untaken(c.events) =
          IF Head(c.events) = "REOPEN_LOG" THEN Untaken(left) + 1 ELSE Untaken(left)
    BY <1>1, <1>2, UntakenTaken
  <2>3. socket_server_poll(c) =
          IF Head(c.events) = "REOPEN_LOG" /\ c.services = "up"
          THEN [c EXCEPT !.events = left, !.mail = c.mail + 1]
          ELSE [c EXCEPT !.events = left]
    BY <1>1 DEF socket_server_poll, reopen_log, Control
  <2> HIDE DEF left
  <2>4. CASE Head(c.events) = "REOPEN_LOG" /\ c.services = "up"
    <3> DEFINE d == socket_server_poll(c)
    <3>1. d \in Control
      <4>1. c.mail + 1 \in Nat
        BY <1>1
      <4>2. [c EXCEPT !.events = left] \in Control
        BY Zenon, <1>1, <2>1, FieldsTyped
      <4>3. [c EXCEPT !.events = left, !.mail = c.mail + 1] \in Control
        BY Zenon, <4>1, <4>2, FieldsTyped
      <4>4. d = [c EXCEPT !.events = left, !.mail = c.mail + 1]
        BY Zenon, <2>3, <2>4
      <4> QED
        BY Zenon, <4>3, <4>4
    <3>2. d.events = left /\ d.hangups = c.hangups /\ d.mail = c.mail + 1
      BY <1>1, <2>3, <2>4 DEF Control
    <3> HIDE DEF d
    <3>3. DueOk(d)
      BY <1>1, <2>1, <2>2, <2>4, <3>1, <3>2 DEF DueOk
    <3> QED
      BY <3>3 DEF d
  <2>5. CASE ~(Head(c.events) = "REOPEN_LOG" /\ c.services = "up")
    BY <1>1, <2>1, <2>2, <2>3, <2>5 DEF DueOk, Control
  <2> QED
    BY <2>4, <2>5
<1>3. ASSUME c.mail > 0 PROVE DueOk(logger_reopen(c))
  <2>1. Untaken(c.events) \in Nat
    BY <1>1, UntakenFinite
  <2> QED
    <3> DEFINE d == logger_reopen(c)
    <3>1. c.mail - 1 \in Nat /\ c.hangups - 1 \in Nat
      BY <1>1, <1>3 DEF DueOk
    <3>2. d \in Control
      BY Zenon, <1>1, <3>1 DEF Control, logger_reopen
    <3>3. /\ d.events = c.events /\ d.hangups = c.hangups - 1 /\ d.mail = c.mail - 1
          /\ d.services = c.services
      BY <1>1 DEF Control, logger_reopen
    <3> HIDE DEF d
    <3>4. DueOk(d)
      BY <1>1, <2>1, <3>2, <3>3 DEF DueOk
    <3> QED
      BY <3>4 DEF d
<1> QED
  BY <1>2, <1>3

\* The steps that end a node: services that are not up are never up again.
LEMMA EndingDue ==
  ASSUME NEW c, DueOk(c)
  PROVE  /\ DueOk(process_exit(c)) /\ DueOk(socket_ends(c))
         /\ DueOk(socket_server_updatetime(c)) /\ DueOk(services_gone(c))
         /\ DueOk([c EXCEPT !.services = "retiring"])
         /\ \A ok \in BOOLEAN : DueOk(timer_ends(socket_server_exit(c, ok)))
<1>1. DueOk(process_exit(c)) /\ DueOk(socket_ends(c))
  BY DEF DueOk, Control, process_exit, socket_ends
<1>2. DueOk(socket_server_updatetime(c))
  BY DEF DueOk, Control, socket_server_updatetime
<1>3. DueOk(services_gone(c))
  <2> DEFINE d == services_gone(c)
  <2>1. c \in Control /\ 0 \in Nat
    BY DEF DueOk
  <2>2. d \in Control
    BY Zenon, <2>1, FieldsTyped DEF services_gone
  <2>3. d.mail = 0 /\ d.hangups = 0 /\ d.services = "gone"
    BY <2>1 DEF services_gone, Control
  <2> HIDE DEF d
  <2>4. DueOk(d)
    BY <2>2, <2>3 DEF DueOk
  <2> QED
    BY <2>4 DEF d
<1>4. DueOk([c EXCEPT !.services = "retiring"])
  BY DEF DueOk, Control
<1>5. ASSUME NEW ok \in BOOLEAN PROVE DueOk(timer_ends(socket_server_exit(c, ok)))
  BY Zenon DEF DueOk, Control, timer_ends, socket_server_exit
<1> QED
  BY <1>1, <1>2, <1>3, <1>4, <1>5

LEMMA NewDue == DueOk(NewControl)
<1>1. NewControl \in Control
  BY UntakenEmpty DEF NewControl, Control
<1> QED
  BY <1>1, UntakenEmpty DEF DueOk, NewControl

\* A step gives one process a control state, or leaves all of them alone.
LEMMA ControlSet ==
  ASSUME HangupInv, NEW p \in Process, NEW c, DueOk(c), control' = [control EXCEPT ![p] = c]
  PROVE  HangupInv'
<1>1. c \in Control
  BY DEF DueOk
<1>2. control' \in [Process -> Control]
  BY <1>1 DEF HangupInv
<1>3. ASSUME NEW q \in Process PROVE DueOk(control'[q])
  BY DEF HangupInv
<1> QED
  BY <1>2, <1>3 DEF HangupInv

LEMMA HangupNext == HangupInv /\ [Next]_vars => HangupInv'
<1> SUFFICES ASSUME HangupInv, [Next]_vars PROVE HangupInv'
  OBVIOUS
<1>1. ASSUME UNCHANGED control PROVE HangupInv'
  BY <1>1 DEF HangupInv
<1>2. ASSUME NEW p \in Process, Forget(p) PROVE HangupInv'
  BY <1>1, <1>2, NewDue, ControlSet DEF Forget
<1>3. ASSUME NEW p \in Process, GiveUp(p) \/ Killed(p) \/ DefaultSignal(p) PROVE HangupInv'
  BY <1>2, <1>3 DEF GiveUp, Killed, DefaultSignal
<1>4. ASSUME NEW p \in Process, FirstPoll(p) \/ Hangup(p) \/ Terminate(p) PROVE HangupInv'
  <2>1. DueOk(control[p])
    BY DEF HangupInv
  <2>2. PICK yes \in BOOLEAN :
          \/ control' = [control EXCEPT ![p] = initialize_process_signals(control[p], yes)]
          \/ control' = [control EXCEPT ![p] = on_hangup_signal(control[p], yes)]
          \/ control' = [control EXCEPT ![p] = on_termination_signal(control[p], yes)]
    BY <1>4 DEF FirstPoll, Hangup, Terminate, Controls
  <2> QED
    BY <2>1, <2>2, SignalsDue, ControlSet
<1>5. ASSUME NEW p \in Process, PollEvent(p) \/ LoggerReopens(p) PROVE HangupInv'
  <2>1. DueOk(control[p])
    BY DEF HangupInv
  <2>2. \/ /\ control[p].events # << >>
           /\ control' = [control EXCEPT ![p] = socket_server_poll(control[p])]
        \/ /\ control[p].mail > 0
           /\ control' = [control EXCEPT ![p] = logger_reopen(control[p])]
    BY <1>5 DEF PollEvent, LoggerReopens, Controls
  <2> QED
    BY <2>1, <2>2, LoggerDue, ControlSet
<1>6. ASSUME NEW p \in Process,
             \/ RunExit(p) \/ PollExit(p) \/ PollError(p) \/ TakeShutdown(p)
             \/ ServicesAbort(p) \/ ServicesGone(p) \/ TimerEnds(p)
      PROVE  HangupInv'
  <2>1. DueOk(control[p])
    BY DEF HangupInv
  <2>2. \/ control' = [control EXCEPT ![p] = process_exit(control[p])]
        \/ control' = [control EXCEPT ![p] = socket_ends(control[p])]
        \/ \E ok \in BOOLEAN :
              control' = [control EXCEPT ![p] = timer_ends(socket_server_exit(control[p], ok))]
        \/ control' = [control EXCEPT ![p] = socket_server_updatetime(control[p])]
        \/ control' = [control EXCEPT ![p] = services_gone(control[p])]
        \/ control' = [control EXCEPT ![p] = [control[p] EXCEPT !.services = "retiring"]]
    BY <1>6 DEF RunExit, PollExit, PollError, TakeShutdown, ServicesAbort, ServicesGone,
       TimerEnds, Controls
  <2> QED
    BY Zenon, <2>1, <2>2, EndingDue, ControlSet
<1>7. ASSUME NEW p \in Process,
             \/ Main(p) \/ Mkdir(p) \/ BootEnds(p) \/ Daemonize(p) \/ Daemon(p) \/ Leave(p)
             \/ Stop(p)
      PROVE  HangupInv'
  BY <1>1, <1>7 DEF Main, Mkdir, BootEnds, Daemonize, Daemon, Leave, Stop, controlVars
<1>8. ASSUME Unrelated PROVE HangupInv'
  BY <1>1, <1>8 DEF Unrelated, controlVars
<1>9. CASE UNCHANGED vars
  BY <1>1, <1>9 DEF vars, controlVars
<1> QED
  BY <1>3, <1>4, <1>5, <1>6, <1>7, <1>8, <1>9 DEF Next, ControlStep

\* While a node runs, every SIGHUP whose event was queued is among the runtime's events
\* or in the logger's queue until the logger has reopened its file, however signals,
\* poll, the logger and the timer thread interleave and however many nodes there are.
THEOREM HangupsAreKept == Spec => []HangupNotLost
<1>1. Init => HangupInv
  <2>1. NewControl \in Control
    BY NewDue DEF DueOk
  <2> QED
    BY <2>1, NewDue DEF Init, HangupInv
<1>2. HangupInv => HangupNotLost
  BY DEF HangupInv, DueOk, HangupNotLost
<1> QED
  BY <1>1, <1>2, HangupNext, PTL DEF Spec
=============================================================================
