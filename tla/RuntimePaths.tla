---------------------------- MODULE RuntimePaths ----------------------------
(***************************************************************************)
(* Where a node started with --runtime-paths puts its log and its PID      *)
(* file: runtime/launcher.c finds the configuration and the directory it   *)
(* is in, runtime/config.c chooses the roots and resolves the two files    *)
(* against them, with the helpers of platform/runtime_paths.c.             *)
(*                                                                         *)
(* An absolute path is the sequence of its components.  A setting is       *)
(* missing, malformed (not a string, or too long an environment variable), *)
(* or a relative or absolute path; the empty string is relative.           *)
(***************************************************************************)
EXTENDS Integers, Sequences

CONSTANTS Component,       \* names of files and directories
          Files,           \* existing files and directories, by their real path
          Links,           \* symbolic links: components of the root directory to paths
          Exe,             \* the executable, uv_exepath
          PATH_CAPACITY,   \* SKYUV_RUNTIME_PATH_CAPACITY, in components
          RunRootOption, LogRootOption,        \* --run-root, --log-root
          RunRootVariable, LogRootVariable,    \* SKYUV_RUN_ROOT, SKYUV_LOG_ROOT
          Config           \* the keys of the configuration

Name == Seq(Component)
Setting == [kind : {"missing", "malformed", "relative", "absolute"}, parts : Name]

ASSUME PathsAssumption ==
  /\ {"log", "run"} \subseteq Component
  /\ Files \subseteq Name /\ Exe \in Name /\ \A link \in DOMAIN Links : Links[link] \in Name
  /\ PATH_CAPACITY \in Nat
  /\ {RunRootOption, LogRootOption, RunRootVariable, LogRootVariable} \subseteq Setting
  /\ Config \in [skyuv_run_root : Setting, skyuv_log_root : Setting, logger : Setting,
                 daemon : Setting, logservice : BOOLEAN]

Missing == [kind |-> "missing", parts |-> << >>]
Relative(parts) == [kind |-> "relative", parts |-> parts]
Absolute(parts) == [kind |-> "absolute", parts |-> parts]

\* The outcome of a function: an error, or a path.
Failure == [ok |-> FALSE, path |-> << >>]
Found(path) == [ok |-> TRUE, path |-> path]

\* uv_fs_realpath, uv_fs_stat.
Real(path) ==
  IF path # << >> /\ Head(path) \in DOMAIN Links THEN Links[Head(path)] \o Tail(path) ELSE path

path_exists(path) == Real(path) \in Files

path_real(path) == IF path_exists(path) THEN Found(Real(path)) ELSE Failure

\* The root directory is its own parent.
path_parent(path) == SubSeq(path, 1, Len(path) - 1)

path_absolute(base, setting) ==
  LET path == IF setting.kind = "absolute" THEN setting.parts ELSE base \o setting.parts IN
  IF \/ setting.kind = "relative" /\ setting.parts = << >>
     \/ Len(path) >= PATH_CAPACITY
  THEN Failure ELSE Found(path)

\* The executable is in bin/ of an installation.
find_install_root ==
  LET dir == path_parent(Exe) IN
  IF dir # << >> /\ dir[Len(dir)] = "bin" THEN Found(path_parent(dir)) ELSE Failure

\* The configuration is looked for in the working directory and, if it is not
\* there, in the installation.
prepare_paths(working, install, config) ==
  LET given == IF install.kind = "relative" THEN working \o install.parts ELSE install.parts
      root == IF install.kind = "missing" THEN find_install_root ELSE path_real(given)
      here == path_absolute(working, config)
      file == IF here.ok /\ ~path_exists(here.path) THEN path_absolute(root.path, config) ELSE here
  IN  IF root.ok /\ file.ok THEN path_real(file.path) ELSE Failure

\* The command line, the environment, the configuration, the default; relative to
\* the directory of the configuration.
resolve_root(option, variable, key, fallback, config_root) ==
  LET value == IF option.kind # "missing" THEN option
               ELSE IF variable.kind # "missing" THEN variable
               ELSE IF key.kind # "missing" THEN key ELSE fallback
  IN  IF value.kind = "malformed" THEN Failure ELSE path_absolute(config_root, value)

\* A file to be written, and the directories made for it.
resolve_output(setting, root) ==
  LET path == path_absolute(root, setting) IN
  CASE setting.kind = "missing" -> [ok |-> TRUE, path |-> << >>, make |-> << >>]
    [] setting.kind = "malformed" \/ ~path.ok -> [ok |-> FALSE, path |-> << >>, make |-> << >>]
    [] OTHER -> [ok |-> TRUE, path |-> path.path,
                 make |-> IF setting.kind = "relative" THEN <<root>> ELSE << >>]

log_root(file) ==
  resolve_root(LogRootOption, LogRootVariable, Config.skyuv_log_root, Relative(<<"log">>),
               path_parent(file))

run_root(file) ==
  resolve_root(RunRootOption, RunRootVariable, Config.skyuv_run_root, Relative(<<"run">>),
               path_parent(file))

\* skyuv_config_load: both roots are resolved, the log comes before the PID file,
\* and only the standard logger has its file resolved.
config_load(file) ==
  LET logger == resolve_output(IF Config.logservice THEN Missing ELSE Config.logger,
                               log_root(file).path)
      daemon == resolve_output(Config.daemon, run_root(file).path)
  IN  [ok |-> log_root(file).ok /\ run_root(file).ok /\ logger.ok /\ daemon.ok,
       logger |-> logger.path, daemon |-> daemon.path, make |-> daemon.make \o logger.make]
=============================================================================
