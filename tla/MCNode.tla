------------------------------- MODULE MCNode -------------------------------
(***************************************************************************)
(* An instance of Node: an installation in /app, reached through /link as  *)
(* well, whose configuration asks for a log and a PID file in directories  *)
(* that do not exist yet.                                                  *)
(***************************************************************************)
EXTENDS Node

MCComponent == {"app", "bin", "conf", "home", "link", "log", "pid", "run", "skyuv", "var"}

MCFiles == {<< >>, <<"app">>, <<"app", "conf">>, <<"home">>}

MCLinks == [link |-> <<"app">>]

MCExe == <<"app", "bin", "skyuv">>

MCConfig ==
  [skyuv_run_root |-> Relative(<<"var">>), skyuv_log_root |-> Relative(<<"var", "log">>),
   logger |-> Relative(<<"log">>), daemon |-> Relative(<<"pid">>), logservice |-> FALSE]

MCMissing == Missing

\* The configuration is found in the working directory, in the installation, or
\* through a link.
MCWorking == {<<"app">>, <<"home">>}

MCConfigNames == {Relative(<<"conf">>), Absolute(<<"link", "conf">>)}

MCPath == {<<"app", "var", "pid">>, <<"home", "var", "pid">>}

MCObstacles == {<<"app", "var">>}
=============================================================================
