------------------------------ MODULE PidFile -------------------------------
(***************************************************************************)
(* platform/daemon.c on Linux and macOS: processes that become the one     *)
(* instance behind a PID file, and give it up.                             *)
(*                                                                         *)
(* A process locks <pidfile>.lock, which is never deleted, and then the    *)
(* PID file, which is: that file is an inode, and the name may lead to     *)
(* another one later.  It refuses to start if the file names a living      *)
(* process, forks (the child inherits the locks), and writes its PID.      *)
(* Every system call is a step, may fail where the code expects it to, and *)
(* the process may be killed before it: the kernel then closes its files,  *)
(* which drops the locks, and leaves the PID file as it is.                *)
(*                                                                         *)
(* Locks are flock's: they belong to an open file, so they last until the  *)
(* child and the parent it was forked from have both closed it.            *)
(***************************************************************************)
EXTENDS Integers, FiniteSets

CONSTANTS Process,        \* processes, as places in which one may run after another
          Path,           \* names of PID files
          Inode,          \* inodes for PID files
          Pid,            \* process ids
          Foreign,        \* those that unrelated processes may have
          MaxLaunches,    \* bound on the processes launched
          MaxFaults       \* bound on the processes killed and the unlinks refused

ASSUME PidAssumption ==
  /\ Path # {} /\ Inode \subseteq Nat \ {0} /\ Pid \subseteq Nat \ {0}
  /\ Foreign \subseteq Pid
  /\ MaxLaunches \in Nat /\ MaxFaults \in Nat

VARIABLES at,                          \* the next step of a process, "off" when there is none
          path, pid,
          guard_fd,                    \* holds the lock of <pidfile>.lock
          opened,                      \* the inode lock_file has opened and not yet locked
          pid_fd, owns_pid,
          parent,                      \* what the process was forked from, while it lives
          file,                        \* the inode a name leads to, 0 if none
          content,                     \* the number in a file, 0 if there is none
          others,                      \* ids of unrelated processes
          launches,                    \* the number of processes launched
          faults                       \* the number killed, and of unlinks refused

procVars == <<at, path, pid, guard_fd, opened, pid_fd, owns_pid, parent>>
fileVars == <<file, content>>
countVars == <<launches, faults>>
pidVars == <<procVars, fileVars, others, countVars>>

NoParent == [fd |-> 0, pid |-> 0]

\* acquire, fork, publish, serving, and the steps of skyuv_pid_release.
Step == {"off", "guard", "open", "lock", "check", "fork", "truncate", "write", "redirect",
         "run", "release", "unlink", "close", "unguard"}

PidInit ==
  /\ at = [p \in Process |-> "off"]
  /\ path = [p \in Process |-> CHOOSE f \in Path : TRUE]
  /\ pid = [p \in Process |-> 0]
  /\ guard_fd = [p \in Process |-> FALSE]
  /\ opened = [p \in Process |-> 0]
  /\ pid_fd = [p \in Process |-> 0]
  /\ owns_pid = [p \in Process |-> FALSE]
  /\ parent = [p \in Process |-> NoParent]
  /\ file = [f \in Path |-> 0]
  /\ content = [i \in Inode |-> 0]
  /\ others = {}
  /\ launches = 0 /\ faults = 0
-----------------------------------------------------------------------------
Alive == {pid[p] : p \in Process} \cup {parent[p].pid : p \in Process} \cup others

\* Who holds the locks: a process, or the parent it was forked from.
GuardHeld(f) == \E p \in Process : path[p] = f /\ (guard_fd[p] \/ parent[p] # NoParent)

Locked(i) == \E p \in Process : i \in {pid_fd[p], parent[p].fd}

Unused(i) ==
  /\ \A f \in Path : file[f] # i
  /\ \A p \in Process : i \notin {opened[p], pid_fd[p], parent[p].fd}

Goto(p, step) == at' = [at EXCEPT ![p] = step]

\* A process starts; its id is nobody else's.
Launch(p, f) ==
  /\ at[p] = "off" /\ parent[p] = NoParent /\ launches < MaxLaunches
  /\ launches' = launches + 1
  /\ \E id \in Pid \ Alive : pid' = [pid EXCEPT ![p] = id]
  /\ path' = [path EXCEPT ![p] = f]
  /\ Goto(p, "guard")
  /\ UNCHANGED <<guard_fd, opened, pid_fd, owns_pid, parent, fileVars, others, faults>>

\* skyuv_pid_acquire.  Opening and locking the guard is one step: its inode is
\* always the same.
LockGuard(p) ==
  /\ at[p] = "guard"
  /\ \/ /\ ~GuardHeld(path[p])
        /\ guard_fd' = [guard_fd EXCEPT ![p] = TRUE]
        /\ Goto(p, "open")
     \/ Goto(p, "release") /\ UNCHANGED guard_fd
  /\ UNCHANGED <<path, pid, opened, pid_fd, owns_pid, parent, fileVars, others, countVars>>

\* Inodes are only compared, so a new file may take the first unused one.
OpenPid(p) ==
  /\ at[p] = "open"
  /\ \/ /\ file[path[p]] # 0
        /\ opened' = [opened EXCEPT ![p] = file[path[p]]]
        /\ Goto(p, "lock")
        /\ UNCHANGED fileVars
     \/ /\ file[path[p]] = 0
        /\ \E i \in Inode :
              /\ Unused(i) /\ \A j \in Inode : Unused(j) => i <= j
              /\ file' = [file EXCEPT ![path[p]] = i]
              /\ content' = [content EXCEPT ![i] = 0]
              /\ opened' = [opened EXCEPT ![p] = i]
        /\ Goto(p, "lock")
     \/ Goto(p, "release") /\ UNCHANGED <<opened, fileVars>>
  /\ UNCHANGED <<path, pid, guard_fd, pid_fd, owns_pid, parent, others, countVars>>

LockPid(p) ==
  /\ at[p] = "lock"
  /\ opened' = [opened EXCEPT ![p] = 0]
  /\ \/ /\ ~Locked(opened[p])
        /\ pid_fd' = [pid_fd EXCEPT ![p] = opened[p]]
        /\ Goto(p, "check")
     \/ Goto(p, "release") /\ UNCHANGED pid_fd
  /\ UNCHANGED <<path, pid, guard_fd, owns_pid, parent, fileVars, others, countVars>>

\* The file names a process that kill finds.
StillAlive(p) == content[pid_fd[p]] # 0 /\ content[pid_fd[p]] \in Alive

\* atexit may fail, and then release follows.
CheckPid(p) ==
  /\ at[p] = "check"
  /\ \/ /\ ~StillAlive(p)
        /\ owns_pid' = [owns_pid EXCEPT ![p] = TRUE]
        /\ Goto(p, "fork") \/ Goto(p, "release")
     \/ Goto(p, "release") /\ UNCHANGED owns_pid
  /\ UNCHANGED <<path, pid, guard_fd, opened, pid_fd, parent, fileVars, others, countVars>>

\* daemon_init.  On macOS nothing is forked.
Fork(p) ==
  /\ at[p] = "fork"
  /\ \/ /\ \E id \in Pid \ Alive : pid' = [pid EXCEPT ![p] = id]
        /\ parent' = [parent EXCEPT ![p] = [fd |-> pid_fd[p], pid |-> pid[p]]]
        /\ Goto(p, "truncate")
     \/ Goto(p, "truncate") /\ UNCHANGED <<pid, parent>>
     \/ Goto(p, "release") /\ UNCHANGED <<pid, parent>>
  /\ UNCHANGED <<path, guard_fd, opened, pid_fd, owns_pid, fileVars, others, countVars>>

\* The parent leaves with _exit, which runs no handler: only its files are closed.
ParentExits(p) ==
  /\ parent[p] # NoParent
  /\ parent' = [parent EXCEPT ![p] = NoParent]
  /\ UNCHANGED <<at, path, pid, guard_fd, opened, pid_fd, owns_pid, fileVars, others, countVars>>
-----------------------------------------------------------------------------
\* skyuv_pid_publish: any step may fail, and then release follows.
Truncate(p) ==
  /\ at[p] = "truncate"
  /\ \/ content' = [content EXCEPT ![pid_fd[p]] = 0] /\ Goto(p, "write")
     \/ Goto(p, "release") /\ UNCHANGED content
  /\ UNCHANGED <<path, pid, guard_fd, opened, pid_fd, owns_pid, parent, file, others, countVars>>

\* What a file reads as when only the first digits of n have been written.
FirstDigits(n) == {d \in 1 .. n : \E k \in 0 .. 9 : d = n \div 10 ^ k}

Write_parent(p) ==
  /\ at[p] = "write"
  /\ \/ \E n \in {pid[p]} \cup ({parent[p].pid} \ {0}) :
           content' = [content EXCEPT ![pid_fd[p]] = n] /\ Goto(p, "redirect")
     \/ Goto(p, "release") /\ UNCHANGED content
  /\ UNCHANGED <<path, pid, guard_fd, opened, pid_fd, owns_pid, parent, file, others, countVars>>

\* One turn of the loop that writes the PID.
Write(p) ==
  /\ at[p] = "write"
  /\ \/ \E n \in FirstDigits(pid[p]) :
           content' = [content EXCEPT ![pid_fd[p]] = n] /\ UNCHANGED at
     \/ content' = [content EXCEPT ![pid_fd[p]] = pid[p]] /\ Goto(p, "redirect")
     \/ Goto(p, "release") /\ UNCHANGED content
  /\ UNCHANGED <<path, pid, guard_fd, opened, pid_fd, owns_pid, parent, file, others, countVars>>

\* fsync and redirect_fds end daemon_init.
Redirect(p) ==
  /\ at[p] = "redirect"
  /\ Goto(p, "run") \/ Goto(p, "release")
  /\ UNCHANGED <<path, pid, guard_fd, opened, pid_fd, owns_pid, parent, fileVars, others, countVars>>
-----------------------------------------------------------------------------
\* daemon_exit, and exit() by way of atexit.
Exit(p) ==
  /\ at[p] = "run"
  /\ Goto(p, "release")
  /\ UNCHANGED <<path, pid, guard_fd, opened, pid_fd, owns_pid, parent, fileVars, others, countVars>>

Compare_unguards(p) ==
  /\ at[p] = "release"
  /\ Goto(p, IF pid_fd[p] = 0 THEN "unguard"
             ELSE IF owns_pid[p] /\ file[path[p]] = pid_fd[p] THEN "unlink" ELSE "close")
  /\ guard_fd' = [guard_fd EXCEPT ![p] = FALSE]
  /\ UNCHANGED <<path, pid, opened, pid_fd, owns_pid, parent, fileVars, others, countVars>>

Compare_keeps(p) ==
  /\ at[p] = "release"
  /\ Goto(p, IF pid_fd[p] = 0 THEN "unguard" ELSE "close")
  /\ UNCHANGED <<path, pid, guard_fd, opened, pid_fd, owns_pid, parent, fileVars, others, countVars>>

\* skyuv_pid_release: the name must still lead to the file that is held.
Compare(p) ==
  /\ at[p] = "release"
  /\ Goto(p, IF pid_fd[p] = 0 THEN "unguard"
             ELSE IF owns_pid[p] /\ file[path[p]] = pid_fd[p] THEN "unlink" ELSE "close")
  /\ UNCHANGED <<path, pid, guard_fd, opened, pid_fd, owns_pid, parent, fileVars, others, countVars>>

\* Nobody reads a file without a name.  If unlink fails, that is only reported.
Unlink(p) ==
  /\ at[p] = "unlink"
  /\ Goto(p, "close")
  /\ \/ /\ content' = [content EXCEPT ![file[path[p]]] = 0]
        /\ file' = [file EXCEPT ![path[p]] = 0]
        /\ UNCHANGED faults
     \/ faults < MaxFaults /\ faults' = faults + 1 /\ UNCHANGED fileVars
  /\ UNCHANGED <<path, pid, guard_fd, opened, pid_fd, owns_pid, parent, others, launches>>

ClosePid(p) ==
  /\ at[p] = "close"
  /\ pid_fd' = [pid_fd EXCEPT ![p] = 0]
  /\ owns_pid' = [owns_pid EXCEPT ![p] = FALSE]
  /\ Goto(p, "unguard")
  /\ UNCHANGED <<path, pid, guard_fd, opened, parent, fileVars, others, countVars>>

Unguard(p) ==
  /\ at[p] = "unguard"
  /\ guard_fd' = [guard_fd EXCEPT ![p] = FALSE]
  /\ pid' = [pid EXCEPT ![p] = 0]
  /\ Goto(p, "off")
  /\ UNCHANGED <<path, opened, pid_fd, owns_pid, parent, fileVars, others, countVars>>

\* The process is killed.
Crash(p) ==
  /\ at[p] # "off" /\ faults < MaxFaults
  /\ faults' = faults + 1
  /\ Goto(p, "off")
  /\ pid' = [pid EXCEPT ![p] = 0]
  /\ guard_fd' = [guard_fd EXCEPT ![p] = FALSE]
  /\ opened' = [opened EXCEPT ![p] = 0]
  /\ pid_fd' = [pid_fd EXCEPT ![p] = 0]
  /\ owns_pid' = [owns_pid EXCEPT ![p] = FALSE]
  /\ UNCHANGED <<path, parent, fileVars, others, launches>>

\* Unrelated processes come and go.
OtherProcess ==
  /\ \/ \E id \in Foreign \ Alive : others' = others \cup {id}
     \/ \E id \in others : others' = others \ {id}
  /\ UNCHANGED <<procVars, fileVars, countVars>>
-----------------------------------------------------------------------------
Acquire(p) == LockGuard(p) \/ OpenPid(p) \/ LockPid(p) \/ CheckPid(p)

Publish(p) == Fork(p) \/ Truncate(p) \/ Write(p) \/ Redirect(p)

Release(p) == Compare(p) \/ Unlink(p) \/ ClosePid(p) \/ Unguard(p)

PidStep(p) == Acquire(p) \/ Publish(p) \/ Release(p)

PidNext ==
  \/ \E p \in Process :
        \/ \E f \in Path : Launch(p, f)
        \/ PidStep(p) \/ ParentExits(p) \/ Exit(p) \/ Crash(p)
  \/ OtherProcess

PidSpec == PidInit /\ [][PidNext]_pidVars
-----------------------------------------------------------------------------
\* Types of the processes and the files.
PidTypeInv ==
  /\ at \in [Process -> Step] /\ path \in [Process -> Path]
  /\ pid \in [Process -> Pid \cup {0}]
  /\ guard_fd \in [Process -> BOOLEAN] /\ owns_pid \in [Process -> BOOLEAN]
  /\ opened \in [Process -> Inode \cup {0}] /\ pid_fd \in [Process -> Inode \cup {0}]
  /\ parent \in [Process -> [fd : Inode \cup {0}, pid : Pid \cup {0}]]
  /\ file \in [Path -> Inode \cup {0}] /\ content \in [Inode -> Nat]
  /\ others \subseteq Pid
  /\ launches \in Nat /\ faults \in Nat

\* At most one process owns a PID file, whoever starts, forks, fails, exits or is
\* killed at the same time (skyuv_pid_acquire, skyuv_pid_release).
OneOwner ==
  \A p, q \in Process : owns_pid[p] /\ owns_pid[q] /\ path[p] = path[q] => p = q

\* Owning a PID file is what InstanceLock describes: a process becomes the owner only
\* when there is none, and only the owner gives it up.
Owners == [f \in Path |-> {p \in Process : owns_pid[p] /\ path[p] = f}]

Lock == INSTANCE InstanceLock WITH owners <- Owners

ImplementsLock == Lock!Spec

\* While a process serves, its PID file is there and holds its PID: nobody has
\* removed, replaced or overwritten it since skyuv_pid_publish.
PublishedNamesOwner ==
  \A p \in Process : at[p] = "run" =>
     file[path[p]] = pid_fd[p] /\ content[pid_fd[p]] = pid[p]

\* A PID stays behind only if a process was killed or could not remove its file: once
\* all have left, by exit or after a failure, no file names a process
\* (skyuv_pid_release on every path out).
NothingLeftBehind ==
  faults = 0 /\ (\A p \in Process : at[p] = "off") =>
     \A f \in Path : file[f] = 0 \/ content[file[f]] = 0
=============================================================================
