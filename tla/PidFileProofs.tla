--------------------------- MODULE PidFileProofs ----------------------------
(***************************************************************************)
(* For any number of processes, PID files, launches and kills: a PID file  *)
(* has at most one owner, and names it while it serves.                    *)
(*                                                                         *)
(* The argument rests on the guard.  Between its acquisition and its       *)
(* release a process is alone among those with the same PID file, so the   *)
(* name cannot come to lead to another inode behind its back, and no other *)
(* process writes the inode it leads to.                                   *)
(***************************************************************************)
EXTENDS PidFile, TLAPS

\* A process holds the guard, itself or through its parent.
Holds(p) == guard_fd[p] \/ parent[p] # NoParent

\* At most one process holds the guard of a PID file.
GuardInv == \A p, q \in Process : Holds(p) /\ Holds(q) /\ path[p] = path[q] => p = q

\* The steps that are made with the guard held, and those with an open PID file.
Guarded == {"open", "lock", "check", "fork", "truncate", "write", "redirect", "run",
            "unlink", "close"}

Filed == {"check", "fork", "truncate", "write", "redirect", "run", "unlink"}

\* What a process has at each step.
StepInv ==
  \A p \in Process :
     /\ at[p] \in Guarded => guard_fd[p]
     /\ pid_fd[p] # 0 \/ owns_pid[p] => guard_fd[p] /\ pid_fd[p] # 0
     /\ at[p] \in {"off", "unguard", "guard", "open", "lock"} => pid_fd[p] = 0
     /\ at[p] \in {"off", "guard"} => ~guard_fd[p]
     /\ at[p] \in Filed => pid_fd[p] # 0 /\ file[path[p]] = pid_fd[p]
     /\ at[p] = "lock" => opened[p] # 0 /\ file[path[p]] = opened[p]
     /\ at[p] # "lock" => opened[p] = 0
     /\ at[p] \in {"redirect", "run"} => content[pid_fd[p]] = pid[p]

\* Two names never lead to the same inode.
FileInv == \A f, g \in Path : file[f] = file[g] /\ file[f] # 0 => f = g

PidInv == PidTypeInv /\ GuardInv /\ StepInv /\ FileInv
-----------------------------------------------------------------------------

\* A process id is a number.
LEMMA IdsAreNumbers == \A n \in Pid \cup {0} : n \in Nat
  BY PidAssumption

\* The guard is locked only if nobody holds it.
LEMMA LockGuardKeeps == ASSUME PidInv, NEW p \in Process, LockGuard(p) PROVE PidInv'
<1> USE PidAssumption DEF PidInv, LockGuard, Goto, fileVars, countVars, GuardHeld
<1>1. PidTypeInv'
  BY Zenon DEF PidTypeInv, Step
<1>2. GuardInv'
  BY DEF PidTypeInv, GuardInv, StepInv, Holds, Guarded
<1>3. StepInv'
  BY DEF PidTypeInv, GuardInv, StepInv, FileInv, Holds, Guarded, Filed
<1>4. FileInv'
  BY DEF PidTypeInv, FileInv
<1>5. QED
  BY <1>1, <1>2, <1>3, <1>4

\* The name leads to the file that was opened, new or not.
LEMMA OpenPidKeeps == ASSUME PidInv, NEW p \in Process, OpenPid(p) PROVE PidInv'
<1> USE PidAssumption DEF PidInv, OpenPid, Goto, fileVars, countVars, Unused
<1>1. PidTypeInv'
  <2>1. CASE file[path[p]] # 0 /\ opened' = [opened EXCEPT ![p] = file[path[p]]]
             /\ Goto(p, "lock") /\ UNCHANGED fileVars
    BY <2>1 DEF PidTypeInv, Step
  <2>2. ASSUME NEW i \in Inode, file' = [file EXCEPT ![path[p]] = i],
               content' = [content EXCEPT ![i] = 0], opened' = [opened EXCEPT ![p] = i],
               Goto(p, "lock")
        PROVE  PidTypeInv'
    BY <2>2 DEF PidTypeInv, Step
  <2>3. CASE Goto(p, "release") /\ UNCHANGED <<opened, fileVars>>
    BY <2>3 DEF PidTypeInv, Step
  <2>4. QED
    BY <2>1, <2>2, <2>3
<1>2. GuardInv'
  BY DEF PidTypeInv, GuardInv, StepInv, Holds, Guarded
<1>3. StepInv'
  <2>1. CASE file[path[p]] # 0 /\ opened' = [opened EXCEPT ![p] = file[path[p]]]
             /\ Goto(p, "lock") /\ UNCHANGED fileVars
    BY <2>1 DEF PidTypeInv, StepInv, Guarded, Filed
  <2>2. ASSUME NEW i \in Inode, \A j \in Inode : Unused(j) => i <= j, Unused(i),
               file' = [file EXCEPT ![path[p]] = i],
               content' = [content EXCEPT ![i] = 0], opened' = [opened EXCEPT ![p] = i],
               Goto(p, "lock")
        PROVE  StepInv'
    <3>1. \A q \in Process : q # p /\ (at[q] \in Filed \/ at[q] = "lock") => path[q] # path[p]
      BY DEF PidTypeInv, GuardInv, StepInv, Holds, Guarded, Filed
    <3>2. \A q \in Process : pid_fd[q] # i
      BY <2>2 DEF Unused
    <3>3. QED
      BY <2>2, <3>1, <3>2 DEF PidTypeInv, StepInv, Guarded, Filed
  <2>3. CASE Goto(p, "release") /\ UNCHANGED <<opened, fileVars>>
    BY <2>3 DEF PidTypeInv, StepInv, Guarded, Filed
  <2>4. QED
    BY Zenon, <2>1, <2>2, <2>3
<1>4. FileInv'
  BY DEF PidTypeInv, FileInv
<1>5. QED
  BY <1>1, <1>2, <1>3, <1>4

\* The file that was opened becomes the one that is held.
LEMMA LockPidKeeps == ASSUME PidInv, NEW p \in Process, LockPid(p) PROVE PidInv'
<1> USE PidAssumption DEF PidInv, LockPid, Goto, fileVars, countVars
<1>1. PidTypeInv'
  BY Zenon DEF PidTypeInv, Step
<1>2. GuardInv'
  BY DEF PidTypeInv, GuardInv, StepInv, Holds, Guarded
<1>3. StepInv'
  BY DEF PidTypeInv, GuardInv, StepInv, FileInv, Holds, Guarded, Filed
<1>4. FileInv'
  BY DEF PidTypeInv, FileInv
<1>5. QED
  BY <1>1, <1>2, <1>3, <1>4

\* Ownership comes with an open file.
LEMMA CheckPidKeeps == ASSUME PidInv, NEW p \in Process, CheckPid(p) PROVE PidInv'
<1> USE PidAssumption DEF PidInv, CheckPid, Goto, fileVars, countVars
<1>1. PidTypeInv'
  BY Zenon DEF PidTypeInv, Step
<1>2. GuardInv'
  BY DEF PidTypeInv, GuardInv, StepInv, Holds, Guarded
<1>3. StepInv'
  BY DEF PidTypeInv, GuardInv, StepInv, FileInv, Holds, Guarded, Filed
<1>4. FileInv'
  BY DEF PidTypeInv, FileInv
<1>5. QED
  BY <1>1, <1>2, <1>3, <1>4

\* A parent holds the guard only together with its child.
LEMMA ForkKeeps == ASSUME PidInv, NEW p \in Process, Fork(p) PROVE PidInv'
<1> USE PidAssumption DEF PidInv, Fork, Goto, fileVars, countVars
<1>1. PidTypeInv'
  <2>1. parent' \in [Process -> [fd : Inode \cup {0}, pid : Pid \cup {0}]]
    BY DEF PidTypeInv
  <2>2. pid' \in [Process -> Pid \cup {0}]
    BY DEF PidTypeInv
  <2>3. QED
    BY <2>1, <2>2 DEF PidTypeInv, Step
<1>2. GuardInv'
  BY DEF PidTypeInv, GuardInv, StepInv, Holds, Guarded
<1>3. StepInv'
  BY DEF PidTypeInv, GuardInv, StepInv, FileInv, Holds, Guarded, Filed
<1>4. FileInv'
  BY DEF PidTypeInv, FileInv
<1>5. QED
  BY <1>1, <1>2, <1>3, <1>4

\* A parent that leaves only gives up what it shares.
LEMMA ParentExitsKeeps == ASSUME PidInv, NEW p \in Process, ParentExits(p) PROVE PidInv'
<1> USE PidAssumption DEF PidInv, ParentExits, Goto, fileVars, countVars
<1>1. PidTypeInv'
  BY DEF PidTypeInv, Step, NoParent
<1>2. GuardInv'
  BY DEF PidTypeInv, GuardInv, StepInv, Holds, Guarded
<1>3. StepInv'
  BY DEF PidTypeInv, GuardInv, StepInv, FileInv, Holds, Guarded, Filed
<1>4. FileInv'
  BY DEF PidTypeInv, FileInv
<1>5. QED
  BY <1>1, <1>2, <1>3, <1>4

\* Only the owner's own file is emptied.
LEMMA TruncateKeeps == ASSUME PidInv, NEW p \in Process, Truncate(p) PROVE PidInv'
<1> USE PidAssumption DEF PidInv, Truncate, Goto, fileVars, countVars
<1>1. PidTypeInv'
  BY DEF PidTypeInv, Step, NoParent
<1>2. GuardInv'
  BY DEF PidTypeInv, GuardInv, StepInv, Holds, Guarded
<1>3. StepInv'
  <2>1. \A q \in Process : q # p /\ at[q] \in Filed \cup {"lock"} => path[q] # path[p]
    BY DEF PidTypeInv, GuardInv, StepInv, Holds, Guarded, Filed
  <2>2. \A q \in Process : q # p /\ at[q] \in Filed =>
           pid_fd[q] # pid_fd[p] /\ pid_fd[q] \in Inode
    BY <2>1 DEF PidTypeInv, StepInv, FileInv, Filed
  <2>3. CASE content' = [content EXCEPT ![pid_fd[p]] = 0] /\ Goto(p, "write")
    BY <2>2, <2>3 DEF PidTypeInv, StepInv, Guarded, Filed
  <2>4. CASE Goto(p, "release") /\ UNCHANGED content
    BY <2>4 DEF PidTypeInv, StepInv, Guarded, Filed
  <2>5. QED
    BY <2>3, <2>4
<1>4. FileInv'
  BY DEF PidTypeInv, FileInv
<1>5. QED
  BY <1>1, <1>2, <1>3, <1>4

\* Only the owner's own file is written.
LEMMA WriteKeeps == ASSUME PidInv, NEW p \in Process, Write(p) PROVE PidInv'
<1> USE PidAssumption DEF PidInv, Write, Goto, fileVars, countVars
<1>1. PidTypeInv'
  <2>1. pid[p] \in Nat
    <3>1. pid[p] \in Pid \cup {0}
      BY DEF PidTypeInv
    <3>2. QED
      BY <3>1, IdsAreNumbers, Zenon
  <2>2. FirstDigits(pid[p]) \subseteq Nat
    BY <2>1 DEF FirstDigits
  <2>3. \A n \in Nat : [content EXCEPT ![pid_fd[p]] = n] \in [Inode -> Nat]
    BY Zenon DEF PidTypeInv
  <2>4. content' \in [Inode -> Nat]
    BY <2>1, <2>2, <2>3 DEF PidTypeInv
  <2>5. at' \in [Process -> Step]
    BY DEF PidTypeInv, Step
  <2>6. QED
    BY <2>4, <2>5 DEF PidTypeInv
<1>2. GuardInv'
  BY DEF PidTypeInv, GuardInv, StepInv, Holds, Guarded
<1>3. StepInv'
  <2>1. \A q \in Process : q # p /\ at[q] \in Filed \cup {"lock"} => path[q] # path[p]
    BY DEF PidTypeInv, GuardInv, StepInv, Holds, Guarded, Filed
  <2>2. \A q \in Process : q # p /\ at[q] \in Filed =>
           pid_fd[q] # pid_fd[p] /\ pid_fd[q] \in Inode
    BY <2>1 DEF PidTypeInv, StepInv, FileInv, Filed
  <2>3. ASSUME NEW n, content' = [content EXCEPT ![pid_fd[p]] = n], UNCHANGED at
        PROVE  StepInv'
    BY <2>2, <2>3 DEF PidTypeInv, StepInv, Guarded, Filed
  <2>4. CASE content' = [content EXCEPT ![pid_fd[p]] = pid[p]] /\ Goto(p, "redirect")
    BY <2>2, <2>4 DEF PidTypeInv, StepInv, Guarded, Filed
  <2>5. CASE Goto(p, "release") /\ UNCHANGED content
    BY <2>5 DEF PidTypeInv, StepInv, Guarded, Filed
  <2>6. QED
    BY <2>3, <2>4, <2>5
<1>4. FileInv'
  BY DEF PidTypeInv, FileInv
<1>5. QED
  BY <1>1, <1>2, <1>3, <1>4

\* The last steps of daemon_init touch no file.
LEMMA RedirectKeeps == ASSUME PidInv, NEW p \in Process, Redirect(p) PROVE PidInv'
<1> USE PidAssumption DEF PidInv, Redirect, Goto, fileVars, countVars
<1>1. PidTypeInv'
  BY DEF PidTypeInv, Step, NoParent
<1>2. GuardInv'
  BY DEF PidTypeInv, GuardInv, StepInv, Holds, Guarded
<1>3. StepInv'
  BY DEF PidTypeInv, GuardInv, StepInv, FileInv, Holds, Guarded, Filed
<1>4. FileInv'
  BY DEF PidTypeInv, FileInv
<1>5. QED
  BY <1>1, <1>2, <1>3, <1>4

\* Leaving changes nothing by itself.
LEMMA ExitKeeps == ASSUME PidInv, NEW p \in Process, Exit(p) PROVE PidInv'
<1> USE PidAssumption DEF PidInv, Exit, Goto, fileVars, countVars
<1>1. PidTypeInv'
  BY DEF PidTypeInv, Step, NoParent
<1>2. GuardInv'
  BY DEF PidTypeInv, GuardInv, StepInv, Holds, Guarded
<1>3. StepInv'
  BY DEF PidTypeInv, GuardInv, StepInv, FileInv, Holds, Guarded, Filed
<1>4. FileInv'
  BY DEF PidTypeInv, FileInv
<1>5. QED
  BY <1>1, <1>2, <1>3, <1>4

\* The name is removed only if it leads to the file that is held.
LEMMA CompareKeeps == ASSUME PidInv, NEW p \in Process, Compare(p) PROVE PidInv'
<1> USE PidAssumption DEF PidInv, Compare, Goto, fileVars, countVars
<1>1. PidTypeInv'
  BY DEF PidTypeInv, Step, NoParent
<1>2. GuardInv'
  BY DEF PidTypeInv, GuardInv, StepInv, Holds, Guarded
<1>3. StepInv'
  BY DEF PidTypeInv, GuardInv, StepInv, FileInv, Holds, Guarded, Filed
<1>4. FileInv'
  BY DEF PidTypeInv, FileInv
<1>5. QED
  BY <1>1, <1>2, <1>3, <1>4

\* Only the owner's own name is removed.
LEMMA UnlinkKeeps == ASSUME PidInv, NEW p \in Process, Unlink(p) PROVE PidInv'
<1> USE PidAssumption DEF PidInv, Unlink, Goto, fileVars, countVars
<1>1. PidTypeInv'
  <2>1. file[path[p]] \in Inode
    BY DEF PidTypeInv, StepInv, Filed
  <2>2. file' \in [Path -> Inode \cup {0}] /\ content' \in [Inode -> Nat] /\ faults' \in Nat
    <3>1. [content EXCEPT ![file[path[p]]] = 0] \in [Inode -> Nat]
      BY Zenon DEF PidTypeInv
    <3>2. [file EXCEPT ![path[p]] = 0] \in [Path -> Inode \cup {0}]
      BY DEF PidTypeInv
    <3>3. faults + 1 \in Nat
      BY DEF PidTypeInv
    <3>4. QED
      BY <3>1, <3>2, <3>3 DEF PidTypeInv
  <2>3. at' \in [Process -> Step]
    BY DEF PidTypeInv, Step
  <2>4. QED
    BY <2>2, <2>3 DEF PidTypeInv
<1>2. GuardInv'
  BY DEF PidTypeInv, GuardInv, StepInv, Holds, Guarded
<1>3. StepInv'
  <2>1. \A q \in Process : q # p /\ at[q] \in Filed \cup {"lock"} => path[q] # path[p]
    BY DEF PidTypeInv, GuardInv, StepInv, Holds, Guarded, Filed
  <2>2. \A q \in Process : q # p /\ at[q] \in Filed =>
           pid_fd[q] # pid_fd[p] /\ pid_fd[q] \in Inode
    BY <2>1 DEF PidTypeInv, StepInv, FileInv, Filed
  <2>3. CASE /\ content' = [content EXCEPT ![file[path[p]]] = 0]
             /\ file' = [file EXCEPT ![path[p]] = 0]
    BY <2>1, <2>2, <2>3 DEF PidTypeInv, StepInv, Guarded, Filed
  <2>4. CASE UNCHANGED fileVars
    BY <2>4 DEF PidTypeInv, StepInv, Guarded, Filed
  <2>5. QED
    BY <2>3, <2>4
<1>4. FileInv'
  BY DEF PidTypeInv, FileInv
<1>5. QED
  BY <1>1, <1>2, <1>3, <1>4

\* Ownership ends while the guard is held.
LEMMA ClosePidKeeps == ASSUME PidInv, NEW p \in Process, ClosePid(p) PROVE PidInv'
<1> USE PidAssumption DEF PidInv, ClosePid, Goto, fileVars, countVars
<1>1. PidTypeInv'
  BY DEF PidTypeInv, Step, NoParent
<1>2. GuardInv'
  BY DEF PidTypeInv, GuardInv, StepInv, Holds, Guarded
<1>3. StepInv'
  BY DEF PidTypeInv, GuardInv, StepInv, FileInv, Holds, Guarded, Filed
<1>4. FileInv'
  BY DEF PidTypeInv, FileInv
<1>5. QED
  BY <1>1, <1>2, <1>3, <1>4

\* The guard is the last thing given up.
LEMMA UnguardKeeps == ASSUME PidInv, NEW p \in Process, Unguard(p) PROVE PidInv'
<1> USE PidAssumption DEF PidInv, Unguard, Goto, fileVars, countVars
<1>1. PidTypeInv'
  BY DEF PidTypeInv, Step, NoParent
<1>2. GuardInv'
  BY DEF PidTypeInv, GuardInv, StepInv, Holds, Guarded
<1>3. StepInv'
  BY DEF PidTypeInv, GuardInv, StepInv, FileInv, Holds, Guarded, Filed
<1>4. FileInv'
  BY DEF PidTypeInv, FileInv
<1>5. QED
  BY <1>1, <1>2, <1>3, <1>4

\* A kill gives up everything at once.
LEMMA CrashKeeps == ASSUME PidInv, NEW p \in Process, Crash(p) PROVE PidInv'
<1> USE PidAssumption DEF PidInv, Crash, Goto, fileVars, countVars
<1>1. PidTypeInv'
  BY DEF PidTypeInv, Step, NoParent
<1>2. GuardInv'
  BY DEF PidTypeInv, GuardInv, StepInv, Holds, Guarded
<1>3. StepInv'
  BY DEF PidTypeInv, GuardInv, StepInv, FileInv, Holds, Guarded, Filed
<1>4. FileInv'
  BY DEF PidTypeInv, FileInv
<1>5. QED
  BY <1>1, <1>2, <1>3, <1>4

\* A process that starts holds nothing, and nobody holds anything for it.
LEMMA LaunchKeeps ==
  ASSUME PidInv, NEW p \in Process, NEW f \in Path, Launch(p, f) PROVE PidInv'
<1> USE PidAssumption DEF PidInv, Launch, Goto, fileVars
<1>1. PidTypeInv'
  BY DEF PidTypeInv, Step
<1>2. GuardInv'
  BY DEF PidTypeInv, GuardInv, StepInv, Holds
<1>3. StepInv'
  BY DEF PidTypeInv, StepInv, Guarded, Filed
<1>4. FileInv'
  BY DEF PidTypeInv, FileInv
<1>5. QED
  BY <1>1, <1>2, <1>3, <1>4

\* Unrelated processes touch none of this.
LEMMA OtherProcessKeeps == ASSUME PidInv, OtherProcess PROVE PidInv'
<1> USE PidAssumption DEF PidInv, OtherProcess, procVars, fileVars, countVars
<1>1. PidTypeInv'
  BY Zenon DEF PidTypeInv
<1>2. GuardInv' /\ StepInv' /\ FileInv'
  BY DEF GuardInv, StepInv, FileInv, Holds
<1>3. QED
  BY <1>1, <1>2

\* The invariant holds at first.
LEMMA PidInitInv == PidInit => PidInv
  BY PidAssumption DEF PidInit, PidInv, PidTypeInv, GuardInv, StepInv, FileInv, Holds, NoParent,
     Step, Guarded, Filed

\* Every step of daemon.c, and every kill, preserves it.
LEMMA PidNextInv == PidInv /\ [PidNext]_pidVars => PidInv'
<1>1. ASSUME PidInv, NEW p \in Process,
             PidStep(p) \/ ParentExits(p) \/ Exit(p) \/ Crash(p)
      PROVE  PidInv'
  BY <1>1, LockGuardKeeps, OpenPidKeeps, LockPidKeeps, CheckPidKeeps, ForkKeeps, TruncateKeeps,
     WriteKeeps, RedirectKeeps, CompareKeeps, UnlinkKeeps, ClosePidKeeps, UnguardKeeps,
     ParentExitsKeeps, ExitKeeps, CrashKeeps
     DEF PidStep, Acquire, Publish, Release
<1>2. ASSUME PidInv, UNCHANGED pidVars PROVE PidInv'
  BY <1>2 DEF PidInv, PidTypeInv, GuardInv, StepInv, FileInv, Holds, pidVars, procVars, fileVars,
     countVars
<1>3. QED
  BY <1>1, <1>2, LaunchKeeps, OtherProcessKeeps DEF PidNext

\* The invariant of daemon.c, for any number of processes, files, launches and kills.
THEOREM PidInvariant == PidSpec => []PidInv
<1>1. QED
  BY PidInitInv, PidNextInv, PTL DEF PidSpec

\* A PID file never has two owners (skyuv_pid_acquire, skyuv_pid_release).
THEOREM SingleOwner == PidSpec => []OneOwner
<1>1. PidInv => OneOwner
  BY DEF PidInv, GuardInv, StepInv, Holds, OneOwner
<1>2. QED
  BY <1>1, PidInvariant, PTL

\* While a process serves, its PID file is there and holds its PID
\* (skyuv_pid_publish).
THEOREM PidFileNamesServer == PidSpec => []PublishedNamesOwner
<1>1. PidInv => PublishedNamesOwner
  BY DEF PidInv, StepInv, Filed, PublishedNamesOwner
<1>2. QED
  BY <1>1, PidInvariant, PTL

\* A step that changes neither who owns what nor any path changes no owners.
LEMMA SameOwners == UNCHANGED <<owns_pid, path>> => UNCHANGED Owners
  BY DEF Owners

\* A process becomes the owner only when there is none: the guard is its own.
LEMMA CheckPidTakes ==
  ASSUME PidInv, NEW p \in Process, CheckPid(p) PROVE [Lock!Next]_Owners
<1> USE DEF PidInv, CheckPid, Goto
<1>1. CASE UNCHANGED owns_pid
  BY <1>1, SameOwners
<1>2. CASE owns_pid' = [owns_pid EXCEPT ![p] = TRUE]
  <2>1. \A q \in Process : path[q] = path[p] => ~owns_pid[q] \/ q = p
    BY DEF PidTypeInv, GuardInv, StepInv, Holds, Guarded
  <2>2. CASE owns_pid[p]
    BY <1>2, <2>2, SameOwners DEF PidTypeInv
  <2>3. CASE ~owns_pid[p]
    <3>1. Owners[path[p]] = {}
      BY <2>1, <2>3 DEF Owners, PidTypeInv
    <3>2. Owners' = [Owners EXCEPT ![path[p]] = {p}]
      <4>1. \A q \in Process : owns_pid'[q] <=> owns_pid[q] \/ q = p
        BY <1>2 DEF PidTypeInv
      <4>2. {q \in Process : owns_pid'[q] /\ path'[q] = path[p]} = {p}
        BY <2>1, <2>3, <4>1
      <4>3. ASSUME NEW f \in Path, f # path[p]
            PROVE  {q \in Process : owns_pid'[q] /\ path'[q] = f}
                     = {q \in Process : owns_pid[q] /\ path[q] = f}
        BY <4>1, <4>3
      <4>4. path[p] \in Path
        BY DEF PidTypeInv
      <4>5. QED
        BY <4>2, <4>3, <4>4, Zenon DEF Owners
    <3>3. Lock!Take(p, path[p])
      BY <3>1, <3>2 DEF Lock!Take
    <3>4. QED
      BY <3>3 DEF Lock!Next, PidTypeInv
  <2>4. QED
    BY <2>2, <2>3
<1>3. QED
  BY <1>1, <1>2

\* Only the owner gives a PID file up.
LEMMA LosesOnlyItsOwn ==
  ASSUME PidInv, NEW p \in Process, owns_pid' = [owns_pid EXCEPT ![p] = FALSE], UNCHANGED path
  PROVE  [Lock!Next]_Owners
<1> USE DEF PidInv
<1>1. CASE ~owns_pid[p]
  BY <1>1, SameOwners DEF PidTypeInv
<1>2. CASE owns_pid[p]
  <2>1. p \in Owners[path[p]]
    BY <1>2 DEF Owners, PidTypeInv
  <2>2. Owners' = [Owners EXCEPT ![path[p]] = @ \ {p}]
    <3>1. \A q \in Process : owns_pid'[q] <=> owns_pid[q] /\ q # p
      BY <1>2 DEF PidTypeInv
    <3>2. {q \in Process : owns_pid'[q] /\ path'[q] = path[p]}
            = {q \in Process : owns_pid[q] /\ path[q] = path[p]} \ {p}
      BY <3>1
    <3>3. ASSUME NEW f \in Path, f # path[p]
          PROVE  {q \in Process : owns_pid'[q] /\ path'[q] = f}
                   = {q \in Process : owns_pid[q] /\ path[q] = f}
      BY <3>1, <3>3
    <3>4. path[p] \in Path
      BY DEF PidTypeInv
    <3>5. QED
      BY <3>2, <3>3, <3>4, Zenon DEF Owners
  <2>3. Lock!Drop(p, path[p])
    BY <2>1, <2>2 DEF Lock!Drop
  <2>4. QED
    BY <2>3 DEF Lock!Next, PidTypeInv
<1>3. QED
  BY <1>1, <1>2

\* A process that starts owns nothing, so a new path changes no owners.
LEMMA LaunchOwnsNothing ==
  ASSUME PidInv, NEW p \in Process, NEW f \in Path, Launch(p, f) PROVE UNCHANGED Owners
<1>1. ~owns_pid[p]
  BY DEF PidInv, StepInv, Launch
<1>2. \A q \in Process : q # p => path'[q] = path[q]
  BY DEF PidInv, PidTypeInv, Launch
<1>3. QED
  BY <1>1, <1>2 DEF Owners, Launch

\* Every step of daemon.c is a step of the lock or leaves it alone.
LEMMA StepsOfLock == PidInv /\ [PidNext]_pidVars => [Lock!Next]_Owners
<1> SUFFICES ASSUME PidInv, [PidNext]_pidVars PROVE [Lock!Next]_Owners
  OBVIOUS
<1>1. ASSUME NEW p \in Process,
             \/ LockGuard(p) \/ OpenPid(p) \/ LockPid(p) \/ Publish(p) \/ Compare(p) \/ Unlink(p)
             \/ Unguard(p) \/ ParentExits(p) \/ Exit(p)
      PROVE  [Lock!Next]_Owners
  BY Zenon, <1>1, SameOwners DEF LockGuard, OpenPid, LockPid, Publish, Fork, Truncate, Write, Redirect,
     Compare, Unlink, Unguard, ParentExits, Exit
<1>2. ASSUME NEW p \in Process, ClosePid(p) \/ Crash(p) PROVE [Lock!Next]_Owners
  BY <1>2, LosesOnlyItsOwn DEF ClosePid, Crash
<1>3. CASE OtherProcess \/ UNCHANGED pidVars
  BY <1>3, SameOwners DEF OtherProcess, pidVars, procVars
<1>4. QED
  BY <1>1, <1>2, <1>3, CheckPidTakes, LaunchOwnsNothing DEF PidNext, PidStep, Acquire, Release

\* daemon.c implements a lock on the name of the PID file: the two file locks, the
\* deletable file, fork and kills included (skyuv_pid_acquire to skyuv_pid_release).
THEOREM PidFileIsLock == PidSpec => ImplementsLock
<1>1. PidInit => Lock!Init
  BY DEF PidInit, Lock!Init, Owners
<1>2. QED
  BY <1>1, StepsOfLock, PidInvariant, PTL DEF PidSpec, ImplementsLock, Lock!Spec

\* As long as nothing was killed and no unlink refused, a file that holds a number has
\* an owner, who has not removed it yet.
LeftInv ==
  /\ \A p \in Process : at[p] \in Filed \ {"check"} => owns_pid[p]
  /\ \A p \in Process : at[p] = "release" /\ pid_fd[p] # 0 => file[path[p]] = pid_fd[p]
  /\ faults = 0 => \A p \in Process : at[p] = "close" /\ owns_pid[p] => file[path[p]] = 0
  /\ faults = 0 => \A f \in Path : file[f] # 0 /\ content[file[f]] # 0 =>
                      \E p \in Process : owns_pid[p] /\ path[p] = f

\* Locking the guard touches no file.
LEMMA LockGuardLeft == ASSUME PidInv, LeftInv, NEW p \in Process, LockGuard(p) PROVE LeftInv'
<1> USE PidAssumption DEF PidInv, LockGuard, Goto, fileVars, countVars, LeftInv, Filed
<1>1. (\A q \in Process : at[q] \in Filed \ {"check"} => owns_pid[q])'
  BY DEF PidTypeInv
<1>2. (\A q \in Process : at[q] = "release" /\ pid_fd[q] # 0 => file[path[q]] = pid_fd[q])'
  BY DEF PidTypeInv, StepInv
<1>3. (faults = 0 => \A q \in Process : at[q] = "close" /\ owns_pid[q] => file[path[q]] = 0)'
  BY DEF PidTypeInv, StepInv
<1>4. (faults = 0 => \A f \in Path : file[f] # 0 /\ content[file[f]] # 0 =>
                      \E q \in Process : owns_pid[q] /\ path[q] = f)'
  BY DEF PidTypeInv
<1>5. QED
  BY <1>1, <1>2, <1>3, <1>4

\* A new file is empty, an old one as it was.
LEMMA OpenPidLeft == ASSUME PidInv, LeftInv, NEW p \in Process, OpenPid(p) PROVE LeftInv'
<1> USE PidAssumption DEF PidInv, OpenPid, Goto, fileVars, countVars, LeftInv, Filed
<1>1. (\A q \in Process : at[q] \in Filed \ {"check"} => owns_pid[q])'
  BY DEF PidTypeInv
<1>2. (\A q \in Process : at[q] = "release" /\ pid_fd[q] # 0 => file[path[q]] = pid_fd[q])'
  BY DEF PidTypeInv, StepInv
<1>3. (faults = 0 => \A q \in Process : at[q] = "close" /\ owns_pid[q] => file[path[q]] = 0)'
  BY DEF PidTypeInv, StepInv, GuardInv, Holds, Guarded
<1>4. (faults = 0 => \A f \in Path : file[f] # 0 /\ content[file[f]] # 0 =>
                      \E q \in Process : owns_pid[q] /\ path[q] = f)'
  <2> SUFFICES ASSUME faults' = 0, NEW f \in Path, file'[f] # 0, content'[file'[f]] # 0
               PROVE  \E q \in Process : owns_pid'[q] /\ path'[q] = f
    OBVIOUS
  <2>1. file[f] # 0 /\ content[file[f]] # 0
    <3>1. CASE UNCHANGED fileVars
      BY <3>1
    <3>2. ASSUME NEW i \in Inode, Unused(i), file' = [file EXCEPT ![path[p]] = i],
                 content' = [content EXCEPT ![i] = 0]
          PROVE  file[f] # 0 /\ content[file[f]] # 0
      BY <3>2 DEF PidTypeInv
    <3>3. QED
      BY <3>1, <3>2
  <2>2. QED
    BY <2>1
<1>5. QED
  BY <1>1, <1>2, <1>3, <1>4

\* Locking the file changes nothing in it.
LEMMA LockPidLeft == ASSUME PidInv, LeftInv, NEW p \in Process, LockPid(p) PROVE LeftInv'
<1> USE PidAssumption DEF PidInv, LockPid, Goto, fileVars, countVars, LeftInv, Filed
<1>1. (\A q \in Process : at[q] \in Filed \ {"check"} => owns_pid[q])'
  BY DEF PidTypeInv
<1>2. (\A q \in Process : at[q] = "release" /\ pid_fd[q] # 0 => file[path[q]] = pid_fd[q])'
  BY DEF PidTypeInv, StepInv
<1>3. (faults = 0 => \A q \in Process : at[q] = "close" /\ owns_pid[q] => file[path[q]] = 0)'
  BY DEF PidTypeInv, StepInv
<1>4. (faults = 0 => \A f \in Path : file[f] # 0 /\ content[file[f]] # 0 =>
                      \E q \in Process : owns_pid[q] /\ path[q] = f)'
  BY DEF PidTypeInv
<1>5. QED
  BY <1>1, <1>2, <1>3, <1>4

\* An owner is only added.
LEMMA CheckPidLeft == ASSUME PidInv, LeftInv, NEW p \in Process, CheckPid(p) PROVE LeftInv'
<1> USE PidAssumption DEF PidInv, CheckPid, Goto, fileVars, countVars, LeftInv, Filed
<1>1. (\A q \in Process : at[q] \in Filed \ {"check"} => owns_pid[q])'
  BY DEF PidTypeInv, StepInv
<1>2. (\A q \in Process : at[q] = "release" /\ pid_fd[q] # 0 => file[path[q]] = pid_fd[q])'
  BY DEF PidTypeInv, StepInv
<1>3. (faults = 0 => \A q \in Process : at[q] = "close" /\ owns_pid[q] => file[path[q]] = 0)'
  BY DEF PidTypeInv, StepInv
<1>4. (faults = 0 => \A f \in Path : file[f] # 0 /\ content[file[f]] # 0 =>
                      \E q \in Process : owns_pid[q] /\ path[q] = f)'
  <2> SUFFICES ASSUME faults' = 0, NEW f \in Path, file'[f] # 0, content'[file'[f]] # 0
               PROVE  \E q \in Process : owns_pid'[q] /\ path'[q] = f
    OBVIOUS
  <2>1. PICK q \in Process : owns_pid[q] /\ path[q] = f
    OBVIOUS
  <2>2. owns_pid'[q] /\ path'[q] = f
    BY <2>1 DEF PidTypeInv
  <2>3. QED
    BY <2>2
<1>5. QED
  BY <1>1, <1>2, <1>3, <1>4

\* The child stays the owner.
LEMMA ForkLeft == ASSUME PidInv, LeftInv, NEW p \in Process, Fork(p) PROVE LeftInv'
<1> USE PidAssumption DEF PidInv, Fork, Goto, fileVars, countVars, LeftInv, Filed
<1>1. (\A q \in Process : at[q] \in Filed \ {"check"} => owns_pid[q])'
  BY DEF PidTypeInv
<1>2. (\A q \in Process : at[q] = "release" /\ pid_fd[q] # 0 => file[path[q]] = pid_fd[q])'
  BY DEF PidTypeInv, StepInv
<1>3. (faults = 0 => \A q \in Process : at[q] = "close" /\ owns_pid[q] => file[path[q]] = 0)'
  BY DEF PidTypeInv, StepInv
<1>4. (faults = 0 => \A f \in Path : file[f] # 0 /\ content[file[f]] # 0 =>
                      \E q \in Process : owns_pid[q] /\ path[q] = f)'
  BY DEF PidTypeInv
<1>5. QED
  BY Zenon, <1>1, <1>2, <1>3, <1>4

\* The parent is no owner.
LEMMA ParentExitsLeft == ASSUME PidInv, LeftInv, NEW p \in Process, ParentExits(p) PROVE LeftInv'
<1> USE PidAssumption DEF PidInv, ParentExits, Goto, fileVars, countVars, LeftInv, Filed
<1>1. (\A q \in Process : at[q] \in Filed \ {"check"} => owns_pid[q])'
  BY DEF PidTypeInv
<1>2. (\A q \in Process : at[q] = "release" /\ pid_fd[q] # 0 => file[path[q]] = pid_fd[q])'
  BY DEF PidTypeInv
<1>3. (faults = 0 => \A q \in Process : at[q] = "close" /\ owns_pid[q] => file[path[q]] = 0)'
  BY DEF PidTypeInv
<1>4. (faults = 0 => \A f \in Path : file[f] # 0 /\ content[file[f]] # 0 =>
                      \E q \in Process : owns_pid[q] /\ path[q] = f)'
  BY DEF PidTypeInv
<1>5. QED
  BY Zenon, <1>1, <1>2, <1>3, <1>4

\* A file is only emptied.
LEMMA TruncateLeft == ASSUME PidInv, LeftInv, NEW p \in Process, Truncate(p) PROVE LeftInv'
<1> USE PidAssumption DEF PidInv, Truncate, Goto, fileVars, countVars, LeftInv, Filed
<1>1. (\A q \in Process : at[q] \in Filed \ {"check"} => owns_pid[q])'
  BY DEF PidTypeInv
<1>2. (\A q \in Process : at[q] = "release" /\ pid_fd[q] # 0 => file[path[q]] = pid_fd[q])'
  BY DEF PidTypeInv, StepInv
<1>3. (faults = 0 => \A q \in Process : at[q] = "close" /\ owns_pid[q] => file[path[q]] = 0)'
  BY DEF PidTypeInv, StepInv
<1>4. (faults = 0 => \A f \in Path : file[f] # 0 /\ content[file[f]] # 0 =>
                      \E q \in Process : owns_pid[q] /\ path[q] = f)'
  <2> SUFFICES ASSUME faults' = 0, NEW f \in Path, file'[f] # 0, content'[file'[f]] # 0
               PROVE  \E q \in Process : owns_pid'[q] /\ path'[q] = f
    OBVIOUS
  <2>1. file[f] \in Inode
    BY DEF PidTypeInv
  <2>2. CASE content' = [content EXCEPT ![pid_fd[p]] = 0]
    BY <2>1, <2>2 DEF PidTypeInv
  <2>3. CASE UNCHANGED content
    BY <2>3
  <2>4. QED
    BY <2>2, <2>3
<1>5. QED
  BY Zenon, <1>1, <1>2, <1>3, <1>4

\* A number is only written by the owner.
LEMMA WriteLeft == ASSUME PidInv, LeftInv, NEW p \in Process, Write(p) PROVE LeftInv'
<1> USE PidAssumption DEF PidInv, Write, Goto, fileVars, countVars, LeftInv, Filed
<1>1. (\A q \in Process : at[q] \in Filed \ {"check"} => owns_pid[q])'
  BY DEF PidTypeInv
<1>2. (\A q \in Process : at[q] = "release" /\ pid_fd[q] # 0 => file[path[q]] = pid_fd[q])'
  BY DEF PidTypeInv, StepInv
<1>3. (faults = 0 => \A q \in Process : at[q] = "close" /\ owns_pid[q] => file[path[q]] = 0)'
  BY DEF PidTypeInv, StepInv
<1>4. (faults = 0 => \A f \in Path : file[f] # 0 /\ content[file[f]] # 0 =>
                      \E q \in Process : owns_pid[q] /\ path[q] = f)'
  <2> SUFFICES ASSUME faults' = 0, NEW f \in Path, file'[f] # 0, content'[file'[f]] # 0
               PROVE  \E q \in Process : owns_pid'[q] /\ path'[q] = f
    OBVIOUS
  <2>1. CASE f = path[p]
    BY <2>1 DEF PidTypeInv, StepInv
  <2>2. CASE f # path[p]
    <3>1. file[f] # pid_fd[p]
      BY <2>2 DEF PidTypeInv, StepInv, FileInv
    <3>2. content'[file[f]] = content[file[f]]
      <4>1. file[f] \in Inode
        BY DEF PidTypeInv
      <4>2. \/ \E n : content' = [content EXCEPT ![pid_fd[p]] = n]
            \/ content' = content
        BY Zenon
      <4>3. ASSUME NEW n, content' = [content EXCEPT ![pid_fd[p]] = n]
            PROVE  content'[file[f]] = content[file[f]]
        BY <3>1, <4>1, <4>3 DEF PidTypeInv
      <4>4. QED
        BY <4>2, <4>3
    <3>3. QED
      BY <3>2
  <2>3. QED
    BY <2>1, <2>2
<1>5. QED
  BY <1>1, <1>2, <1>3, <1>4

\* No file is touched.
LEMMA RedirectLeft == ASSUME PidInv, LeftInv, NEW p \in Process, Redirect(p) PROVE LeftInv'
<1> USE PidAssumption DEF PidInv, Redirect, Goto, fileVars, countVars, LeftInv, Filed
<1>1. (\A q \in Process : at[q] \in Filed \ {"check"} => owns_pid[q])'
  BY DEF PidTypeInv
<1>2. (\A q \in Process : at[q] = "release" /\ pid_fd[q] # 0 => file[path[q]] = pid_fd[q])'
  BY DEF PidTypeInv, StepInv
<1>3. (faults = 0 => \A q \in Process : at[q] = "close" /\ owns_pid[q] => file[path[q]] = 0)'
  BY DEF PidTypeInv, StepInv
<1>4. (faults = 0 => \A f \in Path : file[f] # 0 /\ content[file[f]] # 0 =>
                      \E q \in Process : owns_pid[q] /\ path[q] = f)'
  BY DEF PidTypeInv
<1>5. QED
  BY <1>1, <1>2, <1>3, <1>4

\* The owner is on its way to remove the file.
LEMMA ExitLeft == ASSUME PidInv, LeftInv, NEW p \in Process, Exit(p) PROVE LeftInv'
<1> USE PidAssumption DEF PidInv, Exit, Goto, fileVars, countVars, LeftInv, Filed
<1>1. (\A q \in Process : at[q] \in Filed \ {"check"} => owns_pid[q])'
  BY DEF PidTypeInv
<1>2. (\A q \in Process : at[q] = "release" /\ pid_fd[q] # 0 => file[path[q]] = pid_fd[q])'
  BY DEF PidTypeInv, StepInv
<1>3. (faults = 0 => \A q \in Process : at[q] = "close" /\ owns_pid[q] => file[path[q]] = 0)'
  BY DEF PidTypeInv, StepInv
<1>4. (faults = 0 => \A f \in Path : file[f] # 0 /\ content[file[f]] # 0 =>
                      \E q \in Process : owns_pid[q] /\ path[q] = f)'
  BY DEF PidTypeInv
<1>5. QED
  BY Zenon, <1>1, <1>2, <1>3, <1>4

\* The name still leads to the owner's file, so it is removed next.
LEMMA CompareLeft == ASSUME PidInv, LeftInv, NEW p \in Process, Compare(p) PROVE LeftInv'
<1> USE PidAssumption DEF PidInv, Compare, Goto, fileVars, countVars, LeftInv, Filed
<1>1. (\A q \in Process : at[q] \in Filed \ {"check"} => owns_pid[q])'
  BY DEF PidTypeInv
<1>2. (\A q \in Process : at[q] = "release" /\ pid_fd[q] # 0 => file[path[q]] = pid_fd[q])'
  BY DEF PidTypeInv
<1>3. (faults = 0 => \A q \in Process : at[q] = "close" /\ owns_pid[q] => file[path[q]] = 0)'
  BY DEF PidTypeInv
<1>4. (faults = 0 => \A f \in Path : file[f] # 0 /\ content[file[f]] # 0 =>
                      \E q \in Process : owns_pid[q] /\ path[q] = f)'
  BY DEF PidTypeInv
<1>5. QED
  BY Zenon, <1>1, <1>2, <1>3, <1>4

\* The file goes before its owner.
LEMMA UnlinkLeft == ASSUME PidInv, LeftInv, NEW p \in Process, Unlink(p) PROVE LeftInv'
<1> USE PidAssumption DEF PidInv, Unlink, Goto, fileVars, countVars, LeftInv, Filed
<1>1. (\A q \in Process : at[q] \in Filed \ {"check"} => owns_pid[q])'
  BY DEF PidTypeInv
<1>2. (\A q \in Process : at[q] = "release" /\ pid_fd[q] # 0 => file[path[q]] = pid_fd[q])'
  BY DEF PidTypeInv, StepInv, GuardInv, Holds, Guarded
<1>3. (faults = 0 => \A q \in Process : at[q] = "close" /\ owns_pid[q] => file[path[q]] = 0)'
  BY DEF PidTypeInv, StepInv, GuardInv, Holds, Guarded
<1>4. (faults = 0 => \A f \in Path : file[f] # 0 /\ content[file[f]] # 0 =>
                      \E q \in Process : owns_pid[q] /\ path[q] = f)'
  <2> SUFFICES ASSUME faults' = 0, NEW f \in Path, file'[f] # 0, content'[file'[f]] # 0
               PROVE  \E q \in Process : owns_pid'[q] /\ path'[q] = f
    OBVIOUS
  <2>1. CASE f = path[p]
    BY <2>1 DEF PidTypeInv, StepInv
  <2>2. CASE f # path[p]
    <3>1. file'[f] = file[f] /\ file[f] # file[path[p]]
      BY <2>2 DEF PidTypeInv, FileInv
    <3>2. content'[file[f]] = content[file[f]]
      <4>1. file[f] \in Inode
        BY <3>1 DEF PidTypeInv
      <4>2. CASE content' = [content EXCEPT ![file[path[p]]] = 0]
        BY <3>1, <4>1, <4>2 DEF PidTypeInv
      <4>3. CASE UNCHANGED fileVars
        BY <4>3
      <4>4. QED
        BY <4>2, <4>3
    <3>3. QED
      BY <3>1, <3>2 DEF PidTypeInv
  <2>3. QED
    BY <2>1, <2>2
<1>5. QED
  BY Zenon, <1>1, <1>2, <1>3, <1>4

\* The owner has removed its file.
LEMMA ClosePidLeft == ASSUME PidInv, LeftInv, NEW p \in Process, ClosePid(p) PROVE LeftInv'
<1> USE PidAssumption DEF PidInv, ClosePid, Goto, fileVars, countVars, LeftInv, Filed
<1>1. (\A q \in Process : at[q] \in Filed \ {"check"} => owns_pid[q])'
  BY DEF PidTypeInv
<1>2. (\A q \in Process : at[q] = "release" /\ pid_fd[q] # 0 => file[path[q]] = pid_fd[q])'
  BY DEF PidTypeInv
<1>3. (faults = 0 => \A q \in Process : at[q] = "close" /\ owns_pid[q] => file[path[q]] = 0)'
  BY DEF PidTypeInv
<1>4. (faults = 0 => \A f \in Path : file[f] # 0 /\ content[file[f]] # 0 =>
                      \E q \in Process : owns_pid[q] /\ path[q] = f)'
  BY DEF PidTypeInv
<1>5. QED
  BY <1>1, <1>2, <1>3, <1>4

\* Who gives up the guard owns nothing any more.
LEMMA UnguardLeft == ASSUME PidInv, LeftInv, NEW p \in Process, Unguard(p) PROVE LeftInv'
<1> USE PidAssumption DEF PidInv, Unguard, Goto, fileVars, countVars, LeftInv, Filed
<1>1. (\A q \in Process : at[q] \in Filed \ {"check"} => owns_pid[q])'
  BY DEF PidTypeInv
<1>2. (\A q \in Process : at[q] = "release" /\ pid_fd[q] # 0 => file[path[q]] = pid_fd[q])'
  BY DEF PidTypeInv
<1>3. (faults = 0 => \A q \in Process : at[q] = "close" /\ owns_pid[q] => file[path[q]] = 0)'
  BY DEF PidTypeInv
<1>4. (faults = 0 => \A f \in Path : file[f] # 0 /\ content[file[f]] # 0 =>
                      \E q \in Process : owns_pid[q] /\ path[q] = f)'
  BY DEF PidTypeInv
<1>5. QED
  BY Zenon, <1>1, <1>2, <1>3, <1>4

\* A kill is a fault.
LEMMA CrashLeft == ASSUME PidInv, LeftInv, NEW p \in Process, Crash(p) PROVE LeftInv'
<1> USE PidAssumption DEF PidInv, Crash, Goto, fileVars, countVars, LeftInv, Filed
<1>1. (\A q \in Process : at[q] \in Filed \ {"check"} => owns_pid[q])'
  BY DEF PidTypeInv
<1>2. (\A q \in Process : at[q] = "release" /\ pid_fd[q] # 0 => file[path[q]] = pid_fd[q])'
  BY DEF PidTypeInv
<1>3. (faults = 0 => \A q \in Process : at[q] = "close" /\ owns_pid[q] => file[path[q]] = 0)'
  BY DEF PidTypeInv
<1>4. (faults = 0 => \A f \in Path : file[f] # 0 /\ content[file[f]] # 0 =>
                      \E q \in Process : owns_pid[q] /\ path[q] = f)'
  BY DEF PidTypeInv
<1>5. QED
  BY Zenon, <1>1, <1>2, <1>3, <1>4

\* A process that starts brings no file and no owner.
LEMMA LaunchLeft ==
  ASSUME PidInv, LeftInv, NEW p \in Process, NEW f \in Path, Launch(p, f) PROVE LeftInv'
<1> USE DEF PidInv, Launch, Goto, fileVars, LeftInv, Filed
<1>1. (\A q \in Process : at[q] \in Filed \ {"check"} => owns_pid[q])'
  BY DEF PidTypeInv
<1>2. (\A q \in Process : at[q] = "release" /\ pid_fd[q] # 0 => file[path[q]] = pid_fd[q])'
  BY DEF PidTypeInv
<1>3. (faults = 0 => \A q \in Process : at[q] = "close" /\ owns_pid[q] => file[path[q]] = 0)'
  BY DEF PidTypeInv
<1>4. (faults = 0 => \A g \in Path : file[g] # 0 /\ content[file[g]] # 0 =>
                      \E q \in Process : owns_pid[q] /\ path[q] = g)'
  <2>1. \A q \in Process : owns_pid[q] => path'[q] = path[q]
    BY DEF PidTypeInv, StepInv
  <2>2. QED
    BY <2>1
<1>5. QED
  BY Zenon, <1>1, <1>2, <1>3, <1>4

\* Every step preserves it.
LEMMA LeftNextInv == PidInv /\ LeftInv /\ [PidNext]_pidVars => LeftInv'
<1>1. ASSUME PidInv, LeftInv, NEW p \in Process,
             PidStep(p) \/ ParentExits(p) \/ Exit(p) \/ Crash(p)
      PROVE  LeftInv'
  BY <1>1, LockGuardLeft, OpenPidLeft, LockPidLeft, CheckPidLeft, ForkLeft, TruncateLeft,
     WriteLeft, RedirectLeft, CompareLeft, UnlinkLeft, ClosePidLeft, UnguardLeft,
     ParentExitsLeft, ExitLeft, CrashLeft
     DEF PidStep, Acquire, Publish, Release
<1>2. ASSUME LeftInv, OtherProcess \/ UNCHANGED pidVars PROVE LeftInv'
  BY <1>2 DEF OtherProcess, pidVars, LeftInv, procVars, fileVars, countVars
<1>3. QED
  BY <1>1, <1>2, LaunchLeft DEF PidNext

\* Once all processes have left by themselves, no PID is left behind
\* (skyuv_pid_release on every path out of daemon_init, and at exit).
THEOREM NoPidLeft == PidSpec => []NothingLeftBehind
<1>1. PidInit => LeftInv
  BY PidAssumption DEF PidInit, LeftInv, Filed
<1>2. PidInv /\ LeftInv => NothingLeftBehind
  BY DEF PidInv, StepInv, LeftInv, NothingLeftBehind
<1>3. QED
  BY <1>1, <1>2, LeftNextInv, PidInvariant, PTL DEF PidSpec
=============================================================================
