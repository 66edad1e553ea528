------------------------------ MODULE Runner -------------------------------
(***************************************************************************)
(* The service an `up` runs (src/runner.rs): `sh -c <run_command>` in a    *)
(* process group of its own, the real workload below it in that group, and *)
(* the drop that has to end both.  Only the shell is up's child: up can    *)
(* wait for it, signal the group, and see nothing of the workload but the  *)
(* local port it listens on.                                               *)
(***************************************************************************)
EXTENDS Integers, FiniteSets

CONSTANTS Ups,        \* the `up` processes
          Nobody,
          Stranger,   \* any process that is none of ephemwork's
          Ports,      \* TCP ports of the laptop
          LocalPort,  \* the port each up's service listens on, or Nobody (a worker)
          DeafShells, \* ups whose shell ignores SIGTERM (a trap, or an exec'd workload)
          DeafWork    \* ups whose workload ignores SIGTERM

ASSUME RunnerAssumption ==
    /\ {Nobody, Stranger} \cap (Ups \cup Ports) = {} /\ Nobody # Stranger
    /\ LocalPort \in [Ups -> Ports \cup {Nobody}]
    /\ DeafShells \subseteq Ups /\ DeafWork \subseteq Ups

VARIABLES holder, \* who listens on each local port: an up's process, or a stranger
          shell,  \* each up's shell
          work,   \* what runs below the shell
          drop,   \* RunningService::drop
          killed  \* ups that were killed outright: init is their children's parent

processes == <<shell, work, drop>>
runner == <<holder, shell, work, drop, killed>>

\* A "zombie" has exited and was not waited for; its pid is still taken.
ShellStates == {"none", "running", "stopping", "zombie", "reaped"}
WorkStates == {"none", "starting", "serving", "stopping"}

RunnerInit ==
    /\ holder = [p \in Ports |-> Nobody]
    /\ shell = [u \in Ups |-> "none"]
    /\ work = [u \in Ups |-> "none"]
    /\ drop = [u \in Ups |-> "no"]
    /\ killed = {}

\* assert_port_free, at the moment it looks.
PortFree(p) == holder[p] = Nobody

\* The ports u's workload gives back when it ends.
WithoutWork(u) ==
    [p \in Ports |-> IF p = LocalPort[u] /\ holder[p] = u THEN Nobody ELSE holder[p]]

Spawn(u) ==
    /\ shell' = [shell EXCEPT ![u] = "running"]
    /\ work' = [work EXCEPT ![u] = "starting"]
    /\ UNCHANGED <<holder, drop, killed>>

\* The workload listens, or dies of EADDRINUSE; a worker just runs.
WorkStarts(u) ==
    /\ work[u] = "starting"
    /\ LET p == LocalPort[u] IN
       IF p = Nobody THEN /\ work' = [work EXCEPT ![u] = "serving"]
                          /\ UNCHANGED holder
       ELSE /\ work' = [work EXCEPT ![u] = IF PortFree(p) THEN "serving" ELSE "none"]
            /\ holder' = [holder EXCEPT ![p] = IF PortFree(p) THEN u ELSE @]
    /\ UNCHANGED <<shell, drop, killed>>

\* wait_for_health is content with a 2xx from anybody on the port.
Healthy(u) == LocalPort[u] # Nobody => holder[LocalPort[u]] # Nobody

\* An exited shell waits for its parent: up, or init when up was killed.
ShellExits(u) ==
    shell' = [shell EXCEPT ![u] = IF u \in killed THEN "reaped" ELSE "zombie"]

\* The shell ends when its command has, or leaves a background workload behind.
ShellEnds(u) ==
    /\ shell[u] \in {"running", "stopping"}
    /\ ShellExits(u)
    /\ UNCHANGED <<holder, work, drop, killed>>

WorkEnds(u) ==
    /\ work[u] \in {"serving", "stopping"}
    /\ work' = [work EXCEPT ![u] = "none"]
    /\ holder' = WithoutWork(u)
    /\ UNCHANGED <<shell, drop, killed>>

\* Mutant: only the shell is signalled, as Child::kill would.
SignalShell(u) ==
    /\ drop[u] = "no"
    /\ shell[u] # "none"
    /\ drop' = [drop EXCEPT ![u] = "polling"]
    /\ shell' = IF shell[u] = "running" /\ u \notin DeafShells
                THEN [shell EXCEPT ![u] = "stopping"] ELSE shell
    /\ UNCHANGED <<holder, work, killed>>

\* RunningService::drop begins: SIGTERM to the whole group.  A shell that has
\* exited but was not waited for keeps the group's number.
SignalGroup(u) ==
    /\ drop[u] = "no"
    /\ shell[u] # "none"
    /\ drop' = [drop EXCEPT ![u] = "polling"]
    /\ shell' = IF shell[u] = "running" /\ u \notin DeafShells
                THEN [shell EXCEPT ![u] = "stopping"] ELSE shell
    /\ work' = IF work[u] # "none" /\ u \notin DeafWork
               THEN [work EXCEPT ![u] = "stopping"] ELSE work
    /\ UNCHANGED <<holder, killed>>

\* try_wait finds that the shell has exited, and drop returns.
Reap(u) ==
    /\ drop[u] = "polling"
    /\ shell[u] = "zombie"
    /\ shell' = [shell EXCEPT ![u] = "reaped"]
    /\ drop' = [drop EXCEPT ![u] = "done"]
    /\ UNCHANGED <<holder, work, killed>>

\* Mutant: no SIGKILL; drop waits for the shell as long as it takes.
WaitOn(u) ==
    /\ drop[u] = "polling"
    /\ shell[u] = "stopping"
    /\ shell' = [shell EXCEPT ![u] = "zombie"]
    /\ UNCHANGED <<holder, work, drop, killed>>

\* The shell has not exited within two seconds: SIGKILL to the group, and wait.
KillGroup(u) ==
    /\ drop[u] = "polling"
    /\ shell[u] \in {"running", "stopping"}
    /\ shell' = [shell EXCEPT ![u] = "reaped"]
    /\ work' = [work EXCEPT ![u] = "none"]
    /\ holder' = WithoutWork(u)
    /\ drop' = [drop EXCEPT ![u] = "done"]
    /\ UNCHANGED killed

\* kill(pid, 0), of the pid state.json keeps: the shell's.
ShellPidTaken(u) == shell[u] \in {"running", "stopping", "zombie"}

RunnerTypeOK ==
    /\ holder \in [Ports -> Ups \cup {Nobody, Stranger}]
    /\ shell \in [Ups -> ShellStates]
    /\ work \in [Ups -> WorkStates]
    /\ drop \in [Ups -> {"no", "polling", "done"}]
    /\ killed \subseteq Ups
=============================================================================
