----------------------------- MODULE Forwards ------------------------------
(***************************************************************************)
(* The `aws ssm start-session` processes of one developer's laptop         *)
(* (src/ssm.rs) and the ups that own or borrow them (src/commands.rs).     *)
(* A service up opens two forwards on ports it picks, for the bastion's    *)
(* control plane and its sshd; every up then opens the forward_ports of    *)
(* its service, except those a sibling up has open according to the        *)
(* state.json that was read once before.  What happens at the bastion is   *)
(* Sessions' subject, the service's processes are Runner's.                *)
(***************************************************************************)
EXTENDS Runner, SequencesExt

CONSTANTS Service,   \* the service each up runs
          HealthChecked, \* ups whose service has a health_check_path
          Wants,     \* each up's forward_ports, in the order of the config
          Pickable,  \* ports the kernel may hand out for bind to port 0
          Takeable,  \* ports another program may take
          Hazards    \* what may happen: see ForwardsAssumption

\* "kill": an up is killed outright; "aws": an aws process ends by itself, or a
\* Ctrl-C in the terminal reaches it too; "child": a service ends by itself;
\* "overlap": an up starts while another is starting; "stranger": another
\* program takes a port; "pid": a dead shell's pid is given out again; "down":
\* the developer runs `ephemwork down`; "fail": a step of up fails.
ASSUME ForwardsAssumption ==
    /\ Hazards \subseteq {"kill", "aws", "child", "overlap", "stranger", "pid", "down", "fail"}
    /\ Wants \in [Ups -> Seq(Ports)]
    /\ Pickable \subseteq Ports /\ Takeable \subseteq Ports
    /\ \A u \in Ups : LocalPort[u] \notin Pickable \cup Range(Wants[u])
    /\ Ports \cap {"control plane", "sshd", "state"} = {}
    /\ DOMAIN Service = Ups
    /\ \A u \in HealthChecked : u \in Ups /\ LocalPort[u] # Nobody

VARIABLES pc,       \* where each up is
          todo,     \* what each up still has to open
          waiting,  \* the port wait_for_local_port polls
          aws,      \* the ports each up has a running aws process for
          owned,    \* the ports of the forwards up keeps a guard of
          borrowed, \* the sibling whose forward an up relies on, for each port
          view,     \* the sessions in the state.json each up read
          recorded, \* the sessions in state.json, oldest first
          reused,   \* ups whose shell's pid another process has now
          doubtful  \* history: ups that lost a forward or never had it

locals == <<todo, waiting, view>>
links == <<aws, owned, borrowed>>
world == <<recorded, reused, doubtful>>
forwards == <<pc, locals, links, world>>
vars == <<runner, forwards>>

IsWorker(u) == LocalPort[u] = Nobody
Targets(u) == (IF IsWorker(u) THEN <<>> ELSE <<"control plane", "sshd">>) \o <<"state">> \o Wants[u]
Stages == {"new", "opening", "waiting", "spawned", "connecting", "live",
           "dropping", "closing", "exited", "killed"}
Starting(u) == pc[u] \in {"opening", "waiting", "spawned", "connecting"}
Up(u) == pc[u] \notin {"new", "exited", "killed"}

Init ==
    /\ RunnerInit
    /\ pc = [u \in Ups |-> "new"]
    /\ todo = [u \in Ups |-> <<>>]
    /\ waiting = [u \in Ups |-> Nobody]
    /\ aws = [u \in Ups |-> {}]
    /\ owned = [u \in Ups |-> {}]
    /\ borrowed = [u \in Ups |-> [p \in Ports |-> Nobody]]
    /\ view = [u \in Ups |-> <<>>]
    /\ recorded = <<>>
    /\ reused = {}
    /\ doubtful = {}

Goto(u, stage) == pc' = [pc EXCEPT ![u] = stage]
Done(u) == todo' = [todo EXCEPT ![u] = Tail(@)]
\* up_service has returned: its locals are gone.
Forget(u) ==
    /\ todo' = [todo EXCEPT ![u] = <<>>]
    /\ view' = [view EXCEPT ![u] = <<>>]
    /\ waiting' = [waiting EXCEPT ![u] = Nobody]
Opening(u) == pc[u] = "opening" /\ todo[u] # <<>>

-----------------------------------------------------------------------------
\* up_service and up_worker

\* assert_port_free for a service, then bootstrap_command and locate_bastion: an up
\* that fails in here has changed nothing.
Check(u) ==
    /\ pc[u] = "new"
    /\ "overlap" \in Hazards \/ \A v \in Ups : ~Starting(v)
    /\ ~IsWorker(u) => PortFree(LocalPort[u])
    /\ todo' = [todo EXCEPT ![u] = Targets(u)]
    /\ Goto(u, "opening")
    /\ UNCHANGED <<runner, waiting, view, links, world>>

\* An aws process is started for local port p, and up waits for the port.
StartAws(u, p) ==
    /\ aws' = [aws EXCEPT ![u] = @ \cup {p}]
    /\ waiting' = [waiting EXCEPT ![u] = p]
    /\ Goto(u, "waiting")
    /\ UNCHANGED <<runner, todo, view, owned, borrowed, world>>

\* start_port_forward: a port that was free when pick_free_local_port looked.
StartPicked(u) ==
    /\ Opening(u) /\ Head(todo[u]) \in {"control plane", "sshd"}
    /\ \E p \in Pickable : PortFree(p) /\ StartAws(u, p)

\* State::load, once, before the first declared port.
LoadState(u) ==
    /\ Opening(u) /\ Head(todo[u]) = "state"
    /\ view' = [view EXCEPT ![u] = recorded]
    /\ Done(u)
    /\ UNCHANGED <<runner, pc, waiting, links, world>>

\* State::forward_owner: the first recorded session that opened port p.
ForwardOwner(u, p) ==
    LET first == SelectInSeq(view[u], LAMBDA v : p \in owned[v] \cap Range(Wants[v]))
    IN  IF first = 0 THEN Nobody ELSE view[u][first]

PidAlive(v) == ShellPidTaken(v) \/ v \in reused

\* The declared port u opens next.
Declared(u, p) == Opening(u) /\ Head(todo[u]) = p /\ p \in Ports

\* check_forward_reuse says yes: there is an owner and its pid is alive.
Borrow(u, p) ==
    /\ Declared(u, p) /\ ForwardOwner(u, p) # Nobody
    /\ PidAlive(ForwardOwner(u, p))
    /\ borrowed' = [borrowed EXCEPT ![u][p] = ForwardOwner(u, p)]
    /\ Done(u)
    /\ UNCHANGED <<runner, pc, waiting, view, aws, owned, world>>

\* It says no: nobody is recorded.  A worker looks at the port first.
StartDeclared(u, p) ==
    /\ Declared(u, p) /\ ForwardOwner(u, p) = Nobody
    /\ IsWorker(u) => PortFree(p)
    /\ StartAws(u, p)

\* wait_for_local_port is content with anybody who listens.
WaitOk(u) ==
    /\ pc[u] = "waiting" /\ ~PortFree(waiting[u])
    /\ waiting' = [waiting EXCEPT ![u] = Nobody]
    /\ owned' = [owned EXCEPT ![u] = @ \cup {waiting[u]}]
    /\ doubtful' = IF holder[waiting[u]] = u THEN doubtful ELSE doubtful \cup {u}
    /\ Done(u)
    /\ Goto(u, "opening")
    /\ UNCHANGED <<runner, view, aws, borrowed, recorded, reused>>

\* Mutant: an error or the shutdown drops the guards of the forwards only.
ToClosing(u) == Goto(u, "closing")

\* What an error or the shutdown drops next: the runner if there is one.
ToDrop(u) == Goto(u, IF shell[u] = "none" THEN "closing" ELSE "dropping")

\* Fifteen seconds and nobody listens, no port left to pick, a dead owner, a port
\* a worker finds taken.
MustFail(u) ==
    \/ pc[u] = "waiting" /\ PortFree(waiting[u])
    \/ Opening(u) /\ Head(todo[u]) \in {"control plane", "sshd"} /\ ~\E p \in Pickable : PortFree(p)
    \/ \E p \in Ports : /\ Declared(u, p)
                        /\ IF ForwardOwner(u, p) = Nobody THEN IsWorker(u) /\ ~PortFree(p)
                           ELSE ~PidAlive(ForwardOwner(u, p))

\* An error: the locals are dropped, and nothing is recorded.
FailUp(u) ==
    /\ MustFail(u) \/ ("fail" \in Hazards /\ Starting(u))
    /\ ToDrop(u)
    /\ Forget(u)
    /\ UNCHANGED <<runner, links, world>>

SpawnService(u) ==
    /\ pc[u] = "opening" /\ todo[u] = <<>>
    /\ Spawn(u)
    /\ view' = [view EXCEPT ![u] = <<>>]
    /\ Goto(u, "spawned")
    /\ UNCHANGED <<todo, waiting, links, world>>

\* Retain's predicate holds for all sessions but those of u's service, of which
\* there is one at the most (OnePerService).
Without(u) == RemoveFirstMatch(recorded, LAMBDA v : Service[v] = Service[u])

\* State::upsert: one session for each service.
Upsert(u) == Append(Without(u), u)

\* A service that answers, or that nobody asks, gets its reverse forward: up
\* connects, shakes hands, logs in and asks sshd to listen, without a timeout.
Connect(u) ==
    /\ pc[u] = "spawned" /\ ~IsWorker(u)
    /\ u \in HealthChecked => Healthy(u)
    /\ Goto(u, "connecting")
    /\ UNCHANGED <<runner, locals, links, world>>

\* The reverse forward is up, or a worker needs none: record_session.
GoLive(u) ==
    /\ pc[u] = IF IsWorker(u) THEN "spawned" ELSE "connecting"
    /\ recorded' = Upsert(u)
    /\ Goto(u, "live")
    /\ UNCHANGED <<runner, locals, links, reused, doubtful>>

\* wait_for_health gives up after a minute.
NeverHealthy(u) ==
    /\ pc[u] = "spawned" /\ u \in HealthChecked /\ ~Healthy(u)
    /\ ToDrop(u)
    /\ UNCHANGED <<runner, locals, links, world>>

-----------------------------------------------------------------------------
\* ActiveSession::shutdown and the drops of an error, in the same order.

\* The ports given back when u's aws processes for the ports ps end.
WithoutAws(u, ps) == [p \in Ports |-> IF p \in ps /\ holder[p] = u THEN Nobody ELSE holder[p]]

\* Mutant: the forwards are closed first and the runner is dropped last.
ShutdownForwardsFirst(u) ==
    /\ pc[u] = "live"
    /\ ToDrop(u)
    /\ aws' = [aws EXCEPT ![u] = {}]
    /\ holder' = WithoutAws(u, aws[u])
    /\ UNCHANGED <<processes, killed, locals, owned, borrowed, world>>

\* Ctrl-C, SIGTERM or a dead tunnel; deregister, and drop the reverse forward.
Shutdown(u) ==
    /\ pc[u] = "live"
    /\ ToDrop(u)
    /\ UNCHANGED <<runner, locals, links, world>>

\* RunningService::drop.
DropRunner(u) ==
    /\ pc[u] = "dropping"
    /\ SignalGroup(u) \/ Reap(u) \/ KillGroup(u)
    /\ UNCHANGED forwards

Dropped(u) ==
    /\ pc[u] = "dropping" /\ drop[u] = "done"
    /\ Goto(u, "closing")
    /\ UNCHANGED <<runner, locals, links, world>>

\* Mutant: up also closes the forwards it borrowed.
CloseAll(u) ==
    /\ pc[u] = "closing"
    /\ LET ps == aws[u] \cup {p \in Ports : borrowed[u][p] # Nobody} IN
       /\ aws' = [v \in Ups |-> aws[v] \ ps]
       /\ holder' = [p \in Ports |-> IF p \in ps THEN Nobody ELSE holder[p]]
    /\ Goto(u, "exited")
    /\ UNCHANGED <<processes, killed, locals, owned, borrowed, world>>

\* SsmTunnel::drop, for the guards kept and the one being opened.
CloseForwards(u) ==
    /\ pc[u] = "closing"
    /\ aws' = [aws EXCEPT ![u] = {}]
    /\ holder' = WithoutAws(u, aws[u])
    /\ Goto(u, "exited")
    /\ UNCHANGED <<processes, killed, locals, owned, borrowed, world>>

-----------------------------------------------------------------------------
\* The aws processes, the service's processes and the world.

AwsListens(u, p) ==
    /\ p \in aws[u] /\ PortFree(p)
    /\ holder' = [holder EXCEPT ![p] = u]
    /\ UNCHANGED <<processes, killed, forwards>>

\* The port was taken between the look and the bind.
AwsCannotListen(u, p) ==
    /\ p \in aws[u] /\ holder[p] \notin {u, Nobody}
    /\ aws' = [aws EXCEPT ![u] = @ \ {p}]
    /\ doubtful' = doubtful \cup {u}
    /\ UNCHANGED <<runner, pc, locals, owned, borrowed, recorded, reused>>

\* A declared forward is lost; what the loss of the other two does is Sessions'
\* subject (its hazard "network").
AwsEnds(u, p) ==
    /\ "aws" \in Hazards
    /\ p \in aws[u] \ Pickable /\ pc[u] # "killed" /\ u \notin doubtful
    /\ aws' = [aws EXCEPT ![u] = @ \ {p}]
    /\ holder' = WithoutAws(u, {p})
    /\ doubtful' = doubtful \cup {u}
    /\ UNCHANGED <<processes, killed, pc, locals, owned, borrowed, recorded, reused>>

\* The processes of u's service start, end when they are told to, or end anyway.
ServiceMoves(u) ==
    /\ \/ WorkStarts(u)
       \/ (work[u] = "stopping" \/ "child" \in Hazards) /\ WorkEnds(u)
       \/ (shell[u] = "stopping" \/ "child" \in Hazards) /\ ShellEnds(u)
    /\ UNCHANGED forwards

\* What an up left behind is killed by hand, as assert_port_free advises.
KillLeftovers(u) ==
    /\ pc[u] \in {"exited", "killed"}
    /\ aws[u] # {} \/ work[u] # "none" \/ ShellPidTaken(u)
    /\ aws' = [aws EXCEPT ![u] = {}]
    /\ shell' = [shell EXCEPT ![u] = IF @ = "none" THEN @ ELSE "reaped"]
    /\ work' = [work EXCEPT ![u] = "none"]
    /\ holder' = [p \in Ports |-> IF holder[p] = u THEN Nobody ELSE holder[p]]
    /\ doubtful' = doubtful \cup {u}
    /\ UNCHANGED <<drop, killed, pc, locals, owned, borrowed, recorded, reused>>

\* SIGKILL, or a signal main does not handle: nothing is dropped.
Kill(u) ==
    /\ "kill" \in Hazards
    /\ Up(u)
    /\ killed' = killed \cup {u}
    /\ shell' = [shell EXCEPT ![u] = IF @ = "zombie" THEN "reaped" ELSE @]
    /\ Goto(u, "killed")
    /\ Forget(u)
    /\ UNCHANGED <<holder, work, drop, links, world>>

PidReused(u) ==
    /\ "pid" \in Hazards
    /\ shell[u] = "reaped"
    /\ reused' = reused \cup {u}
    /\ UNCHANGED <<runner, pc, locals, links, recorded, doubtful>>

\* Another program takes one port, for good.
StrangerTakes(p) ==
    /\ "stranger" \in Hazards
    /\ p \in Takeable /\ PortFree(p)
    /\ \A q \in Ports : holder[q] # Stranger
    /\ holder' = [holder EXCEPT ![p] = Stranger]
    /\ UNCHANGED <<processes, killed, forwards>>

\* forget_sessions of `ephemwork down <service>`.
DownForgets(u) ==
    /\ "down" \in Hazards
    /\ u \in Range(recorded)
    /\ recorded' = Without(u)
    /\ UNCHANGED <<runner, pc, locals, links, reused, doubtful>>

UpStep(u) ==
    \/ StartPicked(u) \/ LoadState(u) \/ WaitOk(u) \/ FailUp(u)
    \/ \E p \in Ports : Borrow(u, p) \/ StartDeclared(u, p)
    \/ SpawnService(u) \/ Connect(u) \/ GoLive(u) \/ NeverHealthy(u)
    \/ DropRunner(u) \/ Dropped(u) \/ CloseForwards(u)

Finished ==
    /\ \A u \in Ups : pc[u] \in {"new", "exited", "killed"}
    /\ UNCHANGED vars

Next ==
    \/ \E u \in Ups : \/ Check(u) \/ UpStep(u) \/ Shutdown(u)
                      \/ ServiceMoves(u) \/ Kill(u) \/ KillLeftovers(u) \/ PidReused(u) \/ DownForgets(u)
    \/ \E u \in Ups, p \in Ports : AwsListens(u, p) \/ AwsCannotListen(u, p) \/ AwsEnds(u, p)
    \/ \E p \in Ports : StrangerTakes(p)
    \/ Finished

Spec == Init /\ [][Next]_vars

\* A command that has begun goes on: its waits have deadlines, except for the SSH
\* calls of open_ssh2_reverse_forward, from which it need not come back.
Fairness == \A u \in Ups : WF_vars(pc[u] # "connecting" /\ UpStep(u))
FairSpec == Spec /\ Fairness

-----------------------------------------------------------------------------
(* Properties *)

\* The values the variables range over (commands.rs:286-311, ssm.rs:27-30).
TypeOK ==
    /\ RunnerTypeOK
    /\ pc \in [Ups -> Stages]
    /\ todo \in [Ups -> Seq(Ports \cup {"control plane", "sshd", "state"})]
    /\ waiting \in [Ups -> Ports \cup {Nobody}]
    /\ aws \in [Ups -> SUBSET Ports] /\ owned \in [Ups -> SUBSET Ports]
    /\ borrowed \in [Ups -> [Ports -> Ups \cup {Nobody}]]
    /\ view \in [Ups -> Seq(Ups)] /\ recorded \in Seq(Ups)
    /\ reused \subseteq Ups /\ doubtful \subseteq Ups

\* The owner a borrower trusts has the forward open at that moment, unless it
\* lost it before or its pid is another process's: shutdown reaps the shell
\* before it closes the forwards, so a pid that is alive vouches for them
\* (commands.rs:334-342, check_forward_reuse).
ReuseIsOpen ==
    [][\A u \in Ups, p \in Ports :
          borrowed'[u][p] # borrowed[u][p] /\ borrowed'[u][p] \notin doubtful \cup reused
              => holder[p] = borrowed'[u][p]]_vars

\* Nothing a sibling does, whether it fails, ends, is killed or is run twice,
\* takes from a live up the forwards it opened; and one it borrowed goes only
\* when the owner goes (commands.rs:412-415).
ForwardsStay ==
    \A u \in Ups \ doubtful, p \in Ports :
        pc[u] = "live" =>
            /\ p \in owned[u] => holder[p] = u
            /\ LET v == borrowed[u][p] IN
               v \notin {Nobody} \cup doubtful \cup reused =>
                   holder[p] = v \/ pc[v] = "exited"

\* An up that ends without being killed leaves no aws process, and of its
\* service at most a workload that ignores SIGTERM or is still about to end:
\* runner.rs:39-46, whatever step failed and however the shell behaves.
NothingLeftBehind ==
    \A u \in Ups :
        pc[u] = "exited" =>
            /\ aws[u] = {}
            /\ shell[u] \in {"none", "reaped"}
            /\ work[u] \in {"none", "stopping"} \/ u \in DeafWork

\* An up that is opening, failing or shutting down gets to its SSH calls, to a
\* session or to its end, whatever its processes do, and a worker, which has no
\* SSH calls, to one of the last two: wait_for_local_port and wait_for_health
\* have deadlines, and drop falls back to SIGKILL (runner.rs:50-60,
\* commands.rs:577-597).  What sshd does not answer holds an up for ever.
UpDecides ==
    \A u \in Ups :
        Up(u) ~> \/ pc[u] \in {"live", "exited", "killed"}
                 \/ pc[u] = "connecting" /\ ~IsWorker(u)

-----------------------------------------------------------------------------
(* The inductive invariant of the proofs. *)

\* Where an up may have a shell, and what is left of the service in it.
FollowsUp(u) ==
    /\ u \in killed <=> pc[u] = "killed"
    /\ pc[u] \in {"new", "opening", "waiting"} => shell[u] = "none"
    /\ pc[u] \in {"spawned", "connecting", "live"} => shell[u] \notin {"none", "reaped"} /\ drop[u] = "no"
    /\ pc[u] = "dropping" => shell[u] # "none" /\ (shell[u] = "reaped" => drop[u] = "done")
    /\ pc[u] \in {"closing", "exited"} => shell[u] = "none" \/ drop[u] = "done"
    /\ pc[u] = "exited" => aws[u] = {}
    /\ shell[u] = "none" => work[u] = "none" /\ drop[u] = "no"
    /\ drop[u] = "done" => shell[u] = "reaped"
    /\ drop[u] # "no" => work[u] \in {"none", "stopping"} \/ u \in DeafWork

ServiceFollowsUp == \A u \in Ups : FollowsUp(u)

\* The ports up u may open forwards on: none of them is the service's own.
Opens(u) == Pickable \cup Range(Wants[u])

\* What an up waits for or keeps a guard of is one of the ports it opens.
OpensItsOwn ==
    \A u \in Ups :
        /\ todo[u] \in Seq({"control plane", "sshd", "state"} \cup Range(Wants[u]))
        /\ pc[u] = "waiting" => waiting[u] \in Opens(u) /\ todo[u] # <<>>
        /\ owned[u] \subseteq Opens(u)

\* An up has the ports it keeps a guard of until it exits.
KeepsItsOwn ==
    \A u \in Ups \ doubtful : pc[u] # "exited" => \A p \in owned[u] : holder[p] = u

\* What is borrowed is a sibling's to lend.
BorrowsFromOwners ==
    \A u \in Ups, p \in Ports : borrowed[u][p] # Nobody => p \in owned[borrowed[u][p]]

\* state.json holds one session for each service.
OnePerService ==
    \A i, j \in DOMAIN recorded : Service[recorded[i]] = Service[recorded[j]] => i = j

IndInv ==
    /\ TypeOK /\ ServiceFollowsUp
    /\ OpensItsOwn /\ KeepsItsOwn /\ BorrowsFromOwners /\ OnePerService
=============================================================================
