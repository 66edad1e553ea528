------------------------------ MODULE Sessions -----------------------------
(***************************************************************************)
(* The life of `ephemwork up` and `ephemwork down` on the developers'      *)
(* laptops (src/commands.rs, src/main.rs) against one bastion: the         *)
(* registry, taken as the lease service that ControlPlane implements, and  *)
(* sshd, which listens on a registered port for the SSH session that asked *)
(* for it.  One user is one laptop; a service has one local port on it, so *)
(* a (user, service) key also names a local port.                          *)
(*                                                                         *)
(* Each `up` and `down` runs once.  Steps before the registration share    *)
(* nothing with other processes and are one step; state.json's own races   *)
(* are StateFile's subject, so a load-modify-save is one step here.        *)
(***************************************************************************)
EXTENDS RegistryOps

CONSTANTS Ups, Downs,  \* `ephemwork up` and `ephemwork down <service>` processes
          For,         \* the [user, service] each of them is about
          HealthChecked, \* the keys of services with a health_check_path
          Nobody,
          Hazards      \* what may happen: see HazardsAssumption

\* "kill": up is killed outright; "network": an SSH session breaks or a call to
\* the bastion gets no answer; "late": a request its client gave up on is
\* carried out later; "child": the service ends by itself; "overlap": a service
\* is started a second time while it is starting.
ASSUME HazardsAssumption ==
    Hazards \subseteq {"kill", "network", "late", "child", "overlap"}
ASSUME ProcessesAssumption ==
    /\ Nobody \notin Ups /\ Ups \cap Downs = {}
    /\ For \in [Ups \cup Downs -> [user : Users, service : Services]]
    /\ HealthChecked \subseteq Composites

VARIABLES lease,    \* bastion: the port of each registered key
          sshd,     \* bastion: the `up` whose SSH session listens on a port
          pc,       \* where each `up` is
          port,     \* the remote_port an `up` was given
          intact,   \* the SSH sessions that are up at both ends
          bound,    \* the `up` whose child has a key's local port
          child,    \* each up's child process
          late,     \* bastion: the requests, given up on, that are under way
          recorded, \* state.json: the `up` recorded for a key
          dpc,      \* where each `down` is
          leaked,     \* history: keys whose registration nobody is left to remove
          overlapped  \* history: ups that ran beside another up of their key

vars == <<lease, sshd, pc, port, intact, bound, child, late, recorded, dpc, leaked, overlapped>>
bastion == <<lease, sshd>>
service == <<bound, child>>
history == <<leaked, overlapped>>

Key(x) == Compose(For[x].user, For[x].service)
UpsOf(k) == {u \in Ups : Key(u) = k}

Stages == {"new", "checked", "registered", "spawned", "tunnelled", "live",
           "deregistered", "closed", "exited"}
Ended(u) == pc[u] = "exited"
Starting(u) == pc[u] \in {"checked", "registered", "spawned", "tunnelled"}
Underway(u) == pc[u] \notin {"new", "exited"}

\* A request that got no answer is lost, or it waits for the bastion's mutex.
Requests == {"register", "deregister"} \X Composites
MayComeLate(what, k) ==
    late' \in {late} \cup (IF "late" \in Hazards THEN {late \cup {<<what, k>>}} ELSE {})

Init ==
    /\ lease = EmptyRegistry
    /\ sshd = [p \in Ports |-> Nobody]
    /\ pc = [u \in Ups |-> "new"]
    /\ port = [u \in Ups |-> NoPort]
    /\ intact = {}
    /\ bound = [k \in Composites |-> Nobody]
    /\ child = [u \in Ups |-> "none"]
    /\ late = {}
    /\ recorded = [k \in Composites |-> Nobody]
    /\ dpc = [d \in Downs |-> "new"]
    /\ leaked = {}
    /\ overlapped = {}

Goto(u, stage) == pc' = [pc EXCEPT ![u] = stage]

-----------------------------------------------------------------------------
\* up_service, step by step.  An error drops what was acquired so far, in
\* reverse order, and says nothing to the bastion.

\* RunningService::drop: the child is gone and its port free.
KillChild(u) ==
    /\ child' = [child EXCEPT ![u] = "none"]
    /\ bound' = [bound EXCEPT ![Key(u)] = IF @ = u THEN Nobody ELSE @]

\* ReverseForward::drop: the listener goes if the SSH session still carries it.
CloseReverse(u) ==
    /\ sshd' = [p \in Ports |-> IF sshd[p] = u /\ u \in intact THEN Nobody ELSE sshd[p]]
    /\ intact' = intact \ {u}

\* Now and until one of them ends, u and these ups run at once.
RunsBeside(u, others) ==
    overlapped' = IF others = {} THEN overlapped ELSE overlapped \cup others \cup {u}

\* assert_port_free, the bootstrap command and the control-plane forward.
CheckPort(u) ==
    /\ pc[u] = "new"
    /\ "overlap" \in Hazards \/ \A v \in UpsOf(Key(u)) : ~Starting(v)
    /\ bound[Key(u)] = Nobody
    /\ Goto(u, "checked")
    /\ RunsBeside(u, {v \in UpsOf(Key(u)) : Underway(v)})
    /\ UNCHANGED <<bastion, port, intact, service, late, recorded, dpc, leaked>>

\* Mutant: an `up` that cannot start cleans up at the bastion as well.
GiveUpEarlyDeregisters(u) ==
    /\ pc[u] \in {"new", "checked"}
    /\ Goto(u, "exited")
    /\ lease' = [lease EXCEPT ![Key(u)] = NoPort]
    /\ UNCHANGED <<sshd, port, intact, service, late, recorded, dpc, history>>

\* The local port is taken, or a step before the registration fails.
GiveUpEarly(u) ==
    /\ pc[u] \in {"new", "checked"}
    /\ Goto(u, "exited")
    /\ UNCHANGED <<bastion, port, intact, service, late, recorded, dpc, history>>

\* handle_register at the bastion: the port of the key, or the lowest free one.
Granted(k, p) ==
    /\ IF lease[k] = NoPort THEN AllocatesPort(lease, p) ELSE p = lease[k]
    /\ lease' = [lease EXCEPT ![k] = p]

Register(u) ==
    /\ pc[u] = "checked"
    /\ \E p \in Ports : Granted(Key(u), p) /\ port' = [port EXCEPT ![u] = p]
    /\ Goto(u, "registered")
    /\ leaked' = leaked \ {Key(u)}
    /\ UNCHANGED <<sshd, intact, service, late, recorded, dpc, overlapped>>

\* The bastion registered the key but its answer did not arrive in time, or up
\* was killed before it; or the bastion has yet to get to it.
RegisterUnheard(u) ==
    /\ Hazards \cap {"kill", "network"} # {}
    /\ pc[u] = "checked"
    /\ \/ /\ \E p \in Ports : Granted(Key(u), p)
          /\ leaked' = leaked \cup {Key(u)}
          /\ UNCHANGED late
       \/ MayComeLate("register", Key(u)) /\ UNCHANGED <<lease, leaked>>
    /\ Goto(u, "exited")
    /\ UNCHANGED <<sshd, port, intact, service, recorded, dpc, overlapped>>

\* A registration nobody waits for gets the mutex at last: the key has a port
\* from now on, or the ports are all taken and the answer is an error.
RegisterLate(k) ==
    /\ <<"register", k>> \in late
    /\ late' = late \ {<<"register", k>>}
    /\ \/ (\E p \in Ports : Granted(k, p)) /\ leaked' = leaked \cup {k}
       \/ lease[k] = NoPort /\ Used(lease) = Ports /\ UNCHANGED <<lease, leaked>>
    /\ UNCHANGED <<sshd, pc, port, intact, service, recorded, dpc, overlapped>>

\* The SSH forward and the outbound forwards are open; the child is started.
Spawn(u) ==
    /\ pc[u] = "registered"
    /\ Goto(u, "spawned")
    /\ child' = [child EXCEPT ![u] = "starting"]
    /\ UNCHANGED <<bastion, port, intact, bound, late, recorded, dpc, history>>

\* The child takes the local port, or dies of EADDRINUSE; up does not watch it.
Bind(u) ==
    /\ child[u] = "starting"
    /\ IF bound[Key(u)] = Nobody
       THEN /\ bound' = [bound EXCEPT ![Key(u)] = u]
            /\ child' = [child EXCEPT ![u] = "serving"]
       ELSE /\ child' = [child EXCEPT ![u] = "none"]
            /\ UNCHANGED bound
    /\ UNCHANGED <<bastion, pc, port, intact, late, recorded, dpc, history>>

\* Mutant: the forward is opened before the service is healthy.
OpenReverseAtOnce(u) ==
    /\ pc[u] = "spawned"
    /\ sshd[port[u]] = Nobody
    /\ sshd' = [sshd EXCEPT ![port[u]] = u]
    /\ intact' = intact \cup {u}
    /\ Goto(u, "tunnelled")
    /\ UNCHANGED <<lease, port, service, late, recorded, dpc, history>>

\* wait_for_health, if the service has a health_check_path, asks whoever listens
\* on the port; then sshd is asked to listen, which it refuses on a port it
\* already listens on.
OpenReverse(u) ==
    /\ pc[u] = "spawned"
    /\ Key(u) \in HealthChecked => bound[Key(u)] # Nobody
    /\ sshd[port[u]] = Nobody
    /\ sshd' = [sshd EXCEPT ![port[u]] = u]
    /\ intact' = intact \cup {u}
    /\ Goto(u, "tunnelled")
    /\ UNCHANGED <<lease, port, service, late, recorded, dpc, history>>

\* record_session, after which up_service returns the ActiveSession.
Record(u) ==
    /\ pc[u] = "tunnelled"
    /\ recorded' = [recorded EXCEPT ![Key(u)] = u]
    /\ Goto(u, "live")
    /\ UNCHANGED <<bastion, port, intact, service, late, dpc, history>>

\* A forward does not open, the service never gets healthy, sshd refuses the
\* port, state.json cannot be written: `?` returns, and the registration stays.
FailUp(u) ==
    /\ pc[u] \in {"registered", "spawned", "tunnelled"}
    /\ Goto(u, "exited")
    /\ KillChild(u)
    /\ CloseReverse(u)
    /\ leaked' = leaked \cup {Key(u)}
    /\ UNCHANGED <<lease, port, late, recorded, dpc, overlapped>>

-----------------------------------------------------------------------------
\* The end of a session: Ctrl-C, SIGTERM or a dead tunnel.

\* Mutant: nothing is deregistered once the tunnel is dead.
DeregisterIfIntact(u) ==
    /\ pc[u] = "live"
    /\ lease' = IF u \in intact THEN [lease EXCEPT ![Key(u)] = NoPort] ELSE lease
    /\ leaked' = leaked \ {Key(u)}
    /\ Goto(u, "deregistered")
    /\ UNCHANGED <<sshd, port, intact, service, late, recorded, dpc, overlapped>>

\* deregister_best_effort reached the bastion, whose handler removes the key.
Deregister(u) ==
    /\ pc[u] = "live"
    /\ lease' = [lease EXCEPT ![Key(u)] = NoPort]
    /\ leaked' = leaked \ {Key(u)}
    /\ Goto(u, "deregistered")
    /\ UNCHANGED <<sshd, port, intact, service, late, recorded, dpc, overlapped>>

\* It failed, and is only logged; the request may still be under way.
DeregisterFails(u) ==
    /\ "network" \in Hazards
    /\ pc[u] = "live"
    /\ Goto(u, "deregistered")
    /\ leaked' = leaked \cup {Key(u)}
    /\ MayComeLate("deregister", Key(u))
    /\ UNCHANGED <<bastion, port, intact, service, recorded, dpc, overlapped>>

\* A deregistration whose client has timed out gets the mutex at last.
DeregisterLate(k) ==
    /\ <<"deregister", k>> \in late
    /\ late' = late \ {<<"deregister", k>>}
    /\ lease' = [lease EXCEPT ![k] = NoPort]
    /\ leaked' = leaked \ {k}
    /\ UNCHANGED <<sshd, pc, port, intact, service, recorded, dpc, overlapped>>

\* Mutant: the forward's handle is forgotten, its worker thread goes on.
DropReverseForgets(u) ==
    /\ pc[u] = "deregistered"
    /\ Goto(u, "closed")
    /\ UNCHANGED <<bastion, port, intact, service, late, recorded, dpc, history>>

\* Mutant: a shutdown that finds the session broken starts over.
DropReverseStartsOver(u) ==
    /\ pc[u] = "deregistered"
    /\ CloseReverse(u)
    /\ Goto(u, IF u \in intact THEN "closed" ELSE "live")
    /\ UNCHANGED <<lease, port, service, late, recorded, dpc, history>>

\* ActiveSession::shutdown drops the reverse forward ...
DropReverse(u) ==
    /\ pc[u] = "deregistered"
    /\ CloseReverse(u)
    /\ Goto(u, "closed")
    /\ UNCHANGED <<lease, port, service, late, recorded, dpc, history>>

\* ... then the runner and the SSM forwards.  The record in state.json stays.
DropRunner(u) ==
    /\ pc[u] = "closed"
    /\ KillChild(u)
    /\ Goto(u, "exited")
    /\ UNCHANGED <<bastion, port, intact, late, recorded, dpc, history>>

\* The SSH session breaks; up is told and shuts down as for Ctrl-C.
BreakSession(u) ==
    /\ "network" \in Hazards
    /\ u \in intact
    /\ intact' = intact \ {u}
    /\ UNCHANGED <<bastion, pc, port, service, late, recorded, dpc, history>>

\* sshd finds out that the session behind a listener is gone.
SshdNotices(p) ==
    /\ sshd[p] \notin intact \cup {Nobody}
    /\ sshd' = [sshd EXCEPT ![p] = Nobody]
    /\ UNCHANGED <<lease, pc, port, intact, service, late, recorded, dpc, history>>

\* SIGKILL, or Ctrl-C before main installs its handlers: nothing is dropped, and
\* the child, in a process group of its own, lives on.
Kill(u) ==
    /\ "kill" \in Hazards
    /\ pc[u] \notin {"new", "exited"}
    /\ Goto(u, "exited")
    /\ intact' = intact \ {u}
    /\ leaked' = IF pc[u] \in {"registered", "spawned", "tunnelled", "live"}
                 THEN leaked \cup {Key(u)} ELSE leaked
    /\ UNCHANGED <<bastion, port, service, late, recorded, dpc, overlapped>>

\* The developer kills a child left behind, as assert_port_free advises.
KillOrphan(u) ==
    /\ \A v \in UpsOf(Key(u)) : pc[v] \in {"new", "exited"}
    /\ child[u] # "none"
    /\ KillChild(u)
    /\ UNCHANGED <<bastion, pc, port, intact, late, recorded, dpc, history>>

\* The service ends by itself; up does not look.
ChildEnds(u) ==
    /\ "child" \in Hazards
    /\ child[u] = "serving"
    /\ KillChild(u)
    /\ UNCHANGED <<bastion, pc, port, intact, late, recorded, dpc, history>>

-----------------------------------------------------------------------------
\* down_service, run for one service.

DownGoto(d, stage) == dpc' = [dpc EXCEPT ![d] = stage]

\* The candidates are read from state.json, once.
FindSession(d) ==
    /\ dpc[d] = "new"
    /\ DownGoto(d, IF recorded[Key(d)] = Nobody THEN "done" ELSE "found")
    /\ UNCHANGED <<bastion, pc, port, intact, service, late, recorded, history>>

DownDeregisters(d) ==
    /\ dpc[d] = "found"
    /\ lease' = [lease EXCEPT ![Key(d)] = NoPort]
    /\ leaked' = leaked \ {Key(d)}
    /\ DownGoto(d, "forget")
    /\ UNCHANGED <<sshd, pc, port, intact, service, late, recorded, overlapped>>

\* No bastion, no answer: cleaning local state anyway.
DownCannotDeregister(d) ==
    /\ "network" \in Hazards
    /\ dpc[d] = "found"
    /\ leaked' = IF lease[Key(d)] # NoPort THEN leaked \cup {Key(d)} ELSE leaked
    /\ MayComeLate("deregister", Key(d))
    /\ DownGoto(d, "forget")
    /\ UNCHANGED <<bastion, pc, port, intact, service, recorded, overlapped>>

\* forget_sessions; the `up` it belongs to is neither told nor stopped.
Forget(d) ==
    /\ dpc[d] = "forget"
    /\ recorded' = [recorded EXCEPT ![Key(d)] = Nobody]
    /\ DownGoto(d, "done")
    /\ UNCHANGED <<bastion, pc, port, intact, service, late, history>>

-----------------------------------------------------------------------------

UpStep(u) ==
    \/ CheckPort(u) \/ Register(u) \/ Spawn(u) \/ OpenReverse(u) \/ Record(u)
    \/ GiveUpEarly(u) \/ RegisterUnheard(u) \/ FailUp(u)

ShutdownStep(u) == DropReverse(u) \/ DropRunner(u)

DownStep(d) ==
    FindSession(d) \/ DownDeregisters(d) \/ DownCannotDeregister(d) \/ Forget(d)

\* Every process has run and nothing is under way.
Finished ==
    /\ \A u \in Ups : Ended(u) /\ child[u] # "starting"
    /\ \A d \in Downs : dpc[d] = "done"
    /\ UNCHANGED vars

Next ==
    \/ \E u \in Ups : \/ UpStep(u) \/ ShutdownStep(u) \/ Bind(u)
                      \/ Deregister(u) \/ DeregisterFails(u)
                      \/ BreakSession(u) \/ Kill(u) \/ KillOrphan(u) \/ ChildEnds(u)
    \/ \E k \in Composites : RegisterLate(k) \/ DeregisterLate(k)
    \/ \E p \in Ports : SshdNotices(p)
    \/ \E d \in Downs : DownStep(d)
    \/ Finished

Spec == Init /\ [][Next]_vars

\* main's watch sees a dead tunnel within a second and shuts the session down,
\* whether or not the bastion can be told: every call to it has a timeout.  An
\* up that is starting owes nothing, as its SSH calls may block for ever.
Fairness ==
    \A u \in Ups :
        /\ WF_vars(u \notin intact /\ (Deregister(u) \/ DeregisterFails(u)))
        /\ WF_vars(ShutdownStep(u))

FairSpec == Spec /\ Fairness

-----------------------------------------------------------------------------
(* Properties *)

\* The values the variables range over (commands.rs:286-311, state.rs:7-31).
TypeOK ==
    /\ lease \in Registries
    /\ sshd \in [Ports -> Ups \cup {Nobody}]
    /\ pc \in [Ups -> Stages]
    /\ port \in [Ups -> Ports \cup {NoPort}]
    /\ intact \subseteq Ups
    /\ bound \in [Composites -> Ups \cup {Nobody}]
    /\ child \in [Ups -> {"none", "starting", "serving"}]
    /\ late \subseteq Requests
    /\ recorded \in [Composites -> Ups \cup {Nobody}]
    /\ dpc \in [Downs -> {"new", "found", "forget", "done"}]
    /\ leaked \subseteq Composites /\ overlapped \subseteq Ups

\* nginx sends key k's requests to u's laptop: they reach u's bridge.
Delivers(k, u) == lease[k] # NoPort /\ sshd[lease[k]] = u /\ u \in intact

\* A service with a health check never has two ups at once, though up looks
\* only at its local port: from before the first is live until it has ended, the
\* port is taken by its child, and after a kill by the orphan.  The bastion
\* keeps one lease for both of them, so this is what keeps the shutdown of one
\* from the other's route (assert_port_free, commands.rs:443-458).
OneUpPerKey == \A u \in overlapped : Key(u) \notin HealthChecked

\* Of two ups that run at once, which a service without a health check allows,
\* the first to end takes the registration from the other.
\*
\* Apart from those, a key's requests never reach another session's laptop,
\* except while that session shuts down: shutdown deregisters before it drops
\* the reverse forward, and the port can be registered again in between.
NoForeignDelivery ==
    \A k \in Composites, u \in Ups \ overlapped :
        Delivers(k, u) /\ Key(u) # k => pc[u] = "deregistered"

\* What up prints ("is live", main.rs:52-55), for a session that never ran
\* beside another of its key: while it is live and its SSH session is up, its
\* header is routed to its own laptop and `down` can find it, whatever earlier
\* ups of the same key and other ups at the same time do.
LiveIsRouted ==
    \A u \in Ups \ overlapped :
        pc[u] = "live" /\ u \in intact =>
            /\ lease[Key(u)] = port[u]
            /\ sshd[port[u]] = u
            /\ recorded[Key(u)] = u

\* The only registrations left behind are those of an up that failed or was
\* killed after it registered, or whose deregistration got no answer.
OnlyFailuresLeak ==
    \A k \in Composites \ leaked :
        (\A u \in UpsOf(k) : pc[u] \in {"new", "checked", "deregistered", "closed", "exited"})
            => lease[k] = NoPort

\* A session whose tunnel is dead does not stay up: its up ends, even if the
\* bastion cannot be told (wait_for_tunnel_death, ActiveSession::shutdown).
BrokenSessionEnds ==
    \A u \in Ups : pc[u] = "live" /\ u \notin intact ~> Ended(u)

-----------------------------------------------------------------------------
(* The inductive invariant behind the properties. *)

Held(u) == pc[u] \in {"registered", "spawned", "tunnelled", "live"}
Tunnels(u) == pc[u] \in {"tunnelled", "live", "deregistered"}

\* sshd listens for an intact session on the port that was given to it, from
\* the moment it asks to the moment it closes, and for nobody else there.
ListenersAreOwn ==
    /\ \A u \in intact : Tunnels(u)
    /\ \A p \in Ports, u \in Ups :
           sshd[p] = u => port[u] = p /\ pc[u] \notin {"new", "checked", "registered", "spawned"}
    /\ \A u \in Ups : pc[u] \notin {"new", "checked", "exited"} => port[u] \in Ports
    /\ \A u \in intact : sshd[port[u]] = u

\* The history misses no two ups of one key that run at once.
OverlapsAreKnown ==
    \A u, v \in Ups : Key(u) = Key(v) /\ Underway(u) /\ Underway(v) /\ u # v => u \in overlapped

\* Only the ups themselves tell the bastion, and they tell it in time.
NobodyElseTells == "late" \notin Hazards /\ Downs = {}

\* Then a key keeps the port its up was given until that up deregisters it, and
\* its record, unless another up of the key comes beside it.
UpKeepsItsLease ==
    /\ late = {}
    /\ \A u \in Ups \ overlapped :
           /\ Held(u) => lease[Key(u)] = port[u]
           /\ pc[u] = "live" => recorded[Key(u)] = u

\* No service ends by itself or is started a second time while it is starting.
ServicesAreSteady == {"child", "overlap"} \cap Hazards = {}

\* Then the port of a service with a health check stays taken.
PortIsTaken ==
    \A u \in Ups :
        Key(u) \in HealthChecked /\ (Tunnels(u) \/ pc[u] = "closed")
            => bound[Key(u)] # Nobody

SessionsInv ==
    /\ TypeOK /\ OnlyFailuresLeak /\ PortsUnique(lease) /\ ListenersAreOwn /\ OverlapsAreKnown
    /\ NobodyElseTells => UpKeepsItsLease
    /\ ServicesAreSteady => OneUpPerKey /\ PortIsTaken
=============================================================================
