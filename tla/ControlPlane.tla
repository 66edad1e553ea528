---------------------------- MODULE ControlPlane ---------------------------
(***************************************************************************)
(* The bastion's control plane: bastion-server/src/main.rs, handlers.rs,   *)
(* registry.rs and nginx.rs.  A thread per connection reads one request,   *)
(* takes the registry's mutex, mutates the registry and, still holding it, *)
(* saves the registry (temporary file, then rename) and re-renders and     *)
(* reloads nginx; it answers after releasing the mutex.  The process may   *)
(* crash between any two of these steps; systemd starts it again.          *)
(*                                                                         *)
(* The user-data stub nginx starts with routes nothing, as an empty map    *)
(* does, so both are EmptyRegistry in conf and live.  conf.tmp is read by  *)
(* nobody but the rename that follows its write, under the same lock, so   *)
(* write_config is one step; registry.json and its temporary file are kept *)
(* apart because a restart reads the former.                               *)
(***************************************************************************)
EXTENDS RegistryOps

CONSTANTS Conn,     \* threads serving connections at one time
          Main,     \* the main thread, which loads the registry and renders at startup
          Nobody,   \* no thread has exclusive access to the registry
          Torn,     \* a file cut short in the middle of a write
          Missing,  \* no file
          Faults    \* what may go wrong: "crash", "save", "conf", "reload"

ASSUME ThreadsAssumption == Main \notin Conn /\ Nobody \notin Conn \cup {Main}
ASSUME FilesAssumption == Torn # Missing /\ {Torn, Missing} \cap Registries = {}
ASSUME FaultsAssumption == Faults \subseteq {"crash", "save", "conf", "reload"}

VARIABLES owner,    \* who has the registry: Main until serve(), then the mutex's holder
          pc,       \* where each thread is
          req,      \* the request each connection has read
          answer,   \* the status, and the port granted or the local `removed`
          entries,  \* Registry.entries in memory
          disk,     \* registry.json
          tmp,      \* registry.json.tmp
          conf,     \* ephemwork.conf, as the ports it routes to
          live,     \* what the running nginx routes
          failed    \* history: what the last on_change left undone ("disk", "live")

files == <<disk, tmp>>
nginx == <<conf, live>>
vars == <<owner, pc, req, answer, entries, disk, tmp, conf, live, failed>>

Threads == Conn \cup {Main}

\* The steps of CompositeListener::on_change, PersistOnChange first.
ListenerSteps == {"open", "fill", "rename", "conf", "reload"}
ConnSteps == {"idle", "reading", "lock", "unlock", "respond"} \cup ListenerSteps
MainSteps == {"down", "serve"} \cup ListenerSteps

Requests == [op : {"register", "deregister"}, user : Users, service : Services]
            \cup {[op |-> "other"]}   \* GETs, unknown routes, malformed JSON
NoRequest == [op |-> "none"]
Answers == [status : {0, 200, 400, 503}, port : Ports \cup {NoPort}]
NoAnswer == [status |-> 0, port |-> NoPort]

KeyOf(r) == Compose(r.user, r.service)
Serving == pc[Main] = "serve"

Init ==
    /\ owner = Main
    /\ pc = [t \in Threads |-> IF t = Main THEN "down" ELSE "idle"]
    /\ req = [c \in Conn |-> NoRequest]
    /\ answer = [c \in Conn |-> NoAnswer]
    /\ entries = EmptyRegistry
    /\ disk = EmptyRegistry
    /\ tmp = Missing
    /\ conf = EmptyRegistry
    /\ live = EmptyRegistry
    /\ failed = {}

Goto(t, step) == pc' = [pc EXCEPT ![t] = step]

-----------------------------------------------------------------------------
\* Reading the request, before the lock is asked for.

Accept(c) ==
    /\ Serving
    /\ pc[c] = "idle"
    /\ Goto(c, "reading")
    /\ UNCHANGED <<owner, req, answer, entries, files, nginx, failed>>

\* read_request returned a request.
Receive(c) ==
    /\ pc[c] = "reading"
    /\ \E r \in Requests : req' = [req EXCEPT ![c] = r]
    /\ Goto(c, "lock")
    /\ UNCHANGED <<owner, answer, entries, files, nginx, failed>>

\* Empty, truncated, oversized or malformed: closed without an answer.
Reject(c) ==
    /\ pc[c] = "reading"
    /\ Goto(c, "idle")
    /\ UNCHANGED <<owner, req, answer, entries, files, nginx, failed>>

-----------------------------------------------------------------------------
\* route(), under the mutex.

Acquire(c) == pc[c] = "lock" /\ owner = Nobody /\ owner' = c

\* The registry is left as it is and no listener is called.
Reply(c, status) ==
    /\ answer' = [answer EXCEPT ![c] = [status |-> status, port |-> NoPort]]
    /\ Goto(c, "unlock")
    /\ UNCHANGED <<req, entries, files, nginx, failed>>

\* The listener is called with the registry as it now is.
ReplyAndNotify(c, port) ==
    /\ answer' = [answer EXCEPT ![c] = [status |-> 200, port |-> port]]
    /\ Goto(c, "open")
    /\ failed' = {}
    /\ UNCHANGED <<req, files, nginx>>

Blank(r) == r.op = "register" /\ (IsBlank(r.user) \/ IsBlank(r.service))
Registers(r) == r.op = "register" /\ ~Blank(r)

\* Nothing changes; the status of these answers is left out.
HandleOther(c) ==
    /\ Acquire(c)
    /\ req[c].op = "other"
    /\ Reply(c, 200)

RegisterBlank(c) ==
    /\ Acquire(c)
    /\ Blank(req[c])
    /\ Reply(c, 400)

\* Mutant: an idempotent registration changes nothing, so nobody is told.
RegisterAgainSilently(c) ==
    /\ Acquire(c)
    /\ Registers(req[c])
    /\ entries[KeyOf(req[c])] # NoPort
    /\ answer' = [answer EXCEPT ![c] = [status |-> 200, port |-> entries[KeyOf(req[c])]]]
    /\ Goto(c, "unlock")
    /\ failed' = {}
    /\ UNCHANGED <<req, entries, files, nginx>>

RegisterAgain(c) ==
    /\ Acquire(c)
    /\ Registers(req[c])
    /\ entries[KeyOf(req[c])] # NoPort
    /\ ReplyAndNotify(c, entries[KeyOf(req[c])])
    /\ UNCHANGED entries

RegisterNew(c) ==
    /\ Acquire(c)
    /\ Registers(req[c])
    /\ entries[KeyOf(req[c])] = NoPort
    /\ \E p \in Ports :
          /\ AllocatesPort(entries, p)
          /\ entries' = [entries EXCEPT ![KeyOf(req[c])] = p]
          /\ ReplyAndNotify(c, p)

\* Mutant: the range is taken to end one port later.
RegisterPastEnd(c) ==
    /\ Acquire(c)
    /\ Registers(req[c])
    /\ entries[KeyOf(req[c])] = NoPort
    /\ Exhausted(entries)
    /\ entries' = [entries EXCEPT ![KeyOf(req[c])] = LastPort + 1]
    /\ ReplyAndNotify(c, LastPort + 1)

\* Mutant: the 503 path answers without dropping the guard.
RegisterExhaustedKeepsLock(c) ==
    /\ Acquire(c)
    /\ Registers(req[c])
    /\ entries[KeyOf(req[c])] = NoPort
    /\ Exhausted(entries)
    /\ answer' = [answer EXCEPT ![c] = [status |-> 503, port |-> NoPort]]
    /\ Goto(c, "respond")
    /\ UNCHANGED <<req, entries, files, nginx, failed>>

RegisterExhausted(c) ==
    /\ Acquire(c)
    /\ Registers(req[c])
    /\ entries[KeyOf(req[c])] = NoPort
    /\ Exhausted(entries)
    /\ Reply(c, 503)

Deregister(c) ==
    /\ Acquire(c)
    /\ req[c].op = "deregister"
    /\ entries[KeyOf(req[c])] # NoPort
    /\ entries' = [entries EXCEPT ![KeyOf(req[c])] = NoPort]
    /\ ReplyAndNotify(c, entries[KeyOf(req[c])])

\* Nothing was removed: 200 all the same, and the listener is not called.
DeregisterAbsent(c) ==
    /\ Acquire(c)
    /\ req[c].op = "deregister"
    /\ entries[KeyOf(req[c])] = NoPort
    /\ Reply(c, 200)

Handle(c) ==
    \/ HandleOther(c)
    \/ RegisterBlank(c)
    \/ RegisterAgain(c)
    \/ RegisterNew(c)
    \/ RegisterExhausted(c)
    \/ Deregister(c)
    \/ DeregisterAbsent(c)

-----------------------------------------------------------------------------
\* CompositeListener::on_change, called by a handler or by main at startup.

ListenerDone(t) == Goto(t, IF t = Main THEN "serve" ELSE "unlock")

\* serve() wraps the registry in its mutex once main's own call is over.
HandOver(t) == owner' = IF t = Main THEN Nobody ELSE owner

\* Mutant: registry.json is written in place.
OpenInPlace(t) ==
    /\ pc[t] = "open"
    /\ disk' = Torn
    /\ Goto(t, "fill")
    /\ UNCHANGED <<owner, req, answer, entries, tmp, nginx, failed>>

\* fs::write truncates the file it opens ...
OpenTmp(t) ==
    /\ pc[t] = "open"
    /\ tmp' = Torn
    /\ Goto(t, "fill")
    /\ UNCHANGED <<owner, req, answer, entries, disk, nginx, failed>>

\* ... and then fills it.
FillTmp(t) ==
    /\ pc[t] = "fill"
    /\ tmp' = entries
    /\ Goto(t, "rename")
    /\ UNCHANGED <<owner, req, answer, entries, disk, nginx, failed>>

\* Mutant: the mutex guards the save only.
RenameAndUnlock(t) ==
    /\ pc[t] = "rename"
    /\ disk' = tmp
    /\ tmp' = Missing
    /\ owner' = IF t = Main THEN owner ELSE Nobody
    /\ Goto(t, "conf")
    /\ UNCHANGED <<req, answer, entries, nginx, failed>>

RenameTmp(t) ==
    /\ pc[t] = "rename"
    /\ disk' = tmp
    /\ tmp' = Missing
    /\ Goto(t, "conf")
    /\ UNCHANGED <<owner, req, answer, entries, nginx, failed>>

\* Logged only: nginx is told all the same.
SaveFails(t) ==
    /\ "save" \in Faults
    /\ pc[t] \in {"open", "fill", "rename"}
    /\ failed' = failed \cup {"disk"}
    /\ Goto(t, "conf")
    /\ UNCHANGED <<owner, req, answer, entries, files, nginx>>

WriteConf(t) ==
    /\ pc[t] = "conf"
    /\ Renderable(entries)
    /\ conf' = entries
    /\ Goto(t, "reload")
    /\ UNCHANGED <<owner, req, answer, entries, files, live, failed>>

\* render_config refused an unsafe identifier, or the file cannot be written.
ConfFails(t) ==
    /\ pc[t] = "conf"
    /\ ~Renderable(entries) \/ "conf" \in Faults
    /\ failed' = failed \cup {"live"}
    /\ ListenerDone(t)
    /\ HandOver(t)
    /\ UNCHANGED <<req, answer, entries, files, nginx>>

Reload(t) ==
    /\ pc[t] = "reload"
    /\ live' = conf
    /\ ListenerDone(t)
    /\ HandOver(t)
    /\ UNCHANGED <<req, answer, entries, files, conf, failed>>

ReloadFails(t) ==
    /\ "reload" \in Faults
    /\ pc[t] = "reload"
    /\ failed' = failed \cup {"live"}
    /\ ListenerDone(t)
    /\ HandOver(t)
    /\ UNCHANGED <<req, answer, entries, files, nginx>>

Listen(t) ==
    \/ OpenTmp(t) \/ FillTmp(t) \/ RenameTmp(t) \/ SaveFails(t)
    \/ WriteConf(t) \/ ConfFails(t)
    \/ Reload(t) \/ ReloadFails(t)

-----------------------------------------------------------------------------
\* After the critical section.

Unlock(c) ==
    /\ pc[c] = "unlock"
    /\ owner' = Nobody
    /\ Goto(c, "respond")
    /\ UNCHANGED <<req, answer, entries, files, nginx, failed>>

\* The answer is written, or its write fails; the thread ends either way.
Respond(c) ==
    /\ pc[c] = "respond"
    /\ Goto(c, "idle")
    /\ req' = [req EXCEPT ![c] = NoRequest]
    /\ answer' = [answer EXCEPT ![c] = NoAnswer]
    /\ UNCHANGED <<owner, entries, files, nginx, failed>>

-----------------------------------------------------------------------------
\* The process dies and is started again (Restart=always).  nginx and the
\* files outlive it; a listener it was in the middle of stays undone.

MidChange == \E t \in Threads : pc[t] \in ListenerSteps

Crash ==
    /\ "crash" \in Faults
    /\ pc[Main] # "down"
    /\ pc' = [t \in Threads |-> IF t = Main THEN "down" ELSE "idle"]
    /\ owner' = Main
    /\ req' = [c \in Conn |-> NoRequest]
    /\ answer' = [c \in Conn |-> NoAnswer]
    /\ entries' = EmptyRegistry
    /\ failed' = IF MidChange \/ "disk" \in failed THEN {"live"} ELSE failed
    /\ UNCHANGED <<files, nginx>>

\* Mutant: never render at startup.
LoadAndServe ==
    /\ pc[Main] = "down"
    /\ disk # Torn
    /\ entries' = disk
    /\ Goto(Main, "serve")
    /\ owner' = Nobody
    /\ failed' = IF disk = EmptyRegistry THEN failed ELSE {}
    /\ UNCHANGED <<req, answer, files, nginx>>

\* main(): a malformed file stops it here; an empty registry is not rendered.
Load ==
    /\ pc[Main] = "down"
    /\ disk # Torn
    /\ entries' = disk
    /\ IF disk = EmptyRegistry
       THEN Goto(Main, "serve") /\ owner' = Nobody /\ UNCHANGED failed
       ELSE Goto(Main, "open") /\ owner' = Main /\ failed' = {}
    /\ UNCHANGED <<req, answer, files, nginx>>

Next ==
    \/ \E c \in Conn : \/ Accept(c) \/ Receive(c) \/ Reject(c)
                       \/ Handle(c) \/ Unlock(c) \/ Respond(c)
    \/ \E t \in Threads : Listen(t)
    \/ Crash
    \/ Load

Spec == Init /\ [][Next]_vars

\* Threads that can run do; a peer may keep its request back for ever, and
\* nothing makes connections arrive or the process crash.
Fairness ==
    /\ WF_vars(Load)
    /\ \A t \in Threads : WF_vars(Listen(t))
    /\ \A c \in Conn : /\ WF_vars(Handle(c))
                       /\ WF_vars(Unlock(c))
                       /\ WF_vars(Respond(c))

FairSpec == Spec /\ Fairness

-----------------------------------------------------------------------------
(* Properties *)

\* The values the variables range over (registry.rs, handlers.rs, main.rs).
TypeOK ==
    /\ owner \in Threads \cup {Nobody}
    /\ pc \in [Threads -> ConnSteps \cup MainSteps]
    /\ \A c \in Conn : pc[c] \in ConnSteps
    /\ pc[Main] \in MainSteps
    /\ req \in [Conn -> Requests \cup {NoRequest}]
    /\ answer \in [Conn -> Answers]
    /\ entries \in Registries
    /\ disk \in Registries \cup {Torn}
    /\ tmp \in Registries \cup {Torn, Missing}
    /\ conf \in Registries
    /\ live \in Registries
    /\ failed \subseteq {"disk", "live"}

\* No two sessions share a port: not in memory, not in the copy a restart
\* comes back with, and not among the routes of the config or of the running
\* nginx, whatever failed on the way from one to the next.
NoSharedPort ==
    /\ PortsUnique(entries)
    /\ disk # Torn => PortsUnique(disk)
    /\ PortsUnique(conf)
    /\ PortsUnique(live)

\* registry.json is complete at every instant, so wherever the process dies
\* the next start gets past Registry::load.
RestartLoads == disk # Torn

\* No thread is between taking the registry and giving it back.
Settled == Serving /\ owner = Nobody

\* Between two requests registry.json is the registry, unless the last save
\* failed: every request that changed it, and every repeated /register, has
\* saved it before the mutex was released (PersistOnChange).
DiskCurrent == Settled /\ "disk" \notin failed => disk = entries

\* Between two requests nginx routes exactly the registered sessions, unless
\* the last render or reload failed or a crash cut it short (NginxReloader,
\* and main's own call at startup).
LiveCurrent == Settled /\ "live" \notin failed => live = entries

\* A port given to a new session is routed to nobody at that moment, unless the
\* last reload failed: its previous holder's route is gone before the mutex
\* lets the next /register reuse the port.
PortHandover ==
    [][ Serving /\ "live" \notin failed =>
            \A k \in Composites :
                entries[k] = NoPort /\ entries'[k] # NoPort =>
                    \A j \in Composites : live[j] # entries'[k] ]_vars

\* The control plane implements the lease service: while it is down the leases
\* are those the next start will load.
Leases == INSTANCE LeaseService WITH
            lease <- IF pc[Main] = "down" THEN disk ELSE entries,
            saved <- disk
LeaseSpec == Leases!Spec

\* If connections stop arriving, every request that was read is answered (or
\* lost to a crash), even while other peers never send theirs: the mutex is
\* released on every path, the failing ones included.
Served ==
    (<>[][ \A c \in Conn : ~Accept(c) ]_vars) =>
        \A c \in Conn : pc[c] = "lock" ~> pc[c] = "idle"

-----------------------------------------------------------------------------
(* The inductive invariant behind these properties *)

\* The registry is touched only by its owner, and main owns it until it serves.
Exclusive ==
    /\ \A t \in Threads : pc[t] \in ListenerSteps \cup {"unlock"} => owner = t
    /\ Serving <=> owner # Main
    /\ ~Serving => \A c \in Conn : pc[c] = "idle"

\* What a listener has prepared is the registry it was called with.
Prepared ==
    \A t \in Threads : /\ pc[t] = "rename" => tmp = entries
                       /\ pc[t] = "reload" => conf = entries

\* Once the save of the last change is over, the disk has it unless it failed.
SavedUnlessFailed ==
    /\ "disk" \notin failed
    /\ pc[Main] # "down"
    /\ \A t \in Threads : pc[t] \notin {"open", "fill", "rename"}
    => disk = entries

\* Once the listener of the last change is over, nginx has it unless it failed;
\* a control plane that died in peace left the routes of the file it will load.
RoutedUnlessFailed ==
    "live" \notin failed =>
        /\ pc[Main] = "down" => live = disk
        /\ pc[Main] # "down" /\ ~MidChange => live = entries

\* What every step of the control plane preserves (main.rs:76-142): the
\* properties above, with who may touch the registry, what a listener in the
\* middle of its work has prepared and what it has still to do.
IndInv ==
    /\ TypeOK
    /\ Exclusive
    /\ NoSharedPort
    /\ RestartLoads
    /\ Prepared
    /\ SavedUnlessFailed
    /\ RoutedUnlessFailed
=============================================================================
