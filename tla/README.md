# A TLA+ model of ephemwork

`ephemwork up api` runs a service on a developer's laptop and makes requests to
staging that carry the header `X-Ephemwork: <user>:<service>` reach it: an nginx
on a shared bastion looks the header up in a map and proxies to a port on which
sshd listens for the laptop's reverse tunnel. This directory holds TLA+ modules
of that system, TLC configurations that check them on small instances, and
proofs that TLAPS checks. Every invariant and every action property the runs
check is a theorem as well; liveness is only model-checked.

Paths below are relative to the repository. `bastion-server/src/` is the server
on the bastion, `src/` the command line tool.

## 1. The system

### Parts, their state and their operations

| Part | Code | State | Operations |
|---|---|---|---|
| Port registry | `bastion-server/src/registry.rs` | `entries`: composite key to port; `registry.json` and its temporary file | `register` (idempotent; lowest free port), `deregister`, `save`, `load`, `snapshot` |
| Request handlers | `handlers.rs` | none of their own | `/register`, `/deregister`, `/snapshot`, `/healthz`; a listener is told of changes |
| Control-plane process | `bastion-server/src/main.rs` | a mutex around the registry, one thread per connection | accept, read, lock, route, save + render + reload, unlock, answer; startup; crash and restart by systemd |
| nginx reloader | `nginx.rs` | `ephemwork.conf`; what the running nginx routes | render (all or nothing), write, reload |
| HTTP framing | `http.rs` | a connection's buffer | `read_request`, `write_response` |
| Session commands | `src/commands.rs`, `src/main.rs`, `src/bastion_client.rs` | `ActiveSession`: remote port, child, reverse forward, SSM forwards | `up_service`, `shutdown`, the watch for a dead tunnel, `down_service` |
| Local session state | `src/state.rs` | `~/.ephemwork/state.json` and `state.json.tmp` | `load`, `save`, `upsert`, `remove_where` |
| Reverse tunnel | `src/tunnel.rs` | stop and dead flags, an accept worker, one bridge thread per request | `open_ssh2_reverse_forward`, `bridge_bidirectional`, drop |
| Process runner | `src/runner.rs` | the child process group: a shell and the workload below it | port probe, spawn, health check, SIGTERM/SIGKILL on drop |
| SSM forwards | `src/ssm.rs` | `aws ssm` child processes | pick a local port, start, kill on drop; reuse between sibling sessions (`commands.rs`) |
| Bastion provisioner | `src/bastion_provisioner.rs`, `src/aws_bastion_provisioner.rs` | in AWS: instance, role, instance profile, security group | `run_init`, `run_destroy`, `bastion_doctor`, the check of the VPC's endpoints, status |
| Bastion redeploy | `src/main.rs`, scripts in `src/bastion_provisioner.rs` | the S3 object, `bastion-server` and `bastion-server.new` on the instance, what systemd runs | build, upload, SSM command, poll; first boot |
| Configuration, identity, CLI | `src/config.rs`, `src/cli.rs` | none | parsing |

### How they interact

- `up` calls `/register` over an SSM port forward, gets a remote port, starts the
  local service, asks sshd on the bastion to listen on that port, and records the
  session in `state.json`. `shutdown` calls `/deregister`, then drops the reverse
  forward, then the service, then the SSM forwards.
- A handler runs under the registry's mutex and calls the composite listener
  before it returns: save to `registry.json`, then render and reload nginx. Both
  failures are logged and the request is still answered 200.
- At startup the control plane loads `registry.json` and renders nginx, unless the
  registry is empty.
- Before all that, `up` opens an SSM forward for the control plane and one for
  sshd on ports it picks, and then the `forward_ports` its service declares. A
  port that `state.json` says a live sibling has open is borrowed, not opened.
- `down` reads `state.json`, deregisters what it finds and forgets it. It shares
  `state.json` and the bastion with the `up` it is about, and nothing else.
- Each request that reaches the laptop has one thread that carries bytes between
  an SSH channel and a connection to the local service, in both directions, with
  non-blocking reads and writes.

### What is hard, and what makes each part correct

- **Registry, handlers, listeners, startup.** Several connections at once, three
  copies of the registry behind the one in memory (disk, config, running nginx),
  a failure or a crash between any two of them. *Correct* when no two sessions
  share a port in any copy; a freed port is not handed on while nginx still
  routes it; the copies are current whenever the mutex is free, unless a step
  reported a failure; `registry.json` loads after any crash; every request is
  answered.
- **Sessions.** Several `up`s of one service or over one port, killed, losing
  their SSH session, with calls to the bastion unanswered or carried out late.
  *Correct* when requests never reach somebody else's laptop, a live session is
  routed to its own laptop, a service has one `up` at a time, only failures leave
  registrations behind, and a session with a dead tunnel ends.
- **State file.** Commands in several terminals rewrite one file through one
  temporary name. *Correct* when the file holds what the successful commands
  recorded, wherever others died.
- **Bridge.** Partial reads and writes, would-block, end of file and reset on two
  sides served by one thread. *Correct* when no byte is lost, repeated or
  overtaken, and no peer can hold the thread for ever.
- **Forwards and runner.** Ports looked at and used later, pids that are given out
  again, children that ignore signals, siblings that end while others rely on
  them. *Correct* when what is borrowed is open, no sibling takes a live session's
  forwards away, and an up that ends, at whatever step, leaves nothing behind.
- **HTTP framing.** A request arrives in any pieces and may be cut anywhere.
  *Correct* when its meaning does not depend on the pieces, the cap refuses
  nothing that fits, and an Ok at the client means it was carried out.
- **Provisioner.** Any AWS call may fail, commands are repeated, with the values of
  another VPC too. *Correct* when there is never a second bastion, each bastion is
  complete and in the pinned VPC, what was created can be removed, and the printed
  advice makes the endpoints reachable.
- **Redeploy.** Several operators, a boot script that may still run, commands given
  up that are not cancelled. *Correct* when "redeployed" is true, and no failure
  leaves a binary systemd cannot start.

## 2. The modules

| Module | What it is | Uses |
|---|---|---|
| `RegistryOps` | the pure part of registry and nginx: keys, allocation, what can be rendered | |
| `LeaseService` | abstract specification: ports leased to keys, with a saved copy | `RegistryOps` |
| `ControlPlane` | the bastion server: threads, mutex, listeners, files, nginx, crashes | `RegistryOps`, `LeaseService` by `INSTANCE` |
| `ControlPlane_proofs` | theorems about `ControlPlane` | `ControlPlane` |
| `Sessions` | `up` and `down` of several developers against the bastion's registry and sshd | `RegistryOps` |
| `StateFile` | `state.json` at the level of file names and files | |
| `Bridge` | one bridge thread and its two peers | |
| `Runner` | a service's shell and workload, the local ports, and the drop that ends them | |
| `Forwards` | `up` of services and workers on one laptop: aws processes, picked, declared and borrowed ports | `Runner` |
| `HttpFraming` | one connection to the control plane, byte by byte, and the client's call | |
| `Endpoints` | the pure part of the endpoint check: which groups lack a rule, and what a packet needs | |
| `Provisioner` | `bastion init`, `destroy` and `doctor` over AWS | `Endpoints` |
| `Redeploy` | what runs on the instance; `bastion redeploy` by several operators | `Provisioner` |
| `<module>_proofs` | theorems about `Sessions`, `StateFile`, `Bridge`, `Forwards`, `HttpFraming`, `Provisioner` and `Redeploy`, a module each | the module; `Redeploy_proofs` uses `Provisioner_proofs` |

`MC<module>` holds the values of the constants for TLC; a definition marked
*Mutant* in a module is no part of its specification: it is the form a plausible
mistake would give the definition after it.

The composition goes through the registry. `ControlPlane` is shown to implement
`LeaseService`, where a request changes the table of leases in one step; `Sessions`
has such a table and takes a call to the bastion as one step on it, with the
allocation of `RegistryOps` that `ControlPlane` uses. `Sessions` in turn treats a
load-modify-save of `state.json` as one step and a tunnel as a listener that
delivers or does not; `StateFile` and `Bridge` look inside those. `Forwards` is
the same `up` seen from the laptop: it composes with `Runner` (the service's
processes and the forwards compete for the same local ports) and takes the calls
to the bastion as steps that succeed or fail. `HttpFraming` looks inside one call
of `Sessions` and one `Receive` of `ControlPlane`. `Redeploy` runs on top of
`Provisioner`: its `Provision` step is any step of that module, with what it does
to the machine.

### Names

A name is the sequence of its `/`-free segments, because `/` is the only
character `compose_key` and `split_key` look at. Whether a segment is *safe*
(`is_safe_identifier`) or *blank* is a constant. So a registry is a function from
composite keys to ports, and nothing else about a string matters.

### ControlPlane and the code

| Model | Code |
|---|---|
| `owner` | the mutex; `main` itself before `serve()` wraps the registry in it |
| `pc[c]` | `handle_connection`: `reading`, `lock` (waiting for the mutex), the listener's steps, `unlock`, `respond` |
| `pc[Main]` | `down`, the listener's steps at startup, `serve` |
| `entries`, `disk`, `tmp` | `Registry.entries`, `registry.json`, `registry.json.tmp` |
| `conf`, `live` | `ephemwork.conf` and what the running nginx routes |
| `failed` | history: what the last `on_change` left undone |
| `Receive`, `Reject` | `read_request` |
| `Register*`, `Deregister*`, `HandleOther` | `route` and its handlers, up to the call of the listener |
| `OpenTmp`, `FillTmp`, `RenameTmp`, `SaveFails` | `PersistOnChange` and `Registry::save`; `fs::write` truncates before it fills |
| `WriteConf`, `ConfFails`, `Reload`, `ReloadFails` | `NginxReloader::on_change` |
| `Crash`, `Load` | the process dies, systemd starts it, `main` loads the registry and renders |

`Faults` says what may fail: `"crash"`, `"save"`, `"conf"`, `"reload"`. A peer
may withhold its request for ever, since `read_request` has no timeout.

### Sessions and the code

`pc[u]` runs through `up_service` (`checked`, `registered`, `spawned`,
`tunnelled`, `live`) and `shutdown` (`deregistered`, `closed`, `exited`). `lease`
and `sshd` are the bastion's; `intact` says whose SSH session still works;
`child` and `bound` are the service and the local port it listens on; `recorded`
is `state.json`; `late` holds requests, of either kind, whose client gave up and
which the bastion has yet to get to. One user is one laptop, and a service has one
local port on it. `HealthChecked` are the services with a `health_check_path`,
which is optional: without one `up` goes on as soon as it has started the shell.
`Hazards` says what may happen: `"kill"`, `"network"`, `"late"`, `"child"` (the
service ends by itself), `"overlap"` (a service is started a second time while it
is starting). Two history variables serve the properties: `leaked`, the keys whose
registration nobody is left to remove, and `overlapped`, the `up`s that ran beside
another of their key at some time.

### StateFile, Bridge and the code

- `StateFile` keeps a *name* (`state.json`, `state.json.tmp`) and the *file* it
  stands for apart, because a descriptor outlives a rename. Writing a shorter
  text over a longer one leaves its tail, hence `Garbled`; which of two texts is
  longer is known when one holds a subset of the other's sessions and left open
  otherwise.
- `Bridge` follows the loop of `bridge_bidirectional`: `Top` is the loop
  condition, `Read*` and `Write*` the calls, `side` the direction being served.
  The k-th byte a peer sends is the number k. A peer may send, take, half-close
  or close at any time, or do nothing.

### Runner, Forwards, HttpFraming and the code

- `Runner` keeps the shell, `up`'s only child, and the workload below it apart. A
  shell that has exited is a zombie until `try_wait` reaps it, and its pid stays
  taken meanwhile: `pid_is_alive` of a sibling relies on that. `SignalGroup`,
  `Reap` and `KillGroup` are the three parts of `drop`. `DeafShells` and
  `DeafWork` ignore SIGTERM.
- `Forwards` walks through the list `todo` of what an up opens: the two picked
  forwards, then `state.json` read once, then the declared ports. `aws` are the
  running aws processes, `owned` the guards kept, `borrowed` what an up relies on
  a sibling for. `AwsListens` and `AwsCannotListen` come after the look at the port,
  in any order with everybody else. `doubtful` collects the ups whose forward was
  lost, or never theirs; the properties speak of the others, so they say that
  trouble does not spread. `connecting` is the time a service spends in
  `open_ssh2_reverse_forward`. `Hazards` says what may happen. `recorded` holds one
  session of each service at the most (`OnePerService`, a theorem), so `Without`
  takes out one session where `retain` takes out all that match.
- `HttpFraming` reduces a message to where its parts end: the first empty line of
  each style, each `Content-Length` line with its value, the end. Such a line may
  also stand below the empty line, where it is body. `read_request`
  goes by the first length that parses and `parse_request` by the last, as in the
  code. Their sum wraps at `Modulus` (2^64, a release build).

### Provisioner, Redeploy and the code

- `Provisioner` has one step per AWS call that changes something. A failing call
  and an interrupted command are `Fail`. EC2 and IAM are modelled by the rules
  the code meets: an instance that shuts down still holds its security group, a
  group another group's rule names, a profile with a role and a role with policies
  cannot be deleted, a group of another VPC cannot be named in a rule or at a
  launch. `subnet` and `alb` are the VPCs of the command's arguments. The model's
  `missing` is the report of `missing_vpc_endpoint_ingress`, and `FollowAdvice` the
  operator who runs the printed command; `Revoke` takes such a rule out again after
  a destroy that failed.
- `Redeploy` has one step per line of the two scripts that matters to a file or to
  systemd. Each of them may fail (`set -e`), an aws call may hang, an operator may
  give up while the script goes on. Every operator's build is a version.

## 3. The runs

| Run | What it checks | What it shows |
|---|---|---|
| `cp_safety` | `NoSharedPort`, `RestartLoads`, `DiskCurrent`, `LiveCurrent`, `PortHandover`, `LeaseSpec` | saves and reloads fail and the process dies at any step: ports stay exclusive in every copy and are not handed on while nginx routes them, `registry.json` loads, disk and routes are current unless the last attempt failed, the lease service is implemented |
| `cp_live` | `IndInv`, `Served` | the inductive invariant (type invariant included) holds and every request that was read is answered, with every failure possible, users that are blank or that nginx cannot name, and other peers silent for ever |
| `sess_safety` | `NoForeignDelivery`, `LiveIsRouted` | a service without a health check that is started twice and another developer's, over two ports, killed and disconnected at any point, ending by themselves and started at once |
| `sess_ends` | `OneUpPerKey`, `OnlyFailuresLeak`, `BrokenSessionEnds` | a service with a health check that is started twice, another developer's, a `down` and late requests, over one port: one `up` at a time, only failures leave registrations behind, and a broken session ends |
| `file_saves` | `FileIsMeant`, `LoneSaveIsExact` | three commands in any order and overlap, dying anywhere; what they leave never gets into the save of a later command that runs alone |
| `laptop` | `IndInv`, `ForwardsStay`, `NothingLeftBehind`, `ReuseIsOpen`, `UpDecides` | a service and a worker that declare one forward, with children deaf to SIGTERM, strangers on the ports, reused pids, kills and a `down`: what is borrowed is open, nobody but its owner takes a forward away, an up that ends leaves no aws process and no shell, and every up gets to its SSH calls, to a session or to its end |
| `http` | `FramingInv`, `SameHoweverCut`, `CapHolds`, `OkMeansActed`, `CallEnds` | over three hundred messages with every combination of line ends, lengths and bodies, in every cut of sends, reads and writes |
| `bridge` | `IndInv`, `InOrder`, `DrainedAtEnd`, `EveryByteMovesOn`, `StopReturns` | three bytes each way in every cut of reads and writes; peers that take nothing for ever hold neither a byte nor the thread |
| `prov_reruns` | `OneBastion`, `BastionComplete`, `DestroyedIsGone`, `PinnedVpcOnly`, `AdviceSuffices`, `IndInv` (type invariant included) | `init`, `destroy` and `doctor` in any order and number, failing anywhere, with subnets and load balancers of two VPCs and endpoints that share security groups |
| `redeploy` | `HostIndInv`, `RedeployInstalls`, `AlwaysStartable`, `RedeployEnds` | two redeploys, one of a build that does not serve, at any moment of a first boot, of a crash, of `init` and of `destroy` |
| `prov_redestroy` | violates `DestroyFinishes` | `bastion_provisioner.rs:349`, "a re-run will skip it": the re-run no longer finds the instance and skips everything |
| `redeploy_overlap` | violates `InstalledIsExecutable` | `bastion_provisioner.rs:623`, "only mv into place after chmod": two scripts share `bastion-server.new`, and one moves what the other has just downloaded |

`IndInv`, `FramingInv` and `HostIndInv` are inductive invariants of the proofs; each
contains the type invariant of its module.

The runs that pass visit between 42,000 (`file_saves`) and 1.4 million
(`cp_safety`) distinct states, and exhaust them.

### Bounds, and why they are enough

- *Control plane*: two connections (a mutex with one waiter shows every overlap
  of two critical sections). In `cp_safety` two developers compete for two ports,
  so that one port is freed, and handed on, while the other is held, and both
  routes can be rendered; a failing write of the config is left to `cp_live` and
  to the theorems, which hold for every choice of `Faults`. In `cp_live` the one
  port makes the range run out, and one user cannot be rendered and one is blank.
  Connections are symmetric; `SYMMETRY` is used only where no liveness is checked.
- *Sessions*: two `up`s of one key and one of another compete for one key and for
  a port at the same time; two ports in `sess_safety`, so that a freed port can be
  another session's next, and one in `sess_ends`, so that the ports run out. The
  service that is started twice has no health check in `sess_safety`, where two
  `up`s of it can be live at once, and has one in `sess_ends`, whose subject is
  that they cannot. Each process runs once.
- *State file*: three commands over two sessions: two that interfere and one
  after them. Which text is longer is left open where the sessions do not decide
  it, so longer lists add nothing new.
- *Laptop*: one up that opens picked and declared forwards and one that opens
  declared ones only; one declared port, which either may own and the other
  borrow; two ports to pick, one of which a stranger may take, so that picking can
  fail. One shell ignores SIGTERM and the other's workload does, which gives each
  path of `drop`. Each up runs once.
- *HTTP*: a cap of 6 and reads of 2 for 65536 and 2048, messages of up to 9
  bytes: below, at and above the cap, with the head ending before, at and behind
  a read. A length of 29 wraps at 32. A second length may stand in the body. The
  client's messages span the cap as well.
- *Bridge*: `BufferSize` 2 for 8192, `Capacity` 2 and `SpinLimit` 1 for 1000:
  a write can be partial, blocked once and blocked too often. `MaxSent` bounds
  what a peer sends; three bytes let one read be written in parts with more
  behind it.
- *Provisioner*: two instances, since the properties speak of a second one; two
  policies, as in the code; two VPCs, one pinned; two interface endpoints that
  share a group and one gateway; one rule per group at first, of each kind that
  `ingress_allows` and EC2 judge differently. The number of commands is not
  bounded.
- *Redeploy*: two operators, since two scripts share a file; one instance, which
  is launched again after a destroy; one VPC and no endpoints, because those are
  `prov_reruns`' subject. Each operator redeploys once.

### Fairness

- `ControlPlane`: weak fairness of each thread's own steps and of the restart.
  Nothing makes a connection arrive, a peer send or the process die. The reload,
  which runs `nginx` under the mutex without a timeout (`nginx.rs:140-150`), is
  assumed to end. A mutex that is released and taken again infinitely often need
  not admit a given thread (std's mutex promises no order), so `Served` speaks of
  behaviours in which connections stop arriving.
- `Sessions`: `main`'s watch polls once a second and ends a session whose tunnel
  is dead, and `shutdown`, once begun, goes on, for every call to the bastion has a
  timeout. An `up` that is starting owes nothing, since its SSH calls have none,
  and neither do sshd and the user.
- `Forwards`: weak fairness of each up's own steps: its waits have deadlines
  (fifteen seconds for a port, a minute for health, two seconds of grace), except
  in `connecting`: `open_ssh2_reverse_forward` connects, shakes hands, logs in and
  asks for the listener on a blocking session without a timeout
  (`tunnel.rs:260-288`), so an sshd that accepts the connection and says nothing
  holds `up` there for ever, and `UpDecides` lets it. Nothing makes a child listen, become healthy or end.
- `HttpFraming`: the server's thread reads what is there, answers and closes; the
  client's call returns when the server has closed, or after ten seconds. Nothing
  delivers bytes. A read that fails for another reason (`ReadFails`) is never owed.
- `Redeploy`: each operator's command goes on: cargo and aws commands end, and the
  three minutes do. The script on the instance owes nothing.
- `Bridge`: weak fairness of the bridge thread alone. The peers owe nothing, and no
  call is owed a failure.

## 4. Where the code and its words part

Two sentences have a run of their own that breaks them: `prov_redestroy` and
`redeploy_overlap` above. These others the models contradict as well; where one
limits what a property can say, the property is named.

- `bastion-server/src/main.rs:68-70`: the map is rendered at startup "so the active
  map is correct after a control-plane restart", and "with no sessions, the
  user-data stub remains". After a crash between the save and the reload of the
  last removal, what remains is the removed session's route, for the render of an
  empty registry is skipped. `LiveCurrent` counts it as a reload that failed.
- `nginx.rs:1-3`, "newly-registered sessions become routable immediately": one
  registered name with a character nginx cannot take makes every later render
  fail, whoever registers.
- `bastion-server/src/main.rs:129`, "If persist fails the next call will retry": a
  repeated `/deregister` finds nothing to remove and calls no listener. That is
  why `DiskCurrent` excludes a failed save until a later change.
- `README.md:244` (of the repository), `down` will "stop the local service and tear
  down the tunnel": `down` deregisters and forgets; the `up` and its tunnel stay.
- `state.rs:55`, "Write to a sibling temp file then rename for atomicity": two
  commands write into one temporary file, and what is renamed may be neither's
  text. `FileIsMeant` and `LoneSaveIsExact` are about commands that do not overlap
  another.
- `commands.rs:106`, "Persist a successful `up` invocation": of two commands that
  overlap one may lose its change.
- `README.md:255-257`, Ctrl-C and re-run: Ctrl-C leaves the session in
  `state.json`, and another up that declares one of its forwards is refused until
  `down` is run (`commands.rs:210`).
- `ephemwork.toml.example:36-39`, a worker that declares a port an `up` forwards
  "will fail at startup": it borrows the forward, unless the owner is dead.
- `runner.rs:5-6`, a panicking up "never leaves orphaned processes": a workload that
  ignores SIGTERM below a shell that does not is never sent SIGKILL.
  `NothingLeftBehind` names it.
- `src/main.rs:52`, "is live": a live session may lose its registration to somebody
  else, and another developer's requests may then come to its laptop.
  - *Another `up` of the key.* `assert_port_free` looks at the local port only. A
    service without a `health_check_path` is live before it listens, so a second
    `up` of it passes the check; so it does for any service that has ended by
    itself, or that is started twice at once. Both get one registration, and the
    first of them to end removes it from the other. `LiveIsRouted` and
    `NoForeignDelivery` therefore leave out the `overlapped` ones, and
    `OneUpPerKey` says which services never have any: those with a health check, in
    the absence of the hazards `"child"` and `"overlap"`.
  - *A `down`, or a late request.* A `down` deregisters what it read earlier, and a
    deregistration its client gave up on removes the registration the developer has
    made since. `sess_safety` is without them.
- `tunnel.rs:63`, "until either closes": the bridge waits for both sides, which is
  why `StopReturns` and `EveryByteMovesOn` promise no end when one side closes.
- `aws_bastion_provisioner.rs:3`, "Each method is idempotent": the role is added to
  the profile only by the run that created the profile; `BastionComplete` asks for
  a profile, not for one that holds the role.
- `config.rs:28-31`, an `init` outside the pinned VPC aborts "before creating
  anything": the guard looks at the subnet, and the security group is created in
  the VPC of the load balancer's group. No instance is launched with it
  (`PinnedVpcOnly`), but it stays, and later inits find it by name.
- `main.rs:390-391` bounds the wait for a redeploy, not the redeploy: the command
  goes on and may swap the binary later. `RedeployInstalls` counts it as one that
  overlaps.
- `bastion_doctor` may call the bastion healthy when the user-data script stopped half way: it
  asks EC2, SSM and the security groups, never the control plane.

## 5. What is proved

### The control plane

`ControlPlane_proofs` proves, for any set of connections, any users and services,
any range of ports and any choice of `Faults`:

| Theorem | Statement |
|---|---|
| `TypeCorrect` | `Spec => []TypeOK` |
| `Invariance` | `Spec => []IndInv` |
| `PortsNeverShared` | `Spec => []NoSharedPort` |
| `RestartAlwaysLoads` | `Spec => []RestartLoads` |
| `DiskIsCurrent` | `Spec => []DiskCurrent` |
| `LiveIsCurrent` | `Spec => []LiveCurrent` |
| `HandoverIsSafe` | `Spec => PortHandover` |
| `ImplementsLeases` | `Spec => LeaseSpec` |

From these assumptions on the constants: the range of ports starts above 0 (port
0 stands for "no entry"; the code's range is 10000 to 19999), the threads, `Main`
and `Nobody` differ, a torn and a missing file differ from each other and from
every registry, and `Faults` names known faults. TLC evaluates them in every run of the module.

*The argument.* None of the properties is inductive alone. `DiskCurrent` speaks
of the moments when nobody has the registry; to keep it, one has to know what a
listener in the middle of its work has prepared (`Prepared`: what it is about to
rename or reload is the registry it was called with), that nobody changed the
registry meanwhile (`Exclusive`: a thread inside a listener owns the registry, and
while `main` starts up no connection runs), and what is still to come
(`SavedUnlessFailed`, `RoutedUnlessFailed`: once the last change's save, or its
reload, is over, the copy is current unless it failed). `IndInv` is their
conjunction with `TypeOK`, `NoSharedPort` and `RestartLoads`. `NoSharedPort` needs
to be in it for the copies: the disk's registry comes back at a restart. There is
one lemma per action of the model, and `StepPreserves` puts them together.

`HandoverIsSafe` follows from `LiveCurrent` at the moment of the step: the port
`allocate_port` picks is used by no entry, and nginx routes the entries.
`ImplementsLeases` maps a registration to `Grant`, a removal to `Release`, the
rename to `Save`, and a crash to `Restart`; while the process is down the leases
are the file's, so `Load` is a stutter. The mapping needs `RestartLoads`, for a
torn file is no lease table, and `Prepared`, for the rename saves the table in
memory and no older one.

### The provisioner

`Provisioner_proofs` proves, for any instances, policies and VPCs, any endpoints
with any security groups and rules, any set of commands, pinned VPC or none:

| Theorem | Statement |
|---|---|
| `TypeCorrect` | `Spec => []TypeOK` |
| `Invariance` | `Spec => []IndInv` |
| `NeverTwoBastions` | `Spec => []OneBastion` |
| `BastionsAreComplete` | `Spec => []BastionComplete` |
| `DestroyRemovesAll` | `Spec => []DestroyedIsGone` |
| `GuardHolds` | `Spec => []PinnedVpcOnly` |
| `AdviceIsEnough` | `Spec => []AdviceSuffices` |

The assumptions: `NoInstance` is no instance, an interface endpoint has at least
one group, the rules are permissions, the commands are known, and at most one VPC
is pinned.

*The argument.* `BastionComplete` speaks of the moment after a launch; what makes
it true are the steps before it, and each of them may have been skipped because an
earlier, failed run left something behind. `InitProgress` says what an init may
rely on at each of its steps, whatever it found: no instance is live until it
launches one (that is `OneBastion`'s reason too), the role has all its policies
from `profile` on, the group is open and in the load balancer's VPC at `launch`,
and the subnet passed the guard. `DestroyProgress` is its counterpart: a destroy
past `delgroup` has no group and no instance left, past `delprofile` no profile; a
destroy that skips ahead does so because there is nothing to remove.
`ReportIsComplete` says that each group that was checked admits the bastion or is
in the report, and `AdviceSuffices` follows from it and two facts about
`Endpoints`: a permission `IngressAllows` accepts is one EC2 admits
(`AllowedIsAdmitted`), and running a command takes none away. `IndInv` is their
conjunction; there is one lemma per action.

### The sessions

`Sessions_proofs` proves, for any users, services and ports, any `up`s and `down`s:

| Theorem | Statement | Under |
|---|---|---|
| `TypeCorrect` | `Spec => []TypeOK` | any `Hazards` |
| `Invariance` | `Spec => []SessionsInv` | any `Hazards` |
| `LeaksHaveACause` | `Spec => []OnlyFailuresLeak` | any `Hazards` |
| `OneUpAtATime` | `Spec => []OneUpPerKey` | `ServicesAreSteady` |
| `RequestsReachTheirOwner` | `Spec => []NoForeignDelivery` | `NobodyElseTells` |
| `LiveSessionsAreRouted` | `Spec => []LiveIsRouted` | `NobodyElseTells` |

`ServicesAreSteady` says that no service ends by itself or is started twice while
it is starting (the hazards of `sess_ends`), `NobodyElseTells` that no `down` runs and
no request is late (those of `sess_safety`); kills and network failures may happen
at any point under both. Without them the theorems are false of the code (section
4), so the hypotheses cannot be dropped. The other assumptions are that `Nobody` is
no `up`, every command is for one user and one service, and `HealthChecked` is a set
of keys, any one.

*The argument.* Requests for key k go to the port k is registered with and to the
session sshd has on it. `PortsUnique` separates the keys, and `ListenersAreOwn`
says that sshd's listener of an intact session is on the port that session was
given. What is missing is that the key still has that port: only another `up` of the
key could have changed it, and it would have had to run beside this one, which
`OverlapsAreKnown` has noted. So `UpKeepsItsLease` for the others. That a service
with a health check has no others is a fact far from the registry: from before the
first is live until it has ended, and longer after a kill, its child holds the local
port (`PortIsTaken`), which the second looks at. `SessionsInv` is the conjunction;
the parts that need a hypothesis are implications, so one invariant serves all the
theorems. TLC has checked it on the instances of both runs before it was proved; the
runs list the properties that follow from it.

### The state file

`StateFile_proofs` proves, for any commands and sessions, `TypeCorrect`,
`Invariance`, `CrashesKeepTheFile` (`Spec => []FileIsMeant`) and
`LoneSavesAreExact` (`Spec => LoneSaveIsExact`). The assumptions: the names of
files differ, and garbage is no set of sessions.

*The argument.* A descriptor outlives a rename, so a command can write into what
has become `state.json`: that is how overlapping commands garble it. A command
that overlaps none cannot, and the reason is about names: the two names never
stand for one file (`NamesApart`), the file a command would make has no name
before it makes it (`NotMadeYet`), and from its open to its rename the temporary
name is its own file with its own text (`LoneCommand`), even if that file is a
leftover of a command that died. `CopyIsMeant` adds what it writes. TLC has checked
`IndInv` on the instance of `file_saves` before it was proved.

### The bridge

`Bridge_proofs` proves, for buffers, capacities and spin limits of any size and
any number of bytes, `TypeCorrect`, `Invariance`, `BytesStayInOrder`
(`Spec => []InOrder`), `NothingIsCutOff` (`Spec => []DrainedAtEnd`) and
`TakenIsABeginning`: what a peer has taken is a beginning of what the other has
sent.

*The argument.* `InOrder` is an equation between concatenations, and nearly
inductive: each step moves a piece of one sequence to its neighbour, and the
lemmas `CutInTwo` and `HeadMoves` say that this leaves their concatenation alone.
It needs to know that the buffer is empty when a read fills it
(`HeldWhileWriting`). `DrainedAtEnd` needs why the loop ends: without an error or
`stop` both sides are done (`EndsWhenDone`), and a side that is done was read to
its end (`DoneIsDrained`), which stays so because its peer sends nothing any more.

### The laptop

`Forwards_proofs` proves, for any `up`s, services, ports and lists of declared
ports, and any `Hazards`:

| Theorem | Statement |
|---|---|
| `TypeCorrect` | `Spec => []TypeOK` |
| `Invariance` | `Spec => []IndInv` |
| `EndedUpsLeaveNothing` | `Spec => []NothingLeftBehind` |
| `LiveUpsKeepTheirForwards` | `Spec => []ForwardsStay` |
| `ReusedForwardsAreOpen` | `Spec => ReuseIsOpen` |
| `SessionsAreDistinct` | `state.json` holds one session for each service |

The assumptions: `Nobody` and `Stranger` are neither `up`s nor ports, and a
service's own port is neither one it declares as a forward nor one the kernel
picks. With such a port an `up` would compete with itself, which `holder`, the name
of the `up`, cannot tell apart.

*The argument.* An `up` keeps the port of each guard until it exits
(`KeepsItsOwn`). Three things could take it away: another process, which can only
take a port nobody has; another `up` that closes its forwards, which closes none
but its own; and the end of the `up`'s own service, which gives back the port it
listened on, so one has to know that it is no port of a forward (`OpensItsOwn`).
A borrower relies on a guard of the owner's (`BorrowsFromOwners`), and on a pid:
`ServiceFollowsUp` says that an `up` that has exited has reaped its shell, so a pid
that is alive belongs to one that still has its forwards. It also says what is
left of the service at each step of `drop`, which is `NothingLeftBehind`.

### The connection

`HttpFraming_proofs` proves, for any messages, cap, size of a read and width of a
word: `TypeCorrect`, `Invariance` (`Spec => []FramingInv`), `OkIsEarned`
(`Spec => []OkMeansActed`), `CapIsKept` (`Spec => []CapHolds`) and
`CutsDoNotMatter` (`Spec => []SameHoweverCut`).

The assumption that matters is `m.size + Cap + Chunk <= Modulus`: the head, the
cap and a read fit a word. It was found while proving: without it a head of almost
2^64 bytes would make even a small length wrap. No process can hold such a
message. Proving also showed that `Meaning` took a `Content-Length` line behind the
empty line for a header where the code does not; the messages of `http` now include
one.

*The argument.* `ReadingInOrder` says that reading goes on exactly as long as what
is there is not enough, and that what was returned is `Parse` or `AtEof` of what was
there at that moment. So what is left is a fact about one message and two numbers:
`Parse` of enough bytes is what all the bytes mean. Reading the head needs that the
first and the last `Content-Length` are the same line, which `Plain` provides.

### The redeploy

`Redeploy_proofs` proves, for any operators and whatever `Provisioner_proofs`
assumes:

| Theorem | Statement |
|---|---|
| `CloudImplementsProvisioner` | `CloudSpec => Spec`: seen from AWS, `Redeploy` is `Provisioner` |
| `HostInvariance` | `CloudSpec => []HostIndInv` |
| `HostTypeCorrect` | `CloudSpec => []HostTypeOK` |
| `ReportedRedeploysAreInstalled` | `CloudSpec => []RedeployInstalls` |
| `BinariesAreStartable` | `CloudSpec => []AlwaysStartable` |

*The argument.* `CloudImplementsProvisioner` carries every theorem of
`Provisioner_proofs` over, and `HostInvariance` uses one of them: the invariant of
`Provisioner` says which instances exist. A redeploy that overlaps none is the only
one whose commands may still run, and its build is the last one uploaded
(`LoneRedeploy`); so what its commands find at each line is that build
(`FindsItsBuild`), even if the instance boots again in between and downloads it a
second time. `HostsInOrder` is about the boot script: what it has put in place is
executable, unless two redeploys overlapped.

### What the proofs rest on

No induction over data was needed. Where a sequence or a set of indices has to
have a first element (`Min` in `HttpFraming`, `SelectInSeq` in `Forwards`), that
follows from the well-foundedness of < on the naturals, and removing an element of
`recorded` is `RemoveAt`, which is defined by concatenation. A filter over a
sequence would have needed an induction; nothing in the models is one.

### Only model-checked

All liveness: `Served`, `BrokenSessionEnds`, `RedeployEnds`, `EveryByteMovesOn`,
`StopReturns`, `UpDecides` and `CallEnds`. TLAPS does not reason about `ENABLED`, so
neither weak fairness nor a leads-to property can be proved. Nothing is proved
about a mutant or about the two runs that find a violation.

## 6. Not modelled

- *Durability below the file system*: there is no `fsync` in the code; the model
  lets a process die, and does not let the machine lose writes it acknowledged.
- *nginx*: a restart of nginx itself; the text of the config; that nginx compares
  map keys without regard to case. `conf.tmp` is collapsed into `WriteConf`: it is
  written and renamed under one lock and read by nobody else.
- *The server*: a failing `bind`; a poisoned mutex (no handler panics while it
  holds it: the panic of `HttpFraming` comes before).
- *Laptop*: what becomes of an up whose own port was lost or taken by a stranger
  (`doubtful` in `Forwards`): the properties say that it harms no sibling.
- *Sessions*: the time between a change at the bastion and its answer: a call is one
  step, whose answer comes at once or never. A `/register` that got no answer may
  still be carried out, when everybody of the key has gone; `OnlyFailuresLeak` counts
  what it leaves behind with the failures.
- *HTTP*: methods, paths and header names; JSON, of which only "whole" and "cut"
  are told apart; the probe of `wait_for_health`.
- *Tunnel*: the accept worker's threads (`Sessions` knows a tunnel as one
  listener) and keepalives: how long either end takes to notice a silently
  dropped connection is left open.
- *Names with `/`*: two pairs can compose one key. The registry is right about
  keys, and nothing in the code could tell the pairs apart.
- *Provisioner*: two operators running `init` at once (nothing in the code
  serialises them), the delay with which EC2 and IAM answers become consistent,
  instances stopped by hand, dry runs and `status`, which change nothing; an
  instance without a security group, for which destroy skips the deletion: the
  lookup (`aws_bastion_provisioner.rs:436-446`) returns none that is shutting down or
  gone, and `init` launches every other one with a group.
- *Redeploy*: the build itself; `--skip-build` is a build that was there.
- *Configuration, identity and command line*: parsing without state; what may
  come out of it are the constants.

## 7. The plan

Written first, because a mistake there misroutes other developers' requests:
`RegistryOps`, `LeaseService`, `ControlPlane` and its proofs. Then the places
where processes interleave without any lock, `Sessions`, `StateFile`, `Runner` and
`Forwards`; then the loops with many failure points, `Provisioner` with its proofs,
`Redeploy`, `Bridge` and `HttpFraming`.

Every module but `Runner`, which `Forwards_proofs` covers where `Forwards` uses it,
and the pure ones has its proofs. Still to come, in this order:

1. The accept worker of `tunnel.rs`: channels accepted while the handle is
   dropped, bridges that outlive it, and the dead flag.
2. `LiveIsRouted` with a `down` or a late request in between, key by key: what
   `NobodyElseTells` excludes for all keys could be excluded for the one in question.
3. `Sessions` composed with `ControlPlane` in one module, so that the step of the
   lease service is the control plane's own.
