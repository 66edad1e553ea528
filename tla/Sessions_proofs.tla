--------------------------- MODULE Sessions_proofs --------------------------
(***************************************************************************)
(* Proofs about Sessions, for any number of developers, services, ups,     *)
(* downs and ports, and any of the hazards unless a theorem says which.    *)
(***************************************************************************)
EXTENDS Sessions, TLAPS

-----------------------------------------------------------------------------
(* What every step relies on *)

LEMMA Keys == \A x \in Ups \cup Downs : Key(x) \in Composites
  BY ProcessesAssumption DEF Key, Composites

LEMMA NoPortIsNone == NoPort \notin Ports
  BY PortRangeAssumption DEF NoPort, Ports

-----------------------------------------------------------------------------
(* The initial states *)

LEMMA InitEstablishes == Init => SessionsInv
  BY ProcessesAssumption, NoPortIsNone
     DEF Init, EmptyRegistry, Registries, Stages, Requests, SessionsInv, TypeOK, OnlyFailuresLeak,
         PortsUnique, Active, ListenersAreOwn, Tunnels, OverlapsAreKnown, Underway, UpKeepsItsLease,
         Held, OneUpPerKey, PortIsTaken

-----------------------------------------------------------------------------
(* The actions *)

\* The ups u finds under way are recorded as running beside it; when the key has a
\* health check its port is free, so there are none.
LEMMA CheckPortKeeps == ASSUME SessionsInv, NEW u \in Ups, CheckPort(u) PROVE SessionsInv'
<1> USE Keys, NoPortIsNone, ProcessesAssumption DEF SessionsInv, CheckPort, RunsBeside, Goto, bastion, service, history
<1> DEFINE others == {v \in UpsOf(Key(u)) : Underway(v)}
<1>0. /\ \A v \in Ups : v # u => (Underway(v)' <=> Underway(v))
      /\ u \notin others /\ others \subseteq Ups
      /\ \A v \in Ups : Key(v) = Key(u) /\ Underway(v) => v \in others
  BY DEF TypeOK, Underway, UpsOf
<1>1. TypeOK'
  BY <1>0 DEF TypeOK, Requests, Registries, Stages
<1>2. OnlyFailuresLeak'
  BY DEF TypeOK, Registries, OnlyFailuresLeak, UpsOf
<1>3. PortsUnique(lease)'
  BY DEF TypeOK, Registries, PortsUnique, Active
<1>4. ListenersAreOwn'
  BY DEF TypeOK, ListenersAreOwn, Tunnels
<1>5. OverlapsAreKnown'
  <2> SUFFICES ASSUME NEW v \in Ups, NEW w \in Ups, Key(v) = Key(w), Underway(v)', Underway(w)', v # w
               PROVE  v \in overlapped'
    BY DEF OverlapsAreKnown, Key
  <2>1. CASE v # u /\ w # u
    BY <1>0, <2>1 DEF OverlapsAreKnown
  <2>2. CASE v = u
    BY <1>0, <2>2
  <2>3. CASE w = u
    BY <1>0, <2>3
  <2> QED
    BY <2>1, <2>2, <2>3
<1>6. NobodyElseTells => UpKeepsItsLease'
  BY DEF TypeOK, Registries, NobodyElseTells, UpKeepsItsLease, Held, Key
<1>7. ServicesAreSteady => (OneUpPerKey /\ PortIsTaken)'
  <2> SUFFICES ASSUME ServicesAreSteady
               PROVE  OneUpPerKey' /\ PortIsTaken'
    OBVIOUS
  <2>1. Key(u) \in HealthChecked => others = {}
    <3> SUFFICES ASSUME Key(u) \in HealthChecked, NEW v \in others
                 PROVE  FALSE
      OBVIOUS
    <3>1. v \in Ups /\ Key(v) = Key(u) /\ Underway(v) /\ ~Starting(v)
      BY DEF UpsOf, ServicesAreSteady
    <3>2. pc[v] \in {"live", "deregistered", "closed"}
      BY <3>1 DEF TypeOK, Stages, Underway, Starting
    <3> QED
      BY <3>1, <3>2 DEF PortIsTaken, Tunnels
  <2>2. \A v \in others : Key(v) \in HealthChecked => Key(u) \in HealthChecked
    BY DEF UpsOf
  <2>3. OneUpPerKey'
    BY <2>1, <2>2 DEF OneUpPerKey
  <2>4. PortIsTaken'
    BY DEF TypeOK, PortIsTaken, Tunnels, Key
  <2> QED
    BY <2>3, <2>4
<1> QED
  BY <1>1, <1>2, <1>3, <1>4, <1>5, <1>6, <1>7

LEMMA GiveUpEarlyKeeps == ASSUME SessionsInv, NEW u \in Ups, GiveUpEarly(u) PROVE SessionsInv'
<1> USE Keys, NoPortIsNone, ProcessesAssumption DEF SessionsInv, GiveUpEarly, Goto, bastion, service, history
<1>1. TypeOK'
  BY DEF TypeOK, Requests, Registries, Stages
<1>2. OnlyFailuresLeak'
  BY DEF TypeOK, Registries, OnlyFailuresLeak, UpsOf
<1>3. PortsUnique(lease)'
  BY DEF TypeOK, Registries, PortsUnique, Active
<1>4. ListenersAreOwn'
  BY DEF TypeOK, ListenersAreOwn, Tunnels
<1>5. OverlapsAreKnown'
  BY DEF TypeOK, OverlapsAreKnown, Underway, Key
<1>6. NobodyElseTells => UpKeepsItsLease'
  BY DEF TypeOK, Registries, NobodyElseTells, UpKeepsItsLease, OverlapsAreKnown, Underway, Held, Key
<1>7. ServicesAreSteady => (OneUpPerKey /\ PortIsTaken)'
  BY DEF TypeOK, ServicesAreSteady, OneUpPerKey, PortIsTaken, OverlapsAreKnown, Underway, Tunnels, UpsOf, Key
<1> QED
  BY <1>1, <1>2, <1>3, <1>4, <1>5, <1>6, <1>7

\* A key that has a port keeps it, and a new one gets a free one.
LEMMA RegisterKeeps == ASSUME SessionsInv, NEW u \in Ups, Register(u) PROVE SessionsInv'
<1> USE Keys, NoPortIsNone, ProcessesAssumption DEF SessionsInv, Register, Goto, Granted, AllocatesPort, Used, bastion, service, history
<1>1. TypeOK'
  BY DEF TypeOK, Requests, Registries, Stages
<1>2. OnlyFailuresLeak'
  BY DEF TypeOK, Registries, OnlyFailuresLeak, UpsOf
<1>3. PortsUnique(lease)'
  BY DEF TypeOK, Registries, PortsUnique, Active
<1>4. ListenersAreOwn'
  <2>1. PICK p \in Ports : port' = [port EXCEPT ![u] = p]
    OBVIOUS
  <2>2. \A v \in Ups : v # u => port'[v] = port[v] /\ pc'[v] = pc[v]
    BY <2>1 DEF TypeOK
  <2>3. u \notin intact /\ \A q \in Ports : sshd[q] # u
    BY DEF TypeOK, ListenersAreOwn, Tunnels
  <2>4. port'[u] \in Ports
    BY <2>1 DEF TypeOK
  <2> QED
    BY <2>2, <2>3, <2>4 DEF TypeOK, ListenersAreOwn, Tunnels
<1>5. OverlapsAreKnown'
  BY DEF TypeOK, OverlapsAreKnown, Underway, Key
<1>6. NobodyElseTells => UpKeepsItsLease'
  <2> SUFFICES ASSUME NobodyElseTells
               PROVE  UpKeepsItsLease'
    OBVIOUS
  <2>1. PICK p \in Ports : lease' = [lease EXCEPT ![Key(u)] = p] /\ port' = [port EXCEPT ![u] = p]
    OBVIOUS
  <2>2. ASSUME NEW v \in Ups \ overlapped, Held(v)'
        PROVE  lease'[Key(v)] = port'[v]
    <3>1. CASE v = u
      BY <2>1, <3>1 DEF TypeOK, Registries
    <3>2. CASE v # u
      <4>1. Held(v) /\ Key(v) # Key(u)
        BY <2>2, <3>2 DEF TypeOK, Held, OverlapsAreKnown, Underway
      <4> QED
        BY <2>1, <3>2, <4>1 DEF TypeOK, Registries, UpKeepsItsLease
    <3> QED
      BY <3>1, <3>2
  <2>3. late' = {} /\ \A v \in Ups \ overlapped : pc'[v] = "live" => recorded'[Key(v)] = v
    BY DEF TypeOK, UpKeepsItsLease
  <2> QED
    BY <2>2, <2>3 DEF UpKeepsItsLease, Key
<1>7. ServicesAreSteady => (OneUpPerKey /\ PortIsTaken)'
  BY DEF TypeOK, ServicesAreSteady, OneUpPerKey, PortIsTaken, OverlapsAreKnown, Underway, Tunnels, UpsOf, Key
<1> QED
  BY <1>1, <1>2, <1>3, <1>4, <1>5, <1>6, <1>7

LEMMA RegisterUnheardKeeps == ASSUME SessionsInv, NEW u \in Ups, RegisterUnheard(u) PROVE SessionsInv'
<1> USE Keys, NoPortIsNone, ProcessesAssumption DEF SessionsInv, RegisterUnheard, MayComeLate, Goto, Granted, AllocatesPort, Used, Active, bastion, service, history
<1>1. TypeOK'
  BY DEF TypeOK, Requests, Registries, Stages
<1>2. OnlyFailuresLeak'
  BY DEF TypeOK, Registries, OnlyFailuresLeak, UpsOf
<1>3. PortsUnique(lease)'
  <2>1. CASE \E p \in Ports : Granted(Key(u), p)
    BY <2>1 DEF TypeOK, Registries, PortsUnique
  <2>2. CASE lease' = lease
    BY <2>2 DEF PortsUnique
  <2> QED
    BY <2>1, <2>2
<1>4. ListenersAreOwn'
  BY DEF TypeOK, ListenersAreOwn, Tunnels
<1>5. OverlapsAreKnown'
  BY DEF TypeOK, OverlapsAreKnown, Underway, Key
<1>6. NobodyElseTells => UpKeepsItsLease'
  <2> SUFFICES ASSUME NobodyElseTells
               PROVE  UpKeepsItsLease'
    OBVIOUS
  <2>1. late' = {}
    BY DEF NobodyElseTells, UpKeepsItsLease
  <2>2. ASSUME NEW v \in Ups \ overlapped, Held(v)'
        PROVE  lease'[Key(v)] = port'[v]
    <3>1. Held(v) /\ Key(v) # Key(u)
      BY <2>2 DEF TypeOK, Held, OverlapsAreKnown, Underway
    <3> QED
      BY <3>1 DEF TypeOK, Registries, UpKeepsItsLease
  <2>3. \A v \in Ups \ overlapped : pc'[v] = "live" => recorded'[Key(v)] = v
    BY DEF TypeOK, UpKeepsItsLease
  <2> QED
    BY <2>1, <2>2, <2>3 DEF UpKeepsItsLease, Key
<1>7. ServicesAreSteady => (OneUpPerKey /\ PortIsTaken)'
  BY DEF TypeOK, ServicesAreSteady, OneUpPerKey, PortIsTaken, OverlapsAreKnown, Underway, Tunnels, UpsOf, Key
<1> QED
  BY <1>1, <1>2, <1>3, <1>4, <1>5, <1>6, <1>7

\* A late registration gives the key the port it has, or a free one.
LEMMA RegisterLateKeeps == ASSUME SessionsInv, NEW k \in Composites, RegisterLate(k) PROVE SessionsInv'
<1> USE Keys, NoPortIsNone, ProcessesAssumption DEF SessionsInv, RegisterLate, Granted, AllocatesPort, Used, Active, bastion, service, history
<1>1. TypeOK'
  BY DEF TypeOK, Requests, Registries, Stages
<1>2. OnlyFailuresLeak'
  BY DEF TypeOK, Registries, OnlyFailuresLeak, UpsOf
<1>3. PortsUnique(lease)'
  BY DEF TypeOK, Registries, PortsUnique, Active
<1>4. ListenersAreOwn'
  BY DEF TypeOK, ListenersAreOwn, Tunnels
<1>5. OverlapsAreKnown'
  BY DEF TypeOK, OverlapsAreKnown, Underway, Key
<1>6. NobodyElseTells => UpKeepsItsLease'
  BY DEF NobodyElseTells, UpKeepsItsLease
<1>7. ServicesAreSteady => (OneUpPerKey /\ PortIsTaken)'
  BY DEF TypeOK, OneUpPerKey, PortIsTaken, Tunnels, Key
<1> QED
  BY <1>1, <1>2, <1>3, <1>4, <1>5, <1>6, <1>7

LEMMA SpawnKeeps == ASSUME SessionsInv, NEW u \in Ups, Spawn(u) PROVE SessionsInv'
<1> USE Keys, NoPortIsNone, ProcessesAssumption DEF SessionsInv, Spawn, Goto, bastion, service, history
<1>1. TypeOK'
  BY DEF TypeOK, Requests, Registries, Stages
<1>2. OnlyFailuresLeak'
  BY DEF TypeOK, Registries, OnlyFailuresLeak, UpsOf
<1>3. PortsUnique(lease)'
  BY DEF TypeOK, Registries, PortsUnique, Active
<1>4. ListenersAreOwn'
  BY DEF TypeOK, ListenersAreOwn, Tunnels
<1>5. OverlapsAreKnown'
  BY DEF TypeOK, OverlapsAreKnown, Underway, Key
<1>6. NobodyElseTells => UpKeepsItsLease'
  BY DEF TypeOK, Registries, NobodyElseTells, UpKeepsItsLease, OverlapsAreKnown, Underway, Held, Key
<1>7. ServicesAreSteady => (OneUpPerKey /\ PortIsTaken)'
  BY DEF TypeOK, ServicesAreSteady, OneUpPerKey, PortIsTaken, OverlapsAreKnown, Underway, Tunnels, UpsOf, Key
<1> QED
  BY <1>1, <1>2, <1>3, <1>4, <1>5, <1>6, <1>7

LEMMA BindKeeps == ASSUME SessionsInv, NEW u \in Ups, Bind(u) PROVE SessionsInv'
<1> USE Keys, NoPortIsNone, ProcessesAssumption DEF SessionsInv, Bind, Goto, bastion, service, history
<1>1. TypeOK'
  <2>1. bound' \in [Composites -> Ups \cup {Nobody}] /\ child' \in [Ups -> {"none", "starting", "serving"}]
    <3>1. /\ bound \in [Composites -> Ups \cup {Nobody}] /\ child \in [Ups -> {"none", "starting", "serving"}]
          /\ Key(u) \in Composites
      BY DEF TypeOK
    <3> HIDE DEF SessionsInv
    <3> QED
      BY <3>1
  <2> QED
    BY <2>1 DEF TypeOK, Registries, Stages
<1>2. OnlyFailuresLeak'
  BY DEF TypeOK, Registries, OnlyFailuresLeak, UpsOf
<1>3. PortsUnique(lease)'
  BY DEF TypeOK, Registries, PortsUnique, Active
<1>4. ListenersAreOwn'
  BY DEF TypeOK, ListenersAreOwn, Tunnels
<1>5. OverlapsAreKnown'
  BY DEF TypeOK, OverlapsAreKnown, Underway, Key
<1>6. NobodyElseTells => UpKeepsItsLease'
  BY DEF TypeOK, Registries, NobodyElseTells, UpKeepsItsLease, OverlapsAreKnown, Underway, Held, Key
<1>7. ServicesAreSteady => (OneUpPerKey /\ PortIsTaken)'
  BY DEF TypeOK, ServicesAreSteady, OneUpPerKey, PortIsTaken, OverlapsAreKnown, Underway, Tunnels, UpsOf, Key
<1> QED
  BY <1>1, <1>2, <1>3, <1>4, <1>5, <1>6, <1>7

\* sshd listens for a session once, on the port it was given.
LEMMA OpenReverseKeeps == ASSUME SessionsInv, NEW u \in Ups, OpenReverse(u) PROVE SessionsInv'
<1> USE Keys, NoPortIsNone, ProcessesAssumption DEF SessionsInv, OpenReverse, Goto, bastion, service, history
<1>1. TypeOK'
  BY DEF TypeOK, Requests, Registries, Stages
<1>2. OnlyFailuresLeak'
  BY DEF TypeOK, Registries, OnlyFailuresLeak, UpsOf
<1>3. PortsUnique(lease)'
  BY DEF TypeOK, Registries, PortsUnique, Active
<1>4. ListenersAreOwn'
  <2>1. (\A v \in intact : Tunnels(v))'
    BY DEF TypeOK, ListenersAreOwn, Tunnels
  <2>2. (\A p \in Ports, v \in Ups : sshd[p] = v =>
            port[v] = p /\ pc[v] \notin {"new", "checked", "registered", "spawned"})'
    BY DEF TypeOK, ListenersAreOwn
  <2>3. port[u] \in Ports
    BY DEF TypeOK, ListenersAreOwn
  <2>4. (\A v \in intact : sshd[port[v]] = v)'
    BY <2>3 DEF TypeOK, ListenersAreOwn
  <2>5. (\A v \in Ups : pc[v] \notin {"new", "checked", "exited"} => port[v] \in Ports)'
    BY <2>3 DEF TypeOK, ListenersAreOwn
  <2> QED
    BY <2>1, <2>2, <2>4, <2>5 DEF ListenersAreOwn
<1>5. OverlapsAreKnown'
  BY DEF TypeOK, OverlapsAreKnown, Underway, Key
<1>6. NobodyElseTells => UpKeepsItsLease'
  BY DEF TypeOK, Registries, NobodyElseTells, UpKeepsItsLease, OverlapsAreKnown, Underway, Held, Key
<1>7. ServicesAreSteady => (OneUpPerKey /\ PortIsTaken)'
  BY DEF TypeOK, ServicesAreSteady, OneUpPerKey, PortIsTaken, OverlapsAreKnown, Underway, Tunnels, UpsOf, Key
<1> QED
  BY <1>1, <1>2, <1>3, <1>4, <1>5, <1>6, <1>7

LEMMA RecordKeeps == ASSUME SessionsInv, NEW u \in Ups, Record(u) PROVE SessionsInv'
<1> USE Keys, NoPortIsNone, ProcessesAssumption DEF SessionsInv, Record, Goto, bastion, service, history
<1>1. TypeOK'
  BY DEF TypeOK, Requests, Registries, Stages
<1>2. OnlyFailuresLeak'
  BY DEF TypeOK, Registries, OnlyFailuresLeak, UpsOf
<1>3. PortsUnique(lease)'
  BY DEF TypeOK, Registries, PortsUnique, Active
<1>4. ListenersAreOwn'
  BY DEF TypeOK, ListenersAreOwn, Tunnels
<1>5. OverlapsAreKnown'
  BY DEF TypeOK, OverlapsAreKnown, Underway, Key
<1>6. NobodyElseTells => UpKeepsItsLease'
  BY DEF TypeOK, Registries, NobodyElseTells, UpKeepsItsLease, OverlapsAreKnown, Underway, Held, Key
<1>7. ServicesAreSteady => (OneUpPerKey /\ PortIsTaken)'
  BY DEF TypeOK, ServicesAreSteady, OneUpPerKey, PortIsTaken, OverlapsAreKnown, Underway, Tunnels, UpsOf, Key
<1> QED
  BY <1>1, <1>2, <1>3, <1>4, <1>5, <1>6, <1>7

LEMMA FailUpKeeps == ASSUME SessionsInv, NEW u \in Ups, FailUp(u) PROVE SessionsInv'
<1> USE Keys, NoPortIsNone, ProcessesAssumption DEF SessionsInv, FailUp, Goto, KillChild, CloseReverse, bastion, service, history
<1>1. TypeOK'
  BY DEF TypeOK, Requests, Registries, Stages
<1>2. OnlyFailuresLeak'
  BY DEF TypeOK, Registries, OnlyFailuresLeak, UpsOf
<1>3. PortsUnique(lease)'
  BY DEF TypeOK, Registries, PortsUnique, Active
<1>4. ListenersAreOwn'
  <2>1. \A v \in intact' : v \in intact /\ v # u
    BY DEF TypeOK
  <2>2. \A p \in Ports, v \in Ups : sshd'[p] = v => sshd[p] = v
    BY DEF TypeOK
  <2>3. \A p \in Ports, v \in intact' : sshd[p] = v => sshd'[p] = v
    BY <2>1 DEF TypeOK
  <2>4. (\A v \in intact : Tunnels(v))'
    BY <2>1 DEF TypeOK, ListenersAreOwn, Tunnels
  <2>5. (\A p \in Ports, v \in Ups : sshd[p] = v =>
            port[v] = p /\ pc[v] \notin {"new", "checked", "registered", "spawned"})'
    BY <2>2 DEF TypeOK, ListenersAreOwn
  <2>6. (\A v \in Ups : pc[v] \notin {"new", "checked", "exited"} => port[v] \in Ports)'
    BY DEF TypeOK, ListenersAreOwn
  <2>7. (\A v \in intact : sshd[port[v]] = v)'
    <3>1. \A v \in intact' : v \in Ups /\ port[v] \in Ports /\ sshd[port[v]] = v
      BY <2>1 DEF TypeOK, ListenersAreOwn, Tunnels
    <3> QED
      BY <2>3, <3>1
  <2> QED
    BY <2>4, <2>5, <2>6, <2>7 DEF ListenersAreOwn
<1>5. OverlapsAreKnown'
  BY DEF TypeOK, OverlapsAreKnown, Underway, Key
<1>6. NobodyElseTells => UpKeepsItsLease'
  BY DEF TypeOK, Registries, NobodyElseTells, UpKeepsItsLease, OverlapsAreKnown, Underway, Held, Key
<1>7. ServicesAreSteady => (OneUpPerKey /\ PortIsTaken)'
  BY DEF TypeOK, ServicesAreSteady, OneUpPerKey, PortIsTaken, OverlapsAreKnown, Underway, Tunnels, UpsOf, Key
<1> QED
  BY <1>1, <1>2, <1>3, <1>4, <1>5, <1>6, <1>7

LEMMA DeregisterKeeps == ASSUME SessionsInv, NEW u \in Ups, Deregister(u) PROVE SessionsInv'
<1> USE Keys, NoPortIsNone, ProcessesAssumption DEF SessionsInv, Deregister, Goto, bastion, service, history
<1>1. TypeOK'
  BY DEF TypeOK, Requests, Registries, Stages
<1>2. OnlyFailuresLeak'
  BY DEF TypeOK, Registries, OnlyFailuresLeak, UpsOf
<1>3. PortsUnique(lease)'
  BY DEF TypeOK, Registries, PortsUnique, Active
<1>4. ListenersAreOwn'
  BY DEF TypeOK, ListenersAreOwn, Tunnels
<1>5. OverlapsAreKnown'
  BY DEF TypeOK, OverlapsAreKnown, Underway, Key
<1>6. NobodyElseTells => UpKeepsItsLease'
  <2> SUFFICES ASSUME NobodyElseTells
               PROVE  UpKeepsItsLease'
    OBVIOUS
  <2>1. ASSUME NEW v \in Ups \ overlapped, Held(v)'
        PROVE  v # u /\ Held(v) /\ Key(v) # Key(u)
    BY <2>1 DEF TypeOK, Held, OverlapsAreKnown, Underway
  <2>2. \A v \in Ups \ overlapped : Held(v)' => lease'[Key(v)] = port'[v]
    BY <2>1 DEF TypeOK, Registries, UpKeepsItsLease
  <2>3. late' = {} /\ \A v \in Ups \ overlapped : pc'[v] = "live" => recorded'[Key(v)] = v
    BY DEF TypeOK, UpKeepsItsLease
  <2> QED
    BY <2>2, <2>3 DEF UpKeepsItsLease, Key
<1>7. ServicesAreSteady => (OneUpPerKey /\ PortIsTaken)'
  BY DEF TypeOK, ServicesAreSteady, OneUpPerKey, PortIsTaken, OverlapsAreKnown, Underway, Tunnels, UpsOf, Key
<1> QED
  BY <1>1, <1>2, <1>3, <1>4, <1>5, <1>6, <1>7

LEMMA DeregisterFailsKeeps == ASSUME SessionsInv, NEW u \in Ups, DeregisterFails(u) PROVE SessionsInv'
<1> USE Keys, NoPortIsNone, ProcessesAssumption DEF SessionsInv, DeregisterFails, MayComeLate, Goto, bastion, service, history
<1>1. TypeOK'
  BY DEF TypeOK, Requests, Registries, Stages
<1>2. OnlyFailuresLeak'
  BY DEF TypeOK, Registries, OnlyFailuresLeak, UpsOf
<1>3. PortsUnique(lease)'
  BY DEF TypeOK, Registries, PortsUnique, Active
<1>4. ListenersAreOwn'
  BY DEF TypeOK, ListenersAreOwn, Tunnels
<1>5. OverlapsAreKnown'
  BY DEF TypeOK, OverlapsAreKnown, Underway, Key
<1>6. NobodyElseTells => UpKeepsItsLease'
  BY DEF TypeOK, Registries, NobodyElseTells, UpKeepsItsLease, OverlapsAreKnown, Underway, Held, Key
<1>7. ServicesAreSteady => (OneUpPerKey /\ PortIsTaken)'
  BY DEF TypeOK, ServicesAreSteady, OneUpPerKey, PortIsTaken, OverlapsAreKnown, Underway, Tunnels, UpsOf, Key
<1> QED
  BY <1>1, <1>2, <1>3, <1>4, <1>5, <1>6, <1>7

LEMMA DeregisterLateKeeps == ASSUME SessionsInv, NEW k \in Composites, DeregisterLate(k) PROVE SessionsInv'
<1> USE Keys, NoPortIsNone, ProcessesAssumption DEF SessionsInv, DeregisterLate, bastion, service, history
<1>1. TypeOK'
  BY DEF TypeOK, Requests, Registries, Stages
<1>2. OnlyFailuresLeak'
  BY DEF TypeOK, Registries, OnlyFailuresLeak, UpsOf
<1>3. PortsUnique(lease)'
  BY DEF TypeOK, Registries, PortsUnique, Active
<1>4. ListenersAreOwn'
  BY DEF TypeOK, ListenersAreOwn, Tunnels
<1>5. OverlapsAreKnown'
  BY DEF TypeOK, OverlapsAreKnown, Underway, Key
<1>6. NobodyElseTells => UpKeepsItsLease'
  BY DEF TypeOK, Registries, NobodyElseTells, UpKeepsItsLease, OverlapsAreKnown, Underway, Held, Key
<1>7. ServicesAreSteady => (OneUpPerKey /\ PortIsTaken)'
  BY DEF TypeOK, ServicesAreSteady, OneUpPerKey, PortIsTaken, OverlapsAreKnown, Underway, Tunnels, UpsOf, Key
<1> QED
  BY <1>1, <1>2, <1>3, <1>4, <1>5, <1>6, <1>7

LEMMA DropReverseKeeps == ASSUME SessionsInv, NEW u \in Ups, DropReverse(u) PROVE SessionsInv'
<1> USE Keys, NoPortIsNone, ProcessesAssumption DEF SessionsInv, DropReverse, Goto, CloseReverse, bastion, service, history
<1>1. TypeOK'
  BY DEF TypeOK, Requests, Registries, Stages
<1>2. OnlyFailuresLeak'
  BY DEF TypeOK, Registries, OnlyFailuresLeak, UpsOf
<1>3. PortsUnique(lease)'
  BY DEF TypeOK, Registries, PortsUnique, Active
<1>4. ListenersAreOwn'
  <2>1. \A v \in intact' : v \in intact /\ v # u
    BY DEF TypeOK
  <2>2. \A p \in Ports, v \in Ups : sshd'[p] = v => sshd[p] = v
    BY DEF TypeOK
  <2>3. \A p \in Ports, v \in intact' : sshd[p] = v => sshd'[p] = v
    BY <2>1 DEF TypeOK
  <2>4. (\A v \in intact : Tunnels(v))'
    BY <2>1 DEF TypeOK, ListenersAreOwn, Tunnels
  <2>5. (\A p \in Ports, v \in Ups : sshd[p] = v =>
            port[v] = p /\ pc[v] \notin {"new", "checked", "registered", "spawned"})'
    BY <2>2 DEF TypeOK, ListenersAreOwn
  <2>6. (\A v \in Ups : pc[v] \notin {"new", "checked", "exited"} => port[v] \in Ports)'
    BY DEF TypeOK, ListenersAreOwn
  <2>7. (\A v \in intact : sshd[port[v]] = v)'
    <3>1. \A v \in intact' : v \in Ups /\ port[v] \in Ports /\ sshd[port[v]] = v
      BY <2>1 DEF TypeOK, ListenersAreOwn, Tunnels
    <3> QED
      BY <2>3, <3>1
  <2> QED
    BY <2>4, <2>5, <2>6, <2>7 DEF ListenersAreOwn
<1>5. OverlapsAreKnown'
  BY DEF TypeOK, OverlapsAreKnown, Underway, Key
<1>6. NobodyElseTells => UpKeepsItsLease'
  BY DEF TypeOK, Registries, NobodyElseTells, UpKeepsItsLease, OverlapsAreKnown, Underway, Held, Key
<1>7. ServicesAreSteady => (OneUpPerKey /\ PortIsTaken)'
  BY DEF TypeOK, ServicesAreSteady, OneUpPerKey, PortIsTaken, OverlapsAreKnown, Underway, Tunnels, UpsOf, Key
<1> QED
  BY <1>1, <1>2, <1>3, <1>4, <1>5, <1>6, <1>7

LEMMA DropRunnerKeeps == ASSUME SessionsInv, NEW u \in Ups, DropRunner(u) PROVE SessionsInv'
<1> USE Keys, NoPortIsNone, ProcessesAssumption DEF SessionsInv, DropRunner, Goto, KillChild, bastion, service, history
<1>1. TypeOK'
  BY DEF TypeOK, Requests, Registries, Stages
<1>2. OnlyFailuresLeak'
  BY DEF TypeOK, Registries, OnlyFailuresLeak, UpsOf
<1>3. PortsUnique(lease)'
  BY DEF TypeOK, Registries, PortsUnique, Active
<1>4. ListenersAreOwn'
  BY DEF TypeOK, ListenersAreOwn, Tunnels
<1>5. OverlapsAreKnown'
  BY DEF TypeOK, OverlapsAreKnown, Underway, Key
<1>6. NobodyElseTells => UpKeepsItsLease'
  BY DEF TypeOK, Registries, NobodyElseTells, UpKeepsItsLease, OverlapsAreKnown, Underway, Held, Key
<1>7. ServicesAreSteady => (OneUpPerKey /\ PortIsTaken)'
  BY DEF TypeOK, ServicesAreSteady, OneUpPerKey, PortIsTaken, OverlapsAreKnown, Underway, Tunnels, UpsOf, Key
<1> QED
  BY <1>1, <1>2, <1>3, <1>4, <1>5, <1>6, <1>7

LEMMA BreakSessionKeeps == ASSUME SessionsInv, NEW u \in Ups, BreakSession(u) PROVE SessionsInv'
<1> USE Keys, NoPortIsNone, ProcessesAssumption DEF SessionsInv, BreakSession, Goto, bastion, service, history
<1>1. TypeOK'
  BY DEF TypeOK, Requests, Registries, Stages
<1>2. OnlyFailuresLeak'
  BY DEF TypeOK, Registries, OnlyFailuresLeak, UpsOf
<1>3. PortsUnique(lease)'
  BY DEF TypeOK, Registries, PortsUnique, Active
<1>4. ListenersAreOwn'
  BY DEF TypeOK, ListenersAreOwn, Tunnels
<1>5. OverlapsAreKnown'
  BY DEF TypeOK, OverlapsAreKnown, Underway, Key
<1>6. NobodyElseTells => UpKeepsItsLease'
  BY DEF TypeOK, Registries, NobodyElseTells, UpKeepsItsLease, OverlapsAreKnown, Underway, Held, Key
<1>7. ServicesAreSteady => (OneUpPerKey /\ PortIsTaken)'
  BY DEF TypeOK, ServicesAreSteady, OneUpPerKey, PortIsTaken, OverlapsAreKnown, Underway, Tunnels, UpsOf, Key
<1> QED
  BY <1>1, <1>2, <1>3, <1>4, <1>5, <1>6, <1>7

LEMMA SshdNoticesKeeps == ASSUME SessionsInv, NEW p \in Ports, SshdNotices(p) PROVE SessionsInv'
<1> USE Keys, NoPortIsNone, ProcessesAssumption DEF SessionsInv, SshdNotices, bastion, service, history
<1>1. TypeOK'
  BY DEF TypeOK, Requests, Registries, Stages
<1>2. OnlyFailuresLeak'
  BY DEF TypeOK, Registries, OnlyFailuresLeak, UpsOf
<1>3. PortsUnique(lease)'
  BY DEF TypeOK, Registries, PortsUnique, Active
<1>4. ListenersAreOwn'
  BY DEF TypeOK, ListenersAreOwn, Tunnels
<1>5. OverlapsAreKnown'
  BY DEF TypeOK, OverlapsAreKnown, Underway, Key
<1>6. NobodyElseTells => UpKeepsItsLease'
  BY DEF TypeOK, Registries, NobodyElseTells, UpKeepsItsLease, OverlapsAreKnown, Underway, Held, Key
<1>7. ServicesAreSteady => (OneUpPerKey /\ PortIsTaken)'
  BY DEF TypeOK, ServicesAreSteady, OneUpPerKey, PortIsTaken, OverlapsAreKnown, Underway, Tunnels, UpsOf, Key
<1> QED
  BY <1>1, <1>2, <1>3, <1>4, <1>5, <1>6, <1>7

LEMMA KillKeeps == ASSUME SessionsInv, NEW u \in Ups, Kill(u) PROVE SessionsInv'
<1> USE Keys, NoPortIsNone, ProcessesAssumption DEF SessionsInv, Kill, Goto, bastion, service, history
<1>1. TypeOK'
  BY DEF TypeOK, Requests, Registries, Stages
<1>2. OnlyFailuresLeak'
  <2> SUFFICES ASSUME NEW k \in Composites \ leaked',
                      \A v \in UpsOf(k) : pc'[v] \in {"new", "checked", "deregistered", "closed", "exited"}
               PROVE  lease'[k] = NoPort
    BY DEF OnlyFailuresLeak, UpsOf, Key
  <2>1. CASE Key(u) = k
    BY <2>1 DEF TypeOK, Stages, OnlyFailuresLeak, UpsOf
  <2>2. CASE Key(u) # k
    BY <2>2 DEF TypeOK, OnlyFailuresLeak, UpsOf
  <2> QED
    BY <2>1, <2>2
<1>3. PortsUnique(lease)'
  BY DEF TypeOK, Registries, PortsUnique, Active
<1>4. ListenersAreOwn'
  BY DEF TypeOK, ListenersAreOwn, Tunnels
<1>5. OverlapsAreKnown'
  BY DEF TypeOK, OverlapsAreKnown, Underway, Key
<1>6. NobodyElseTells => UpKeepsItsLease'
  BY DEF TypeOK, Registries, NobodyElseTells, UpKeepsItsLease, OverlapsAreKnown, Underway, Held, Key
<1>7. ServicesAreSteady => (OneUpPerKey /\ PortIsTaken)'
  BY DEF TypeOK, ServicesAreSteady, OneUpPerKey, PortIsTaken, OverlapsAreKnown, Underway, Tunnels, UpsOf, Key
<1> QED
  BY <1>1, <1>2, <1>3, <1>4, <1>5, <1>6, <1>7

LEMMA KillOrphanKeeps == ASSUME SessionsInv, NEW u \in Ups, KillOrphan(u) PROVE SessionsInv'
<1> USE Keys, NoPortIsNone, ProcessesAssumption DEF SessionsInv, KillOrphan, Goto, KillChild, bastion, service, history
<1>1. TypeOK'
  BY DEF TypeOK, Requests, Registries, Stages
<1>2. OnlyFailuresLeak'
  BY DEF TypeOK, Registries, OnlyFailuresLeak, UpsOf
<1>3. PortsUnique(lease)'
  BY DEF TypeOK, Registries, PortsUnique, Active
<1>4. ListenersAreOwn'
  BY DEF TypeOK, ListenersAreOwn, Tunnels
<1>5. OverlapsAreKnown'
  BY DEF TypeOK, OverlapsAreKnown, Underway, Key
<1>6. NobodyElseTells => UpKeepsItsLease'
  BY DEF TypeOK, Registries, NobodyElseTells, UpKeepsItsLease, OverlapsAreKnown, Underway, Held, Key
<1>7. ServicesAreSteady => (OneUpPerKey /\ PortIsTaken)'
  BY DEF TypeOK, ServicesAreSteady, OneUpPerKey, PortIsTaken, OverlapsAreKnown, Underway, Tunnels, UpsOf, Key
<1> QED
  BY <1>1, <1>2, <1>3, <1>4, <1>5, <1>6, <1>7

LEMMA ChildEndsKeeps == ASSUME SessionsInv, NEW u \in Ups, ChildEnds(u) PROVE SessionsInv'
<1> USE Keys, NoPortIsNone, ProcessesAssumption DEF SessionsInv, ChildEnds, Goto, KillChild, bastion, service, history
<1>1. TypeOK'
  BY DEF TypeOK, Requests, Registries, Stages
<1>2. OnlyFailuresLeak'
  BY DEF TypeOK, Registries, OnlyFailuresLeak, UpsOf
<1>3. PortsUnique(lease)'
  BY DEF TypeOK, Registries, PortsUnique, Active
<1>4. ListenersAreOwn'
  BY DEF TypeOK, ListenersAreOwn, Tunnels
<1>5. OverlapsAreKnown'
  BY DEF TypeOK, OverlapsAreKnown, Underway, Key
<1>6. NobodyElseTells => UpKeepsItsLease'
  BY DEF TypeOK, Registries, NobodyElseTells, UpKeepsItsLease, OverlapsAreKnown, Underway, Held, Key
<1>7. ServicesAreSteady => (OneUpPerKey /\ PortIsTaken)'
  BY DEF TypeOK, ServicesAreSteady, OneUpPerKey, PortIsTaken, OverlapsAreKnown, Underway, Tunnels, UpsOf, Key
<1> QED
  BY <1>1, <1>2, <1>3, <1>4, <1>5, <1>6, <1>7

LEMMA FindSessionKeeps == ASSUME SessionsInv, NEW d \in Downs, FindSession(d) PROVE SessionsInv'
<1> USE Keys, NoPortIsNone, ProcessesAssumption DEF SessionsInv, FindSession, DownGoto, bastion, service, history
<1>1. TypeOK'
  BY DEF TypeOK, Requests, Registries, Stages
<1>2. OnlyFailuresLeak'
  BY DEF TypeOK, Registries, OnlyFailuresLeak, UpsOf
<1>3. PortsUnique(lease)'
  BY DEF TypeOK, Registries, PortsUnique, Active
<1>4. ListenersAreOwn'
  BY DEF TypeOK, ListenersAreOwn, Tunnels
<1>5. OverlapsAreKnown'
  BY DEF TypeOK, OverlapsAreKnown, Underway, Key
<1>6. NobodyElseTells => UpKeepsItsLease'
  BY DEF TypeOK, Registries, NobodyElseTells, UpKeepsItsLease, OverlapsAreKnown, Underway, Held, Key
<1>7. ServicesAreSteady => (OneUpPerKey /\ PortIsTaken)'
  BY DEF TypeOK, ServicesAreSteady, OneUpPerKey, PortIsTaken, OverlapsAreKnown, Underway, Tunnels, UpsOf, Key
<1> QED
  BY <1>1, <1>2, <1>3, <1>4, <1>5, <1>6, <1>7

LEMMA DownDeregistersKeeps == ASSUME SessionsInv, NEW d \in Downs, DownDeregisters(d) PROVE SessionsInv'
<1> USE Keys, NoPortIsNone, ProcessesAssumption DEF SessionsInv, DownDeregisters, DownGoto, bastion, service, history
<1>1. TypeOK'
  BY DEF TypeOK, Requests, Registries, Stages
<1>2. OnlyFailuresLeak'
  BY DEF TypeOK, Registries, OnlyFailuresLeak, UpsOf
<1>3. PortsUnique(lease)'
  BY DEF TypeOK, Registries, PortsUnique, Active
<1>4. ListenersAreOwn'
  BY DEF TypeOK, ListenersAreOwn, Tunnels
<1>5. OverlapsAreKnown'
  BY DEF TypeOK, OverlapsAreKnown, Underway, Key
<1>6. NobodyElseTells => UpKeepsItsLease'
  BY DEF TypeOK, Registries, NobodyElseTells, UpKeepsItsLease, OverlapsAreKnown, Underway, Held, Key
<1>7. ServicesAreSteady => (OneUpPerKey /\ PortIsTaken)'
  BY DEF TypeOK, ServicesAreSteady, OneUpPerKey, PortIsTaken, OverlapsAreKnown, Underway, Tunnels, UpsOf, Key
<1> QED
  BY <1>1, <1>2, <1>3, <1>4, <1>5, <1>6, <1>7

LEMMA DownCannotDeregisterKeeps == ASSUME SessionsInv, NEW d \in Downs, DownCannotDeregister(d) PROVE SessionsInv'
<1> USE Keys, NoPortIsNone, ProcessesAssumption DEF SessionsInv, DownCannotDeregister, MayComeLate, DownGoto, bastion, service, history
<1>1. TypeOK'
  BY DEF TypeOK, Requests, Registries, Stages
<1>2. OnlyFailuresLeak'
  BY DEF TypeOK, Registries, OnlyFailuresLeak, UpsOf
<1>3. PortsUnique(lease)'
  BY DEF TypeOK, Registries, PortsUnique, Active
<1>4. ListenersAreOwn'
  BY DEF TypeOK, ListenersAreOwn, Tunnels
<1>5. OverlapsAreKnown'
  BY DEF TypeOK, OverlapsAreKnown, Underway, Key
<1>6. NobodyElseTells => UpKeepsItsLease'
  BY DEF TypeOK, Registries, NobodyElseTells, UpKeepsItsLease, OverlapsAreKnown, Underway, Held, Key
<1>7. ServicesAreSteady => (OneUpPerKey /\ PortIsTaken)'
  BY DEF TypeOK, ServicesAreSteady, OneUpPerKey, PortIsTaken, OverlapsAreKnown, Underway, Tunnels, UpsOf, Key
<1> QED
  BY <1>1, <1>2, <1>3, <1>4, <1>5, <1>6, <1>7

LEMMA ForgetKeeps == ASSUME SessionsInv, NEW d \in Downs, Forget(d) PROVE SessionsInv'
<1> USE Keys, NoPortIsNone, ProcessesAssumption DEF SessionsInv, Forget, DownGoto, bastion, service, history
<1>1. TypeOK'
  BY DEF TypeOK, Requests, Registries, Stages
<1>2. OnlyFailuresLeak'
  BY DEF TypeOK, Registries, OnlyFailuresLeak, UpsOf
<1>3. PortsUnique(lease)'
  BY DEF TypeOK, Registries, PortsUnique, Active
<1>4. ListenersAreOwn'
  BY DEF TypeOK, ListenersAreOwn, Tunnels
<1>5. OverlapsAreKnown'
  BY DEF TypeOK, OverlapsAreKnown, Underway, Key
<1>6. NobodyElseTells => UpKeepsItsLease'
  BY DEF TypeOK, Registries, NobodyElseTells, UpKeepsItsLease, OverlapsAreKnown, Underway, Held, Key
<1>7. ServicesAreSteady => (OneUpPerKey /\ PortIsTaken)'
  BY DEF TypeOK, ServicesAreSteady, OneUpPerKey, PortIsTaken, OverlapsAreKnown, Underway, Tunnels, UpsOf, Key
<1> QED
  BY <1>1, <1>2, <1>3, <1>4, <1>5, <1>6, <1>7

LEMMA StepPreserves == SessionsInv /\ [Next]_vars => SessionsInv'
<1> SUFFICES ASSUME SessionsInv, [Next]_vars
             PROVE  SessionsInv'
  OBVIOUS
<1>1. ASSUME NEW u \in Ups, UpStep(u)
      PROVE  SessionsInv'
  BY <1>1, CheckPortKeeps, RegisterKeeps, SpawnKeeps, OpenReverseKeeps, RecordKeeps,
     GiveUpEarlyKeeps, RegisterUnheardKeeps, FailUpKeeps DEF UpStep
<1>2. ASSUME NEW u \in Ups, ShutdownStep(u) \/ Deregister(u) \/ DeregisterFails(u)
      PROVE  SessionsInv'
  BY <1>2, DropReverseKeeps, DropRunnerKeeps, DeregisterKeeps, DeregisterFailsKeeps DEF ShutdownStep
<1>3. ASSUME NEW u \in Ups, \/ Bind(u) \/ BreakSession(u) \/ Kill(u) \/ KillOrphan(u) \/ ChildEnds(u)
      PROVE  SessionsInv'
  BY <1>3, BindKeeps, BreakSessionKeeps, KillKeeps, KillOrphanKeeps, ChildEndsKeeps
<1>4. ASSUME NEW k \in Composites, RegisterLate(k) \/ DeregisterLate(k)
      PROVE  SessionsInv'
  BY <1>4, RegisterLateKeeps, DeregisterLateKeeps
<1>5. ASSUME NEW p \in Ports, SshdNotices(p)
      PROVE  SessionsInv'
  BY <1>5, SshdNoticesKeeps
<1>6. ASSUME NEW d \in Downs, DownStep(d)
      PROVE  SessionsInv'
  BY <1>6, FindSessionKeeps, DownDeregistersKeeps, DownCannotDeregisterKeeps, ForgetKeeps DEF DownStep
<1>7. CASE Finished \/ UNCHANGED vars
  BY <1>7 DEF Finished, vars, SessionsInv, TypeOK, OnlyFailuresLeak, UpsOf, PortsUnique, Active,
              ListenersAreOwn, Tunnels, OverlapsAreKnown, Underway, UpKeepsItsLease, Held,
              OneUpPerKey, PortIsTaken, Key
<1> QED
  BY <1>1, <1>2, <1>3, <1>4, <1>5, <1>6, <1>7 DEF Next

-----------------------------------------------------------------------------
(* The theorems *)

\* The inductive invariant: sshd's listeners are those of the sessions that
\* asked for them, ports are not shared, a key has one up at a time but for
\* those that are known to overlap, and an up that does not overlap keeps its
\* lease and its record (up_service, ActiveSession::shutdown).
THEOREM Invariance == Spec => []SessionsInv
  BY InitEstablishes, StepPreserves, PTL DEF Spec

\* Every variable keeps its type.
THEOREM TypeCorrect == Spec => []TypeOK
<1>1. SessionsInv => TypeOK
  BY DEF SessionsInv
<1> QED
  BY <1>1, Invariance, PTL

\* Whatever happens, a registration nobody holds is one an up left when it
\* failed or was killed, or could not remove (deregister_best_effort, `?` in
\* up_service).
THEOREM LeaksHaveACause == Spec => []OnlyFailuresLeak
<1>1. SessionsInv => OnlyFailuresLeak
  BY DEF SessionsInv
<1> QED
  BY <1>1, Invariance, PTL

\* Between two ups of a service with a health check that do not start at the
\* same moment, the local port decides: the second does not get past
\* assert_port_free before the first has ended, killed or not, whatever downs
\* and late requests do at the bastion.
THEOREM OneUpAtATime ==
    ASSUME ServicesAreSteady
    PROVE  Spec => []OneUpPerKey
<1>1. SessionsInv => OneUpPerKey
  BY DEF SessionsInv
<1> QED
  BY <1>1, Invariance, PTL

\* The requests for a key reach only a session of that key, but for the moment
\* between deregister and the drop of the reverse forward, and but for a
\* session that ran beside another of its key, however ups of any number of
\* developers and their services fail, are killed, are started twice and lose
\* the network (ActiveSession::shutdown).
THEOREM RequestsReachTheirOwner ==
    ASSUME NobodyElseTells
    PROVE  Spec => []NoForeignDelivery
<1>1. SessionsInv => NoForeignDelivery
  <2> SUFFICES ASSUME SessionsInv, NEW k \in Composites, NEW u \in Ups \ overlapped,
                      Delivers(k, u), Key(u) # k
               PROVE  pc[u] = "deregistered"
    BY DEF NoForeignDelivery
  <2>1. lease[k] \in Ports /\ sshd[lease[k]] = u /\ u \in intact
    BY DEF SessionsInv, TypeOK, Registries, Delivers
  <2>2. port[u] = lease[k] /\ Tunnels(u)
    BY <2>1 DEF SessionsInv, ListenersAreOwn
  <2>3. ASSUME Held(u)
        PROVE  FALSE
    <3>1. lease[Key(u)] = lease[k]
      BY <2>2, <2>3 DEF SessionsInv, UpKeepsItsLease
    <3> QED
      BY <2>1, <3>1, Keys, NoPortIsNone DEF SessionsInv, PortsUnique, Active
  <2> QED
    BY <2>2, <2>3 DEF Tunnels, Held
<1> QED
  BY <1>1, Invariance, PTL

\* While a session is live and its SSH session is up, its header is routed to
\* its own laptop and it is the one recorded (record_session, "is live"), if it
\* never ran beside another of its key.
THEOREM LiveSessionsAreRouted ==
    ASSUME NobodyElseTells
    PROVE  Spec => []LiveIsRouted
<1>1. SessionsInv => LiveIsRouted
  BY DEF SessionsInv, LiveIsRouted, ListenersAreOwn, UpKeepsItsLease, Held
<1> QED
  BY <1>1, Invariance, PTL
=============================================================================
