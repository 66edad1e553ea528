---------------------------- MODULE RegistryOps ----------------------------
(***************************************************************************)
(* The pure part of bastion-server/src/registry.rs and nginx.rs: what a    *)
(* registry is, how a (user, service) pair becomes its key, which port a   *)
(* new key gets and which registries can be rendered as an nginx map.      *)
(*                                                                         *)
(* A name is the sequence of its '/'-free segments, since '/' is the only  *)
(* character compose_key and split_key look at: <<"a">> is "a" and         *)
(* <<"a", "b">> is "a/b".  A segment is safe when is_safe_identifier       *)
(* accepts it and blank when it trims to nothing.                          *)
(***************************************************************************)
EXTENDS Naturals, Sequences, FiniteSets

CONSTANTS Users, Services,  \* the names clients send
          SafeSegments,     \* segments made of ASCII alphanumerics, '_', '-' and '.'
          BlankSegments,    \* segments of white space only
          FirstPort, LastPort

ASSUME PortRangeAssumption ==
    /\ FirstPort \in Nat \ {0}
    /\ LastPort \in Nat

Ports == FirstPort .. LastPort
NoPort == 0

Compose(user, service) == user \o service

Composites == {Compose(u, s) : u \in Users, s \in Services}

\* A registry gives each composite key its port, NoPort when it has no entry.
Registries == [Composites -> Ports \cup {NoPort}]
EmptyRegistry == [k \in Composites |-> NoPort]

Active(reg) == {k \in Composites : reg[k] # NoPort}
Used(reg) == {reg[k] : k \in Active(reg)}

\* Mutant: trust the entry count and hand out the port that follows it.
AllocatesByCount(reg, p) ==
    /\ p \in Ports
    /\ p = FirstPort + Cardinality(Active(reg))

\* The lowest port of the range no entry uses.
AllocatesPort(reg, p) ==
    /\ p \in Ports \ Used(reg)
    /\ \A q \in Ports \ Used(reg) : p <= q

Exhausted(reg) == Ports \subseteq Used(reg)

\* splitn(2, '/'): the first segment, and everything after it.
SplitUser(k) == <<Head(k)>>
SplitService(k) == Tail(k)

IsBlank(name) == Len(name) = 1 /\ name[1] \in BlankSegments
IsSafeIdentifier(name) == Len(name) = 1 /\ name[1] \in SafeSegments

\* render_config succeeds only if every entry of the snapshot is safe.
Renderable(reg) ==
    \A k \in Active(reg) : /\ IsSafeIdentifier(SplitUser(k))
                          /\ IsSafeIdentifier(SplitService(k))

\* No port belongs to two entries.
PortsUnique(reg) ==
    \A j, k \in Active(reg) : reg[j] = reg[k] => j = k
=============================================================================
