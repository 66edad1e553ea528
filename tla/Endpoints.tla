----------------------------- MODULE Endpoints -----------------------------
(***************************************************************************)
(* The check of the VPC's interface endpoints that `bastion init` ends     *)
(* with and `bastion doctor` repeats (src/aws_bastion_provisioner.rs       *)
(* missing_vpc_endpoint_ingress, ingress_allows, fix_command).  The        *)
(* bastion's SSM agent comes online only when it reaches them on port 443. *)
(***************************************************************************)
EXTENDS Integers

CONSTANTS GroupsOf,      \* the security groups of each endpoint of the VPC
          Interface      \* the endpoints of type Interface: a gateway needs no group

ASSUME EndpointsAssumption ==
    /\ Interface \subseteq DOMAIN GroupsOf
    /\ \A e \in Interface : GroupsOf[e] # {}

EndpointGroups == UNION {GroupsOf[e] : e \in DOMAIN GroupsOf}

\* An ingress permission that names several sources is one permission for
\* each: ingress_allows asks whether any of them is the bastion's group.
\* EC2 leaves the ports out when the protocol is "-1", every protocol.
Permissions == [protocol : {"tcp", "udp", "-1"}, from : Int, to : Int,
                source : {"bastion", "other", "cidr"}]
Permission(protocol, from, to, source) ==
    [protocol |-> protocol, from |-> from, to |-> to, source |-> source]

\* Mutant: the range has only to begin below the port.
IngressAllowsFrom(permissions, source, port) ==
    \E p \in permissions : p.protocol = "tcp" /\ p.from <= port /\ p.source = source

IngressAllows(permissions, source, port) ==
    \E p \in permissions :
        p.protocol = "tcp" /\ p.from <= port /\ p.to >= port /\ p.source = source

\* One check per group, however many endpoints share it.
GroupsToCheck == UNION {GroupsOf[e] : e \in Interface}

Missing(ingress) == {g \in GroupsToCheck : ~IngressAllows(ingress[g], "bastion", 443)}

\* The command printed for a group, carried out.
Advised == Permission("tcp", 443, 443, "bastion")
Follow(ingress, g) == [ingress EXCEPT ![g] = @ \cup {Advised}]

\* EC2: a packet passes when any permission of any group of the endpoint's
\* interface admits it; the bastion's address is in the block of a "cidr".
Admits(p) ==
    /\ p.protocol = "-1" \/ (p.protocol = "tcp" /\ p.from <= 443 /\ p.to >= 443)
    /\ p.source \in {"bastion", "cidr"}
Reached(ingress) ==
    \A e \in Interface : \E g \in GroupsOf[e] : \E p \in ingress[g] : Admits(p)
=============================================================================
