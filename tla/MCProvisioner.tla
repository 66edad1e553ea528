--------------------------- MODULE MCProvisioner ---------------------------
(* Small instances of Provisioner. *)
EXTENDS Provisioner

CONSTANTS i1, i2, ssm, s3, staging, prod, ep1, ep2, ep3, g1, g2

\* Two interface endpoints that share a group, and a gateway without any.
MCGroupsOf == [e \in {ep1, ep2, ep3} |->
                   CASE e = ep1 -> {g1} [] e = ep2 -> {g1, g2} [] OTHER -> {}]
MCInterface == {ep1, ep2}

\* A range that holds 443, one that ends below it, another protocol, another
\* group, all traffic, and a block of addresses.
MCPermissions == {
    Permission("tcp", 400, 500, "bastion"), Permission("tcp", 80, 80, "bastion"),
    Permission("udp", 443, 443, "bastion"), Permission("tcp", 443, 443, "other"),
    Permission("-1", -1, -1, "bastion"), Permission("tcp", 443, 443, "cidr")}
MCRules == [{g1, g2} -> {{}} \cup {{p} : p \in MCPermissions}]
=============================================================================
