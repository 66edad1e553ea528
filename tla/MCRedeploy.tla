----------------------------- MODULE MCRedeploy -----------------------------
(* Small instances of Redeploy. *)
EXTENDS Redeploy

CONSTANTS i1, i2, ssm, s3read, staging, r1, r2

\* No endpoints: the agent reaches SSM over the internet.
MCGroupsOf == [e \in {} |-> {}]
MCRules == {[g \in {} |-> {}]}
=============================================================================
