---------------------------- MODULE Provisioner ----------------------------
(***************************************************************************)
(* `bastion init --live`, `bastion destroy --live` and `bastion doctor`    *)
(* (src/main.rs; src/bastion_provisioner.rs run_init and run_destroy over  *)
(* the calls of src/aws_bastion_provisioner.rs).  One operator runs        *)
(* commands one after the other; any AWS call may fail and the command may *)
(* be interrupted between calls, so each call is a step.  A check and the  *)
(* creation it leads to are one step: nobody else changes the account      *)
(* between them.  A dry run takes the same steps over PlanLogger, which    *)
(* calls nothing: it is a stutter.                                         *)
(***************************************************************************)
EXTENDS Endpoints

CONSTANTS Instances,  \* identifiers EC2 has to give
          Policies,   \* the managed policies the role needs
          Vpcs,
          Pinned,     \* tunnel.expected_vpc_id, as a set of one; none when it is not set
          Rules,      \* what the endpoints' groups may admit at first
          Commands,   \* the commands that are given
          NoInstance

ASSUME InstancesAssumption == NoInstance \notin Instances
ASSUME RulesAssumption == Rules \subseteq [EndpointGroups -> SUBSET Permissions]
ASSUME CommandsAssumption == Commands \subseteq {"init", "destroy", "doctor"}
ASSUME PinnedAssumption == \A v \in Pinned : v \in Vpcs /\ Pinned = {v}

VARIABLES instance,  \* the state of each instance: none is one that is gone
          where,     \* the VPC it is, or was last, in
          role,      \* the policies of the IAM role, as a set of one; none when there is no role
          profile,   \* the instance profile: none, bare, or bound to the role
          group,     \* the security group, likewise: its VPC, and whether it is open to the ALB
          ingress,   \* what the groups of the endpoints admit
          cmd,       \* the command that runs or ran last
          pc,        \* its next call
          subnet,    \* of an init: the VPC of --subnet-id
          alb,       \* and that of --alb-security-group-id
          target,    \* the instance the command found or launched
          missing,   \* the groups it reported, as a set of one; none when it checked none
          issues,    \* what doctor found
          rerun      \* history: it is a destroy run after a destroy that failed

aws == <<instance, where, role, profile, group, ingress>>
command == <<cmd, pc, subnet, alb, target, missing, issues, rerun>>
vars == <<instance, where, role, profile, group, ingress,
          cmd, pc, subnet, alb, target, missing, issues, rerun>>

InitSteps == {"vpc", "find", "role", "policies", "profile", "bind", "group", "ingress",
              "launch", "wait", "postflight"}
DestroySteps == {"find", "terminate", "delgroup", "unbind", "delprofile", "detach", "delrole"}
DoctorSteps == {"find", "agent", "endpoints"}
Over == {"ok", "failed"}

Live == {i \in Instances : instance[i] \in {"pending", "running"}}
Existing == {i \in Instances : instance[i] # "none"}
Attached == UNION role

Init ==
    /\ instance = [i \in Instances |-> "none"]
    /\ where \in {[i \in Instances |-> v] : v \in Vpcs}
    /\ role = {}
    /\ profile = "none"
    /\ group = {}
    /\ ingress \in Rules
    /\ cmd = "doctor" /\ pc = "ok"
    /\ subnet \in Vpcs /\ alb = subnet
    /\ target = NoInstance
    /\ missing = {} /\ issues = {}
    /\ rerun = FALSE

Begin ==
    /\ pc \in Over
    /\ cmd' \in Commands
    /\ pc' = IF cmd' = "init" THEN "vpc" ELSE "find"
    /\ IF cmd' = "init" THEN subnet' \in Vpcs /\ alb' \in Vpcs
                        ELSE UNCHANGED <<subnet, alb>>
    /\ target' = NoInstance
    /\ missing' = {} /\ issues' = {}
    /\ rerun' = (cmd' = "destroy" /\ cmd = "destroy" /\ pc = "failed" /\ target # NoInstance)
    /\ UNCHANGED aws

At(c, step) == cmd = c /\ pc = step
Goto(step) == pc' = step /\ UNCHANGED <<cmd, subnet, alb, rerun>>
Step(step) == Goto(step) /\ UNCHANGED <<target, missing, issues>>
Aims(i, step) == Goto(step) /\ target' = i /\ UNCHANGED <<missing, issues>>

\* A call fails, wait_until_running times out, or the operator interrupts.
Fail ==
    /\ pc \notin Over
    /\ Step("failed")
    /\ UNCHANGED aws

-----------------------------------------------------------------------------
(* bastion init *)

\* Mutant: the guard only warns.
CheckVpcWarns == At("init", "vpc") /\ Step("find") /\ UNCHANGED aws

\* The guard looks at the subnet, not at the load balancer's group.
CheckVpc ==
    /\ At("init", "vpc")
    /\ Step(IF Pinned = {} \/ subnet \in Pinned THEN "find" ELSE "failed")
    /\ UNCHANGED aws

\* Mutant: an instance that still boots is not found.
FoundRunning == {i \in Instances : instance[i] = "running"}

\* find_instance_by_name asks for pending, running, stopping and stopped
\* instances: one that shuts down is not found.
Found == Live

FindForInit ==
    /\ At("init", "find")
    /\ \/ Found = {} /\ Step("role")
       \/ \E i \in Found : Aims(i, "postflight")
    /\ UNCHANGED aws

\* Mutant: the policies are attached only by the run that creates the role.
EnsureRoleSkips ==
    /\ At("init", "role")
    /\ IF role = {} THEN role' = {{}} /\ Step("policies")
                    ELSE UNCHANGED role /\ Step("profile")
    /\ UNCHANGED <<instance, where, profile, group, ingress>>

EnsureRole ==
    /\ At("init", "role")
    /\ role' = IF role = {} THEN {{}} ELSE role
    /\ Step("policies")
    /\ UNCHANGED <<instance, where, profile, group, ingress>>

\* Attaching a policy that is attached changes nothing.
AttachPolicy ==
    /\ At("init", "policies")
    /\ \/ \E p \in Policies \ Attached : role' = {Attached \cup {p}} /\ Step("policies")
       \/ Policies = Attached /\ UNCHANGED role /\ Step("profile")
    /\ UNCHANGED <<instance, where, profile, group, ingress>>

\* The role is added to the profile only by the run that creates the profile.
EnsureProfile ==
    /\ At("init", "profile")
    /\ IF profile = "none" THEN profile' = "bare" /\ Step("bind")
                           ELSE UNCHANGED profile /\ Step("group")
    /\ UNCHANGED <<instance, where, role, group, ingress>>

AddRole ==
    /\ At("init", "bind")
    /\ profile' = "bound"
    /\ Step("group")
    /\ UNCHANGED <<instance, where, role, group, ingress>>

\* A group is found by its name alone, and created in the load balancer's VPC.
EnsureGroup ==
    /\ At("init", "group")
    /\ group' = IF group = {} THEN {[vpc |-> alb, open |-> FALSE]} ELSE group
    /\ Step("ingress")
    /\ UNCHANGED <<instance, where, role, profile, ingress>>

\* A rule that is there already ("InvalidPermission.Duplicate") is fine; EC2
\* refuses one that names a group of another VPC.
Authorize ==
    /\ At("init", "ingress")
    /\ \E g \in group : g.vpc = alb
    /\ group' = {[vpc |-> alb, open |-> TRUE]}
    /\ Step("launch")
    /\ UNCHANGED <<instance, where, role, profile, ingress>>

\* EC2 refuses a group of another VPC than the subnet's, and may refuse a
\* profile that holds no role (Fail).
Launch ==
    /\ At("init", "launch")
    /\ \E g \in group : g.vpc = subnet
    /\ \E i \in Instances \ Existing :
           /\ instance' = [instance EXCEPT ![i] = "pending"]
           /\ where' = [where EXCEPT ![i] = subnet]
           /\ Aims(i, "wait")
    /\ UNCHANGED <<role, profile, group, ingress>>

WaitUntilRunning ==
    /\ At("init", "wait")
    /\ instance[target] = "running"
    /\ Step("postflight")
    /\ UNCHANGED aws

\* The check is skipped when nothing is pinned, and when it fails.
PostFlight ==
    /\ At("init", "postflight")
    /\ missing' \in {{}} \cup {{Missing(ingress)} : v \in Pinned}
    /\ Goto("ok")
    /\ UNCHANGED <<aws, target, issues>>

\* The operator runs the command printed for g, as init and doctor ask.
FollowAdvice(g) ==
    /\ pc = "ok"
    /\ \E reported \in missing : g \in reported
    /\ group # {}
    /\ ingress' = Follow(ingress, g)
    /\ UNCHANGED <<instance, where, role, profile, group, command>>

-----------------------------------------------------------------------------
(* bastion doctor *)

\* It checks nothing more when there is no instance.
FindForDoctor ==
    /\ At("doctor", "find")
    /\ \/ /\ Found = {}
          /\ issues' = {"none"}
          /\ Goto("ok") /\ UNCHANGED target
       \/ \E i \in Found :
              /\ target' = i
              /\ issues' = IF instance[i] = "running" THEN {} ELSE {"state"}
              /\ Goto("agent")
    /\ UNCHANGED <<aws, missing>>

\* What the SSM agent of instance i needs to be online.
CanRegister(i) ==
    /\ instance[i] = "running"
    /\ profile = "bound" /\ role = {Policies}
    /\ Reached(ingress)

\* An agent that can register may not have done so yet, and the query may fail.
CheckAgent ==
    /\ At("doctor", "agent")
    /\ \/ issues' = issues \cup {"agent"}
       \/ CanRegister(target) /\ UNCHANGED issues
    /\ Goto("endpoints")
    /\ UNCHANGED <<aws, target, missing>>

\* A check that fails is an issue here; one that is skipped is not.
CheckEndpoints ==
    /\ At("doctor", "endpoints")
    /\ IF Pinned = {} THEN UNCHANGED <<issues, missing>>
       ELSE \/ /\ missing' = {Missing(ingress)}
               /\ issues' = issues \cup (IF Missing(ingress) = {} THEN {} ELSE {"endpoints"})
            \/ issues' = issues \cup {"endpoints"} /\ UNCHANGED missing
    /\ Goto("ok")
    /\ UNCHANGED <<aws, target>>

-----------------------------------------------------------------------------
(* bastion destroy *)

FindForDestroy ==
    /\ At("destroy", "find")
    /\ \/ Found = {} /\ Step("ok")
       \/ \E i \in Found : Aims(i, "terminate")
    /\ UNCHANGED aws

\* terminate_instances returns when the instance begins to shut down.
Terminate ==
    /\ At("destroy", "terminate")
    /\ instance' = [instance EXCEPT ![target] = "shutting-down"]
    /\ Step("delgroup")
    /\ UNCHANGED <<where, role, profile, group, ingress>>

\* EC2 does not delete a group that an instance uses or another group's rule
\* names: following the advice of init stands in the way of destroy.
GroupInUse == Existing # {} \/ \E g \in EndpointGroups : Advised \in ingress[g]

\* Mutant: the error is ignored, as those of the IAM calls are.
DeleteGroupBestEffort ==
    /\ At("destroy", "delgroup")
    /\ group' = IF GroupInUse THEN group ELSE {}
    /\ Step("unbind")
    /\ UNCHANGED <<instance, where, role, profile, ingress>>

\* The lookup returns instances that are pending to stopped, which still have the
\* group they were launched with, so there always is a security_group_id.
DeleteGroup ==
    /\ At("destroy", "delgroup")
    /\ IF GroupInUse THEN UNCHANGED group /\ Step("failed")
                     ELSE group' = {} /\ Step("unbind")
    /\ UNCHANGED <<instance, where, role, profile, ingress>>

\* The result of remove_role_from_instance_profile is ignored.
Unbind ==
    /\ At("destroy", "unbind")
    /\ \/ profile = "none" /\ UNCHANGED profile /\ Step("detach")
       \/ profile # "none" /\ profile' \in {"bare", profile} /\ Step("delprofile")
    /\ UNCHANGED <<instance, where, role, group, ingress>>

\* Mutant: the error is ignored, as that of the removal of the role is.
DeleteProfileBestEffort ==
    /\ At("destroy", "delprofile")
    /\ profile' = IF profile = "bare" THEN "none" ELSE profile
    /\ Step("detach")
    /\ UNCHANGED <<instance, where, role, group, ingress>>

\* IAM does not delete a profile that holds a role.
DeleteProfile ==
    /\ At("destroy", "delprofile")
    /\ IF profile = "bare" THEN profile' = "none" /\ Step("detach")
                           ELSE UNCHANGED profile /\ Step("failed")
    /\ UNCHANGED <<instance, where, role, group, ingress>>

\* The results of detach_role_policy are ignored.
Detach ==
    /\ At("destroy", "detach")
    /\ \/ role = {} /\ UNCHANGED role /\ Step("ok")
       \/ role # {} /\ (\E left \in SUBSET Attached : role' = {left}) /\ Step("delrole")
    /\ UNCHANGED <<instance, where, profile, group, ingress>>

\* IAM does not delete a role with policies.
DeleteRole ==
    /\ At("destroy", "delrole")
    /\ IF Attached = {} THEN role' = {} /\ Step("ok")
                        ELSE UNCHANGED role /\ Step("failed")
    /\ UNCHANGED <<instance, where, profile, group, ingress>>

-----------------------------------------------------------------------------
(* EC2, and the operator's own calls *)

Boots(i) ==
    /\ instance[i] = "pending"
    /\ instance' = [instance EXCEPT ![i] = "running"]
    /\ UNCHANGED <<where, role, profile, group, ingress, command>>

Goes(i) ==
    /\ instance[i] = "shutting-down"
    /\ instance' = [instance EXCEPT ![i] = "none"]
    /\ UNCHANGED <<where, role, profile, group, ingress, command>>

\* After a destroy that failed, the rule that names the group is taken out.
Revoke(g) ==
    /\ At("destroy", "failed")
    /\ Advised \in ingress[g]
    /\ ingress' = [ingress EXCEPT ![g] = @ \ {Advised}]
    /\ UNCHANGED <<instance, where, role, profile, group, command>>

InitStep ==
    \/ CheckVpc \/ FindForInit \/ EnsureRole \/ AttachPolicy \/ EnsureProfile \/ AddRole
    \/ EnsureGroup \/ Authorize \/ Launch \/ WaitUntilRunning \/ PostFlight
DestroyStep ==
    \/ FindForDestroy \/ Terminate \/ DeleteGroup \/ Unbind \/ DeleteProfile
    \/ Detach \/ DeleteRole
DoctorStep == FindForDoctor \/ CheckAgent \/ CheckEndpoints

Next ==
    \/ Begin \/ Fail \/ InitStep \/ DestroyStep \/ DoctorStep
    \/ \E g \in EndpointGroups : FollowAdvice(g) \/ Revoke(g)
    \/ \E i \in Instances : Boots(i) \/ Goes(i)

Spec == Init /\ [][Next]_vars

-----------------------------------------------------------------------------
(* Properties *)

\* The values the variables range over.
TypeOK ==
    /\ instance \in [Instances -> {"none", "pending", "running", "shutting-down"}]
    /\ where \in [Instances -> Vpcs]
    /\ role \in {{}} \cup {{held} : held \in SUBSET Policies}
    /\ profile \in {"none", "bare", "bound"}
    /\ group \in {{}} \cup {{g} : g \in [vpc : Vpcs, open : BOOLEAN]}
    /\ ingress \in [EndpointGroups -> SUBSET Permissions]
    /\ cmd \in {"init", "destroy", "doctor"}
    /\ pc \in InitSteps \cup DestroySteps \cup DoctorSteps \cup Over
    /\ subnet \in Vpcs /\ alb \in Vpcs
    /\ target \in Instances \cup {NoInstance}
    /\ missing \in {{}} \cup {{reported} : reported \in SUBSET EndpointGroups}
    /\ issues \subseteq {"none", "state", "agent", "endpoints"}
    /\ rerun \in BOOLEAN

\* However many times init and destroy fail half-way and are run again, there
\* is one bastion at most (bastion_provisioner.rs:508-511, "Idempotent").
OneBastion == \A i, j \in Live : i = j

\* Every instance that is up or on its way has what the run that launched it
\* ensured, although parts of it may date from runs that failed: the role with
\* all its policies, a profile, and the security group open to the ALB
\* (aws_bastion_provisioner.rs:293-295, "a partially-created SG from a prior
\* failed run gets brought up to spec").
BastionComplete ==
    \A i \in Live :
        /\ role = {Policies} /\ profile # "none"
        /\ group = {[vpc |-> where[i], open |-> TRUE]}

\* A destroy that reports the instance it terminated has removed all of it:
\* "terminated {id}; security group + IAM role removed." (main.rs:279).
DestroyedIsGone ==
    cmd = "destroy" /\ pc = "ok" /\ target # NoInstance =>
        role = {} /\ profile = "none" /\ group = {} /\ Existing = {}

\* With expected_vpc_id set, no misfired init puts a bastion into another VPC,
\* whatever earlier runs left there: "so a misfired init with prod values
\* cannot accidentally provision a bastion in prod" (config.rs:28-31).
PinnedVpcOnly == Pinned # {} => \A i \in Existing : where[i] \in Pinned

\* Groups that init or doctor found nothing to say about admit the bastion,
\* and once the commands they printed have been run so do the others, whatever
\* rules the groups had and however endpoints share them ("let the operator
\* run them", main.rs:206-207).
AdviceSuffices ==
    \A reported \in missing :
        (\A g \in reported : Advised \in ingress[g]) => Reached(ingress)


\* What an init has ensured by the step it is at, which earlier runs did not
\* have to.
InitProgress ==
    cmd = "init" =>
        /\ pc \in {"role", "policies", "profile", "bind", "group", "ingress", "launch"} => Live = {}
        /\ pc = "policies" => role # {}
        /\ pc \in {"profile", "bind", "group", "ingress", "launch"} => role = {Policies}
        /\ pc \in {"bind", "group", "ingress", "launch"} => profile # "none"
        /\ pc = "launch" => group = {[vpc |-> alb, open |-> TRUE]}
        /\ pc = "vpc" \/ pc \in Over \/ Pinned = {} \/ subnet \in Pinned

\* What a destroy has removed by the step it is at.
DestroyProgress ==
    cmd = "destroy" =>
        /\ missing = {}
        /\ pc = "find" => target = NoInstance
        /\ pc = "terminate" => target \in Live
        /\ pc \in DestroySteps \ {"find", "terminate"} => Live = {}
        /\ pc \in {"unbind", "delprofile", "detach", "delrole"} => group = {} /\ Existing = {}
        /\ pc \in {"detach", "delrole"} => profile = "none"

\* Of every group that was checked, the report knows or it admits the bastion.
ReportIsComplete ==
    \A reported \in missing : \A g \in GroupsToCheck :
        g \in reported \/ IngressAllows(ingress[g], "bastion", 443)

\* The inductive invariant: why the properties above hold however runs are
\* cut short and repeated (run_init, run_destroy).
IndInv ==
    /\ TypeOK
    /\ OneBastion /\ BastionComplete /\ DestroyedIsGone /\ PinnedVpcOnly
    /\ InitProgress /\ DestroyProgress /\ ReportIsComplete

-----------------------------------------------------------------------------
(* What a comment of the code says, and a re-run does not do. *)

\* bastion_provisioner.rs:349-350, of a failure to remove the security group:
\* "instance termination has already happened so a re-run will skip it".  A
\* destroy run after one that found the bastion and failed, and that returns
\* Ok, leaves nothing of it behind.
DestroyFinishes ==
    rerun /\ pc = "ok" => role = {} /\ profile = "none" /\ group = {}
=============================================================================
