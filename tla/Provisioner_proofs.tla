------------------------- MODULE Provisioner_proofs -------------------------
(***************************************************************************)
(* Proofs about Provisioner, for any set of instances, policies, VPCs and  *)
(* endpoints, whatever rules the endpoints' groups have, and however often *)
(* commands are cut short and run again.                                   *)
(***************************************************************************)
EXTENDS Provisioner, TLAPS

-----------------------------------------------------------------------------
(* The check of the endpoints *)

\* Only groups of endpoints are reported (missing_vpc_endpoint_ingress).
LEMMA MissingAreGroups == \A x : Missing(x) \subseteq EndpointGroups
  BY EndpointsAssumption DEF Missing, GroupsToCheck, EndpointGroups

\* The printed command adds to what a group admits, and admits the bastion.
LEMMA FollowAdds ==
    ASSUME NEW x \in [EndpointGroups -> SUBSET Permissions], NEW g \in EndpointGroups
    PROVE  /\ Follow(x, g) \in [EndpointGroups -> SUBSET Permissions]
           /\ \A h \in EndpointGroups : x[h] \subseteq Follow(x, g)[h]
<1>1. Advised \in Permissions
  BY DEF Advised, Permission, Permissions
<1> QED
  BY <1>1 DEF Follow

\* ingress_allows is monotone: more permissions never take access away.
LEMMA MoreAllowsMore ==
    ASSUME NEW P, NEW Q, P \subseteq Q, NEW source, NEW port, IngressAllows(P, source, port)
    PROVE  IngressAllows(Q, source, port)
  BY DEF IngressAllows

\* A group that ingress_allows accepts admits the bastion on 443, and so does
\* one whose printed command was run.
LEMMA AllowedIsAdmitted ==
    ASSUME NEW P, IngressAllows(P, "bastion", 443) \/ Advised \in P
    PROVE  \E p \in P : Admits(p)
<1>1. CASE IngressAllows(P, "bastion", 443)
  BY <1>1 DEF IngressAllows, Admits
<1>2. CASE Advised \in P
  BY <1>2 DEF Advised, Permission, Admits
<1> QED
  BY <1>1, <1>2

\* Every interface endpoint has a group that was checked, so a complete report
\* whose commands were run leaves none out of reach.
LEMMA CompleteReportSuffices == IndInv => AdviceSuffices
<1> SUFFICES ASSUME IndInv, NEW reported \in missing,
                    \A g \in reported : Advised \in ingress[g],
                    NEW e \in Interface
             PROVE  \E g \in GroupsOf[e] : \E p \in ingress[g] : Admits(p)
  BY DEF AdviceSuffices, Reached
<1>1. PICK g \in GroupsOf[e] : TRUE
  BY EndpointsAssumption
<1>2. g \in GroupsToCheck
  BY <1>1 DEF GroupsToCheck
<1>3. IngressAllows(ingress[g], "bastion", 443) \/ Advised \in ingress[g]
  BY <1>2 DEF IndInv, ReportIsComplete
<1> QED
  BY <1>1, <1>3, AllowedIsAdmitted

-----------------------------------------------------------------------------
(* The inductive invariant *)

\* An account without a live instance owes nothing to one.
LEMMA NobodyLive == Live = {} => OneBastion /\ BastionComplete
  BY DEF OneBastion, BastionComplete

\* A call that changes nothing in AWS keeps what is said of AWS alone.
LEMMA AccountUntouched ==
    ASSUME IndInv, UNCHANGED aws
    PROVE  Live' = Live /\ Existing' = Existing /\ OneBastion' /\ BastionComplete' /\ PinnedVpcOnly'
<1>1. Live' = Live /\ Existing' = Existing
  BY DEF aws, Live, Existing
<1> QED
  BY <1>1 DEF IndInv, OneBastion, BastionComplete, PinnedVpcOnly, aws

\* An empty account (BastionContext only names things).
LEMMA InitEstablishes == Init => IndInv
<1> SUFFICES ASSUME Init PROVE IndInv
  OBVIOUS
<1>1. TypeOK
  BY RulesAssumption, InstancesAssumption DEF Init, TypeOK, Over
<1>2. Live = {} /\ Existing = {}
  BY DEF Init, Live, Existing
<1>3. OneBastion /\ BastionComplete
  BY <1>2, NobodyLive
<1>4. DestroyedIsGone /\ PinnedVpcOnly
  BY <1>2 DEF Init, DestroyedIsGone, PinnedVpcOnly
<1>5. InitProgress /\ DestroyProgress /\ ReportIsComplete
  BY DEF Init, InitProgress, DestroyProgress, ReportIsComplete
<1> QED
  BY <1>1, <1>3, <1>4, <1>5 DEF IndInv

\* A command starts with nothing found and nothing reported (src/main.rs).
LEMMA BeginKeeps ==
    ASSUME IndInv, Begin
    PROVE  IndInv'
<1> USE DEF IndInv, Begin, At, Goto, Step, Aims
<1>1. UNCHANGED aws /\ Live' = Live /\ Existing' = Existing
  BY AccountUntouched DEF aws, command
<1>2. OneBastion' /\ BastionComplete' /\ PinnedVpcOnly'
  BY <1>1, AccountUntouched
<1>3. TypeOK'
  BY <1>1, CommandsAssumption DEF TypeOK, aws, InitSteps, DestroySteps, DoctorSteps, Over
<1>4. DestroyedIsGone'
  BY <1>1 DEF DestroyedIsGone, DestroyProgress, aws, command
<1>5. InitProgress'
  BY <1>1 DEF TypeOK, InitProgress, Over, aws, command
<1>6. DestroyProgress'
  BY <1>1 DEF DestroyProgress, InitSteps, DestroySteps, DoctorSteps, Over, aws, command
<1>7. ReportIsComplete'
  BY <1>1 DEF ReportIsComplete, aws, command
<1> QED
  BY <1>2, <1>3, <1>4, <1>5, <1>6, <1>7

\* A command that is cut short leaves the account as it is, and so the next one
\* starts from what it had ensured so far.
LEMMA FailKeeps ==
    ASSUME IndInv, Fail
    PROVE  IndInv'
<1> USE DEF IndInv, Fail, At, Goto, Step, Aims
<1>1. UNCHANGED aws /\ Live' = Live /\ Existing' = Existing
  BY AccountUntouched DEF aws, command
<1>2. OneBastion' /\ BastionComplete' /\ PinnedVpcOnly'
  BY <1>1, AccountUntouched
<1>3. TypeOK'
  BY <1>1 DEF TypeOK, aws, command, InitSteps, DestroySteps, DoctorSteps, Over
<1>4. DestroyedIsGone'
  BY <1>1 DEF DestroyedIsGone, DestroyProgress, aws, command
<1>5. InitProgress'
  BY <1>1 DEF TypeOK, InitProgress, Over, aws, command
<1>6. DestroyProgress'
  BY <1>1 DEF DestroyProgress, InitSteps, DestroySteps, DoctorSteps, Over, aws, command
<1>7. ReportIsComplete'
  BY <1>1 DEF ReportIsComplete, aws, command
<1> QED
  BY <1>2, <1>3, <1>4, <1>5, <1>6, <1>7

\* The guard lets only a subnet of the pinned VPC through (verify_vpc_match).
LEMMA CheckVpcKeeps ==
    ASSUME IndInv, CheckVpc
    PROVE  IndInv'
<1> USE DEF IndInv, CheckVpc, At, Goto, Step, Aims
<1>1. UNCHANGED aws /\ Live' = Live /\ Existing' = Existing
  BY AccountUntouched DEF aws, command
<1>2. OneBastion' /\ BastionComplete' /\ PinnedVpcOnly'
  BY <1>1, AccountUntouched
<1>3. TypeOK'
  BY <1>1 DEF TypeOK, aws, command, InitSteps, DestroySteps, DoctorSteps, Over
<1>4. DestroyedIsGone'
  BY <1>1 DEF DestroyedIsGone, DestroyProgress, aws, command
<1>5. InitProgress'
  BY <1>1 DEF TypeOK, InitProgress, Over, aws, command
<1>6. DestroyProgress'
  BY <1>1 DEF DestroyProgress, InitSteps, DestroySteps, DoctorSteps, Over, aws, command
<1>7. ReportIsComplete'
  BY <1>1 DEF ReportIsComplete, aws, command
<1> QED
  BY <1>2, <1>3, <1>4, <1>5, <1>6, <1>7

\* A run that goes on has found no live instance (run_init).
LEMMA FindForInitKeeps ==
    ASSUME IndInv, FindForInit
    PROVE  IndInv'
<1> USE DEF IndInv, FindForInit, At, Goto, Step, Aims, Found
<1>1. UNCHANGED aws /\ Live' = Live /\ Existing' = Existing
  BY AccountUntouched DEF aws, command
<1>2. OneBastion' /\ BastionComplete' /\ PinnedVpcOnly'
  BY <1>1, AccountUntouched
<1>3. TypeOK'
  BY <1>1 DEF TypeOK, aws, Live, InitSteps, DestroySteps, DoctorSteps, Over
<1>4. DestroyedIsGone'
  BY <1>1 DEF DestroyedIsGone, DestroyProgress, aws, command
<1>5. InitProgress'
  BY <1>1 DEF TypeOK, InitProgress, Over, aws, command
<1>6. DestroyProgress'
  BY <1>1 DEF DestroyProgress, InitSteps, DestroySteps, DoctorSteps, Over, aws, command
<1>7. ReportIsComplete'
  BY <1>1 DEF ReportIsComplete, aws, command
<1> QED
  BY <1>2, <1>3, <1>4, <1>5, <1>6, <1>7

\* The role may be there with some of its policies.
LEMMA EnsureRoleKeeps ==
    ASSUME IndInv, EnsureRole
    PROVE  IndInv'
<1> USE DEF IndInv, EnsureRole, At, Goto, Step, Aims
<1>1. Live' = Live /\ Existing' = Existing /\ Live = {}
  BY DEF Live, Existing, InitProgress, DestroyProgress, DestroySteps
<1>2. OneBastion' /\ BastionComplete' /\ PinnedVpcOnly'
  BY <1>1, NobodyLive DEF OneBastion, BastionComplete, PinnedVpcOnly
<1>3. TypeOK'
  BY <1>1 DEF TypeOK, aws, command, InitSteps, DestroySteps, DoctorSteps, Over
<1>4. DestroyedIsGone'
  BY <1>1 DEF DestroyedIsGone, DestroyProgress, aws, command
<1>5. InitProgress'
  BY <1>1 DEF TypeOK, InitProgress, Over, aws, command
<1>6. DestroyProgress'
  BY <1>1 DEF DestroyProgress, InitSteps, DestroySteps, DoctorSteps, Over, aws, command
<1>7. ReportIsComplete'
  BY <1>1 DEF ReportIsComplete, aws, command
<1> QED
  BY <1>2, <1>3, <1>4, <1>5, <1>6, <1>7

\* Every run attaches every policy, so none is missing when it goes on.
LEMMA AttachPolicyKeeps ==
    ASSUME IndInv, AttachPolicy
    PROVE  IndInv'
<1> USE DEF IndInv, AttachPolicy, At, Goto, Step, Aims
<1>1. Live' = Live /\ Existing' = Existing /\ Live = {}
  BY DEF Live, Existing, InitProgress, DestroyProgress, DestroySteps
<1>2. OneBastion' /\ BastionComplete' /\ PinnedVpcOnly'
  BY <1>1, NobodyLive DEF OneBastion, BastionComplete, PinnedVpcOnly
<1>3. TypeOK'
  <2>1. Attached \subseteq Policies
    BY DEF TypeOK, Attached
  <2>2. role' \in {{}} \cup {{held} : held \in SUBSET Policies}
    <3>1. CASE Policies = Attached /\ UNCHANGED role
      BY <3>1 DEF TypeOK
    <3>2. CASE \E p \in Policies \ Attached : role' = {Attached \cup {p}}
      BY <2>1, <3>2
    <3> QED
      BY <3>1, <3>2
  <2>3. pc' \in InitSteps
    BY DEF InitSteps
  <2> QED
    BY <2>2, <2>3 DEF TypeOK
<1>4. DestroyedIsGone'
  BY <1>1 DEF DestroyedIsGone, DestroyProgress, aws, command
<1>5. InitProgress'
  <2>1. PICK held \in SUBSET Policies : role = {held}
    BY DEF InitProgress, TypeOK
  <2>2. Attached = held
    BY <2>1 DEF Attached
  <2>3. role' # {} /\ (pc' = "profile" => role' = {Policies})
    BY <2>1, <2>2
  <2> QED
    BY <1>1, <2>3 DEF InitProgress, Over
<1>6. DestroyProgress'
  BY <1>1 DEF DestroyProgress, InitSteps, DestroySteps, DoctorSteps, Over, aws, command
<1>7. ReportIsComplete'
  BY <1>1 DEF ReportIsComplete, aws, command
<1> QED
  BY <1>2, <1>3, <1>4, <1>5, <1>6, <1>7

\* A profile there is, with or without the role.
LEMMA EnsureProfileKeeps ==
    ASSUME IndInv, EnsureProfile
    PROVE  IndInv'
<1> USE DEF IndInv, EnsureProfile, At, Goto, Step, Aims
<1>1. Live' = Live /\ Existing' = Existing /\ Live = {}
  BY DEF Live, Existing, InitProgress, DestroyProgress, DestroySteps
<1>2. OneBastion' /\ BastionComplete' /\ PinnedVpcOnly'
  BY <1>1, NobodyLive DEF OneBastion, BastionComplete, PinnedVpcOnly
<1>3. TypeOK'
  BY <1>1 DEF TypeOK, aws, command, InitSteps, DestroySteps, DoctorSteps, Over
<1>4. DestroyedIsGone'
  BY <1>1 DEF DestroyedIsGone, DestroyProgress, aws, command
<1>5. InitProgress'
  BY <1>1 DEF TypeOK, InitProgress, Over, aws, command
<1>6. DestroyProgress'
  BY <1>1 DEF DestroyProgress, InitSteps, DestroySteps, DoctorSteps, Over, aws, command
<1>7. ReportIsComplete'
  BY <1>1 DEF ReportIsComplete, aws, command
<1> QED
  BY <1>2, <1>3, <1>4, <1>5, <1>6, <1>7

\* The role is added by the run that created the profile.
LEMMA AddRoleKeeps ==
    ASSUME IndInv, AddRole
    PROVE  IndInv'
<1> USE DEF IndInv, AddRole, At, Goto, Step, Aims
<1>1. Live' = Live /\ Existing' = Existing /\ Live = {}
  BY DEF Live, Existing, InitProgress, DestroyProgress, DestroySteps
<1>2. OneBastion' /\ BastionComplete' /\ PinnedVpcOnly'
  BY <1>1, NobodyLive DEF OneBastion, BastionComplete, PinnedVpcOnly
<1>3. TypeOK'
  BY <1>1 DEF TypeOK, aws, command, InitSteps, DestroySteps, DoctorSteps, Over
<1>4. DestroyedIsGone'
  BY <1>1 DEF DestroyedIsGone, DestroyProgress, aws, command
<1>5. InitProgress'
  BY <1>1 DEF TypeOK, InitProgress, Over, aws, command
<1>6. DestroyProgress'
  BY <1>1 DEF DestroyProgress, InitSteps, DestroySteps, DoctorSteps, Over, aws, command
<1>7. ReportIsComplete'
  BY <1>1 DEF ReportIsComplete, aws, command
<1> QED
  BY <1>2, <1>3, <1>4, <1>5, <1>6, <1>7

\* A group of an earlier run is kept, whatever VPC it is in.
LEMMA EnsureGroupKeeps ==
    ASSUME IndInv, EnsureGroup
    PROVE  IndInv'
<1> USE DEF IndInv, EnsureGroup, At, Goto, Step, Aims
<1>1. Live' = Live /\ Existing' = Existing /\ Live = {}
  BY DEF Live, Existing, InitProgress, DestroyProgress, DestroySteps
<1>2. OneBastion' /\ BastionComplete' /\ PinnedVpcOnly'
  BY <1>1, NobodyLive DEF OneBastion, BastionComplete, PinnedVpcOnly
<1>3. TypeOK'
  BY <1>1 DEF TypeOK, aws, command, InitSteps, DestroySteps, DoctorSteps, Over
<1>4. DestroyedIsGone'
  BY <1>1 DEF DestroyedIsGone, DestroyProgress, aws, command
<1>5. InitProgress'
  BY <1>1 DEF TypeOK, InitProgress, Over, aws, command
<1>6. DestroyProgress'
  BY <1>1 DEF DestroyProgress, InitSteps, DestroySteps, DoctorSteps, Over, aws, command
<1>7. ReportIsComplete'
  BY <1>1 DEF ReportIsComplete, aws, command
<1> QED
  BY <1>2, <1>3, <1>4, <1>5, <1>6, <1>7

\* The rule is asked for on every run, so a group an earlier run left closed is
\* open before the launch.
LEMMA AuthorizeKeeps ==
    ASSUME IndInv, Authorize
    PROVE  IndInv'
<1> USE DEF IndInv, Authorize, At, Goto, Step, Aims
<1>1. Live' = Live /\ Existing' = Existing /\ Live = {}
  BY DEF Live, Existing, InitProgress, DestroyProgress, DestroySteps
<1>2. OneBastion' /\ BastionComplete' /\ PinnedVpcOnly'
  BY <1>1, NobodyLive DEF OneBastion, BastionComplete, PinnedVpcOnly
<1>3. TypeOK'
  BY <1>1 DEF TypeOK, aws, command, InitSteps, DestroySteps, DoctorSteps, Over
<1>4. DestroyedIsGone'
  BY <1>1 DEF DestroyedIsGone, DestroyProgress, aws, command
<1>5. InitProgress'
  BY <1>1 DEF TypeOK, InitProgress, Over, aws, command
<1>6. DestroyProgress'
  BY <1>1 DEF DestroyProgress, InitSteps, DestroySteps, DoctorSteps, Over, aws, command
<1>7. ReportIsComplete'
  BY <1>1 DEF ReportIsComplete, aws, command
<1> QED
  BY <1>2, <1>3, <1>4, <1>5, <1>6, <1>7

\* The one step that makes an instance: there was none, the role, the profile
\* and the group are as they should be, and the guard has seen the subnet.
LEMMA LaunchKeeps ==
    ASSUME IndInv, Launch
    PROVE  IndInv'
<1> USE DEF IndInv, Launch, At, Goto, Step, Aims
<1>0. PICK i \in Instances \ Existing :
           /\ instance' = [instance EXCEPT ![i] = "pending"]
           /\ where' = [where EXCEPT ![i] = subnet]
           /\ target' = i
  OBVIOUS
<1>1. Live' = {i} /\ Existing' = Existing \cup {i} /\ i \notin Existing
  BY <1>0 DEF Live, Existing, InitProgress, TypeOK
<1>2. OneBastion' /\ BastionComplete' /\ PinnedVpcOnly'
  <2>1. OneBastion'
    BY <1>1 DEF OneBastion
  <2>2. where'[i] = subnet /\ alb = subnet
    BY <1>0 DEF TypeOK, InitProgress
  <2>3. BastionComplete'
    BY <1>1, <2>2 DEF BastionComplete, InitProgress
  <2>4. PinnedVpcOnly'
    BY <1>0, <1>1, <2>2, PinnedAssumption DEF PinnedVpcOnly, InitProgress, Over, TypeOK
  <2> QED
    BY <2>1, <2>3, <2>4
<1>3. TypeOK'
  BY <1>0 DEF TypeOK, InitSteps, DestroySteps, DoctorSteps, Over
<1>4. DestroyedIsGone'
  BY <1>1 DEF DestroyedIsGone, DestroyProgress, aws, command
<1>5. InitProgress'
  BY <1>1 DEF TypeOK, InitProgress, Over, aws, command
<1>6. DestroyProgress'
  BY <1>1 DEF DestroyProgress, InitSteps, DestroySteps, DoctorSteps, Over, aws, command
<1>7. ReportIsComplete'
  BY <1>1 DEF ReportIsComplete, aws, command
<1> QED
  BY <1>2, <1>3, <1>4, <1>5, <1>6, <1>7

\* Waiting changes nothing.
LEMMA WaitUntilRunningKeeps ==
    ASSUME IndInv, WaitUntilRunning
    PROVE  IndInv'
<1> USE DEF IndInv, WaitUntilRunning, At, Goto, Step, Aims
<1>1. UNCHANGED aws /\ Live' = Live /\ Existing' = Existing
  BY AccountUntouched DEF aws, command
<1>2. OneBastion' /\ BastionComplete' /\ PinnedVpcOnly'
  BY <1>1, AccountUntouched
<1>3. TypeOK'
  BY <1>1 DEF TypeOK, aws, command, InitSteps, DestroySteps, DoctorSteps, Over
<1>4. DestroyedIsGone'
  BY <1>1 DEF DestroyedIsGone, DestroyProgress, aws, command
<1>5. InitProgress'
  BY <1>1 DEF TypeOK, InitProgress, Over, aws, command
<1>6. DestroyProgress'
  BY <1>1 DEF DestroyProgress, InitSteps, DestroySteps, DoctorSteps, Over, aws, command
<1>7. ReportIsComplete'
  BY <1>1 DEF ReportIsComplete, aws, command
<1> QED
  BY <1>2, <1>3, <1>4, <1>5, <1>6, <1>7

\* The report is made from the rules as they are (missing_vpc_endpoint_ingress).
LEMMA PostFlightKeeps ==
    ASSUME IndInv, PostFlight
    PROVE  IndInv'
<1> USE DEF IndInv, PostFlight, At, Goto, Step, Aims
<1>1. UNCHANGED aws /\ Live' = Live /\ Existing' = Existing
  BY AccountUntouched DEF aws, command
<1>2. OneBastion' /\ BastionComplete' /\ PinnedVpcOnly'
  BY <1>1, AccountUntouched
<1>3. TypeOK'
  BY <1>1, MissingAreGroups DEF TypeOK, aws, InitSteps, DestroySteps, DoctorSteps, Over
<1>4. DestroyedIsGone'
  BY <1>1 DEF DestroyedIsGone, DestroyProgress, aws, command
<1>5. InitProgress'
  BY <1>1 DEF TypeOK, InitProgress, Over, aws, command
<1>6. DestroyProgress'
  BY <1>1 DEF DestroyProgress, InitSteps, DestroySteps, DoctorSteps, Over, aws, command
<1>7. ReportIsComplete'
  <2>1. missing' = {} \/ missing' = {Missing(ingress)}
    OBVIOUS
  <2> QED
    BY <1>1, <2>1 DEF ReportIsComplete, Missing, aws
<1> QED
  BY <1>2, <1>3, <1>4, <1>5, <1>6, <1>7

\* doctor only looks.
LEMMA FindForDoctorKeeps ==
    ASSUME IndInv, FindForDoctor
    PROVE  IndInv'
<1> USE DEF IndInv, FindForDoctor, At, Goto, Step, Aims, Found
<1>1. UNCHANGED aws /\ Live' = Live /\ Existing' = Existing
  BY AccountUntouched DEF aws, command
<1>2. OneBastion' /\ BastionComplete' /\ PinnedVpcOnly'
  BY <1>1, AccountUntouched
<1>3. TypeOK'
  BY <1>1 DEF TypeOK, aws, Live, InitSteps, DestroySteps, DoctorSteps, Over
<1>4. DestroyedIsGone'
  BY <1>1 DEF DestroyedIsGone, DestroyProgress, aws, command
<1>5. InitProgress'
  BY <1>1 DEF TypeOK, InitProgress, Over, aws, command
<1>6. DestroyProgress'
  BY <1>1 DEF DestroyProgress, InitSteps, DestroySteps, DoctorSteps, Over, aws, command
<1>7. ReportIsComplete'
  BY <1>1 DEF ReportIsComplete, aws, command
<1> QED
  BY <1>2, <1>3, <1>4, <1>5, <1>6, <1>7

\* doctor only looks.
LEMMA CheckAgentKeeps ==
    ASSUME IndInv, CheckAgent
    PROVE  IndInv'
<1> USE DEF IndInv, CheckAgent, At, Goto, Step, Aims
<1>1. UNCHANGED aws /\ Live' = Live /\ Existing' = Existing
  BY AccountUntouched DEF aws, command
<1>2. OneBastion' /\ BastionComplete' /\ PinnedVpcOnly'
  BY <1>1, AccountUntouched
<1>3. TypeOK'
  BY <1>1 DEF TypeOK, aws, command, InitSteps, DestroySteps, DoctorSteps, Over
<1>4. DestroyedIsGone'
  BY <1>1 DEF DestroyedIsGone, DestroyProgress, aws, command
<1>5. InitProgress'
  BY <1>1 DEF TypeOK, InitProgress, Over, aws, command
<1>6. DestroyProgress'
  BY <1>1 DEF DestroyProgress, InitSteps, DestroySteps, DoctorSteps, Over, aws, command
<1>7. ReportIsComplete'
  BY <1>1 DEF ReportIsComplete, aws, command
<1> QED
  BY <1>2, <1>3, <1>4, <1>5, <1>6, <1>7

\* doctor makes the same report as init.
LEMMA CheckEndpointsKeeps ==
    ASSUME IndInv, CheckEndpoints
    PROVE  IndInv'
<1> USE DEF IndInv, CheckEndpoints, At, Goto, Step, Aims
<1>1. UNCHANGED aws /\ Live' = Live /\ Existing' = Existing
  BY AccountUntouched DEF aws, command
<1>2. OneBastion' /\ BastionComplete' /\ PinnedVpcOnly'
  BY <1>1, AccountUntouched
<1>3. TypeOK'
  BY <1>1, MissingAreGroups DEF TypeOK, aws, InitSteps, DestroySteps, DoctorSteps, Over
<1>4. DestroyedIsGone'
  BY <1>1 DEF DestroyedIsGone, DestroyProgress, aws, command
<1>5. InitProgress'
  BY <1>1 DEF TypeOK, InitProgress, Over, aws, command
<1>6. DestroyProgress'
  BY <1>1 DEF DestroyProgress, InitSteps, DestroySteps, DoctorSteps, Over, aws, command
<1>7. ReportIsComplete'
  <2>1. missing' = missing \/ missing' = {Missing(ingress)}
    OBVIOUS
  <2> QED
    BY <1>1, <2>1 DEF ReportIsComplete, Missing, aws
<1> QED
  BY <1>2, <1>3, <1>4, <1>5, <1>6, <1>7

\* destroy terminates an instance that is live.
LEMMA FindForDestroyKeeps ==
    ASSUME IndInv, FindForDestroy
    PROVE  IndInv'
<1> USE DEF IndInv, FindForDestroy, At, Goto, Step, Aims, Found
<1>1. UNCHANGED aws /\ Live' = Live /\ Existing' = Existing
  BY AccountUntouched DEF aws, command
<1>2. OneBastion' /\ BastionComplete' /\ PinnedVpcOnly'
  BY <1>1, AccountUntouched
<1>3. TypeOK'
  BY <1>1 DEF TypeOK, aws, Live, InitSteps, DestroySteps, DoctorSteps, Over
<1>4. DestroyedIsGone'
  BY <1>1 DEF DestroyedIsGone, DestroyProgress, aws, command
<1>5. InitProgress'
  BY <1>1 DEF TypeOK, InitProgress, Over, aws, command
<1>6. DestroyProgress'
  BY <1>1 DEF DestroyProgress, InitSteps, DestroySteps, DoctorSteps, Over, aws, command
<1>7. ReportIsComplete'
  BY <1>1 DEF ReportIsComplete, aws, command
<1> QED
  BY <1>2, <1>3, <1>4, <1>5, <1>6, <1>7

\* There was one live instance, so now there is none.
LEMMA TerminateKeeps ==
    ASSUME IndInv, Terminate
    PROVE  IndInv'
<1> USE DEF IndInv, Terminate, At, Goto, Step, Aims
<1>1. Live' = {} /\ Existing' = Existing
  <2>1. target \in Live
    BY DEF DestroyProgress
  <2>2. Live' = Live \ {target}
    BY <2>1 DEF Live, TypeOK
  <2>3. Existing' = Existing
    BY <2>1 DEF Live, Existing, TypeOK
  <2> QED
    BY <2>1, <2>2, <2>3 DEF OneBastion
<1>2. OneBastion' /\ BastionComplete' /\ PinnedVpcOnly'
  BY <1>1, NobodyLive DEF OneBastion, BastionComplete, PinnedVpcOnly
<1>3. TypeOK'
  BY <1>1 DEF TypeOK, aws, command, InitSteps, DestroySteps, DoctorSteps, Over
<1>4. DestroyedIsGone'
  BY <1>1 DEF DestroyedIsGone, DestroyProgress, aws, command
<1>5. InitProgress'
  BY <1>1 DEF TypeOK, InitProgress, Over, aws, command
<1>6. DestroyProgress'
  BY <1>1 DEF DestroyProgress, InitSteps, DestroySteps, DoctorSteps, Over, aws, command
<1>7. ReportIsComplete'
  BY <1>1 DEF ReportIsComplete, aws, command
<1> QED
  BY <1>2, <1>3, <1>4, <1>5, <1>6, <1>7

\* The group goes only when no instance is left at all.
LEMMA DeleteGroupKeeps ==
    ASSUME IndInv, DeleteGroup
    PROVE  IndInv'
<1> USE DEF IndInv, DeleteGroup, At, Goto, Step, Aims, GroupInUse
<1>1. Live' = Live /\ Existing' = Existing /\ Live = {}
  BY DEF Live, Existing, InitProgress, DestroyProgress, DestroySteps
<1>2. OneBastion' /\ BastionComplete' /\ PinnedVpcOnly'
  BY <1>1, NobodyLive DEF OneBastion, BastionComplete, PinnedVpcOnly
<1>3. TypeOK'
  BY <1>1 DEF TypeOK, aws, command, InitSteps, DestroySteps, DoctorSteps, Over
<1>4. DestroyedIsGone'
  BY <1>1 DEF DestroyedIsGone, DestroyProgress, aws, command
<1>5. InitProgress'
  BY <1>1 DEF TypeOK, InitProgress, Over, aws, command
<1>6. DestroyProgress'
  BY <1>1 DEF DestroyProgress, InitSteps, DestroySteps, DoctorSteps, Over, aws, command
<1>7. ReportIsComplete'
  BY <1>1 DEF ReportIsComplete, aws, command
<1> QED
  BY <1>2, <1>3, <1>4, <1>5, <1>6, <1>7

\* After the group, the profile.
LEMMA UnbindKeeps ==
    ASSUME IndInv, Unbind
    PROVE  IndInv'
<1> USE DEF IndInv, Unbind, At, Goto, Step, Aims
<1>1. Live' = Live /\ Existing' = Existing /\ Live = {}
  BY DEF Live, Existing, InitProgress, DestroyProgress, DestroySteps
<1>2. OneBastion' /\ BastionComplete' /\ PinnedVpcOnly'
  BY <1>1, NobodyLive DEF OneBastion, BastionComplete, PinnedVpcOnly
<1>3. TypeOK'
  BY <1>1 DEF TypeOK, aws, command, InitSteps, DestroySteps, DoctorSteps, Over
<1>4. DestroyedIsGone'
  BY <1>1 DEF DestroyedIsGone, DestroyProgress, aws, command
<1>5. InitProgress'
  BY <1>1 DEF TypeOK, InitProgress, Over, aws, command
<1>6. DestroyProgress'
  BY <1>1 DEF DestroyProgress, InitSteps, DestroySteps, DoctorSteps, Over, aws, command
<1>7. ReportIsComplete'
  BY <1>1 DEF ReportIsComplete, aws, command
<1> QED
  BY <1>2, <1>3, <1>4, <1>5, <1>6, <1>7

\* A profile that kept its role stops the destroy.
LEMMA DeleteProfileKeeps ==
    ASSUME IndInv, DeleteProfile
    PROVE  IndInv'
<1> USE DEF IndInv, DeleteProfile, At, Goto, Step, Aims
<1>1. Live' = Live /\ Existing' = Existing /\ Live = {}
  BY DEF Live, Existing, InitProgress, DestroyProgress, DestroySteps
<1>2. OneBastion' /\ BastionComplete' /\ PinnedVpcOnly'
  BY <1>1, NobodyLive DEF OneBastion, BastionComplete, PinnedVpcOnly
<1>3. TypeOK'
  BY <1>1 DEF TypeOK, aws, command, InitSteps, DestroySteps, DoctorSteps, Over
<1>4. DestroyedIsGone'
  BY <1>1 DEF DestroyedIsGone, DestroyProgress, aws, command
<1>5. InitProgress'
  BY <1>1 DEF TypeOK, InitProgress, Over, aws, command
<1>6. DestroyProgress'
  BY <1>1 DEF DestroyProgress, InitSteps, DestroySteps, DoctorSteps, Over, aws, command
<1>7. ReportIsComplete'
  BY <1>1 DEF ReportIsComplete, aws, command
<1> QED
  BY <1>2, <1>3, <1>4, <1>5, <1>6, <1>7

\* After the profile, the role.
LEMMA DetachKeeps ==
    ASSUME IndInv, Detach
    PROVE  IndInv'
<1> USE DEF IndInv, Detach, At, Goto, Step, Aims
<1>1. Live' = Live /\ Existing' = Existing /\ Live = {}
  BY DEF Live, Existing, InitProgress, DestroyProgress, DestroySteps
<1>2. OneBastion' /\ BastionComplete' /\ PinnedVpcOnly'
  BY <1>1, NobodyLive DEF OneBastion, BastionComplete, PinnedVpcOnly
<1>3. TypeOK'
  <2>1. Attached \subseteq Policies
    BY DEF TypeOK, Attached
  <2>2. role' \in {{}} \cup {{held} : held \in SUBSET Policies}
    BY <2>1 DEF TypeOK
  <2>3. pc' \in DestroySteps \cup Over
    BY DEF DestroySteps, Over
  <2> QED
    BY <2>2, <2>3 DEF TypeOK
<1>4. DestroyedIsGone'
  BY <1>1 DEF DestroyedIsGone, DestroyProgress, aws, command
<1>5. InitProgress'
  BY <1>1 DEF TypeOK, InitProgress, Over, aws, command
<1>6. DestroyProgress'
  BY <1>1 DEF DestroyProgress, InitSteps, DestroySteps, DoctorSteps, Over, aws, command
<1>7. ReportIsComplete'
  BY <1>1 DEF ReportIsComplete, aws, command
<1> QED
  BY <1>2, <1>3, <1>4, <1>5, <1>6, <1>7

\* A destroy that gets here has removed everything.
LEMMA DeleteRoleKeeps ==
    ASSUME IndInv, DeleteRole
    PROVE  IndInv'
<1> USE DEF IndInv, DeleteRole, At, Goto, Step, Aims
<1>1. Live' = Live /\ Existing' = Existing /\ Live = {}
  BY DEF Live, Existing, InitProgress, DestroyProgress, DestroySteps
<1>2. OneBastion' /\ BastionComplete' /\ PinnedVpcOnly'
  BY <1>1, NobodyLive DEF OneBastion, BastionComplete, PinnedVpcOnly
<1>3. TypeOK'
  BY <1>1 DEF TypeOK, aws, command, InitSteps, DestroySteps, DoctorSteps, Over
<1>4. DestroyedIsGone'
  BY <1>1 DEF DestroyedIsGone, DestroyProgress, aws, command
<1>5. InitProgress'
  BY <1>1 DEF TypeOK, InitProgress, Over, aws, command
<1>6. DestroyProgress'
  BY <1>1 DEF DestroyProgress, InitSteps, DestroySteps, DoctorSteps, Over, aws, command
<1>7. ReportIsComplete'
  BY <1>1 DEF ReportIsComplete, aws, command
<1> QED
  BY <1>2, <1>3, <1>4, <1>5, <1>6, <1>7

\* EC2 moves instances along, and neither makes one nor wakes one that goes.
LEMMA InstanceMovesKeep ==
    ASSUME IndInv, NEW i \in Instances, Boots(i) \/ Goes(i)
    PROVE  IndInv'
<1> USE DEF IndInv, Boots, Goes, command
<1>1. Live' = Live /\ Existing' \subseteq Existing
  BY DEF Live, Existing, TypeOK
<1>2. OneBastion' /\ BastionComplete' /\ PinnedVpcOnly'
  BY <1>1 DEF OneBastion, BastionComplete, PinnedVpcOnly
<1>3. TypeOK'
  BY DEF TypeOK
<1>4. DestroyedIsGone' /\ DestroyProgress'
  BY <1>1 DEF DestroyedIsGone, DestroyProgress
<1>5. InitProgress' /\ ReportIsComplete'
  BY <1>1 DEF InitProgress, ReportIsComplete
<1> QED
  BY <1>2, <1>3, <1>4, <1>5

\* Rules are added while a report stands and taken out when none does.
LEMMA RulesKeep ==
    ASSUME IndInv, NEW g \in EndpointGroups, FollowAdvice(g) \/ Revoke(g)
    PROVE  IndInv'
<1> USE DEF IndInv, command
<1>1. Live' = Live /\ Existing' = Existing
  BY DEF Live, Existing, FollowAdvice, Revoke
<1>2. OneBastion' /\ BastionComplete' /\ PinnedVpcOnly'
  BY <1>1 DEF OneBastion, BastionComplete, PinnedVpcOnly, FollowAdvice, Revoke
<1>0. ingress \in [EndpointGroups -> SUBSET Permissions]
  BY DEF TypeOK
<1>3. ingress' \in [EndpointGroups -> SUBSET Permissions]
  <2>1. CASE FollowAdvice(g)
    <3>1. ingress' = Follow(ingress, g)
      BY <2>1 DEF FollowAdvice
    <3> QED
      BY <1>0, <3>1, FollowAdds
  <2>2. CASE Revoke(g)
    <3>1. ingress' = [ingress EXCEPT ![g] = ingress[g] \ {Advised}]
      BY <2>2 DEF Revoke
    <3> QED
      BY <1>0, <3>1
  <2> QED
    BY <2>1, <2>2
<1>4. TypeOK'
  BY <1>3 DEF TypeOK, FollowAdvice, Revoke
<1>5. DestroyedIsGone' /\ DestroyProgress' /\ InitProgress'
  BY <1>1 DEF DestroyedIsGone, DestroyProgress, InitProgress, FollowAdvice, Revoke
<1>6. ReportIsComplete'
  <2>1. CASE FollowAdvice(g)
    <3>1. \A h \in GroupsToCheck : ingress[h] \subseteq ingress'[h]
      <4>1. GroupsToCheck \subseteq EndpointGroups
        BY EndpointsAssumption DEF GroupsToCheck, EndpointGroups
      <4>2. ingress' = Follow(ingress, g)
        BY <2>1 DEF FollowAdvice
      <4> QED
        BY <1>0, <4>1, <4>2, FollowAdds
    <3>2. missing' = missing
      BY <2>1 DEF FollowAdvice
    <3> QED
      BY <3>1, <3>2, MoreAllowsMore DEF ReportIsComplete
  <2>2. CASE Revoke(g)
    BY <2>2 DEF Revoke, At, DestroyProgress, ReportIsComplete
  <2> QED
    BY <2>1, <2>2
<1> QED
  BY <1>2, <1>4, <1>5, <1>6

\* Every step of a command, and of everything else, keeps the invariant.
LEMMA StepPreserves == IndInv /\ [Next]_vars => IndInv'
<1> SUFFICES ASSUME IndInv, [Next]_vars PROVE IndInv'
  OBVIOUS
<1>1. CASE UNCHANGED vars
  <2>1. UNCHANGED aws /\ UNCHANGED command
    BY <1>1 DEF vars, aws, command
  <2>2. OneBastion' /\ BastionComplete' /\ PinnedVpcOnly'
    BY <2>1, AccountUntouched
  <2>3. TypeOK'
    BY <2>1 DEF IndInv, TypeOK, aws, command
  <2>4. DestroyedIsGone' /\ InitProgress'
    BY <2>1, AccountUntouched DEF IndInv, DestroyedIsGone, InitProgress, aws, command
  <2>5. DestroyProgress' /\ ReportIsComplete'
    BY <2>1, AccountUntouched DEF IndInv, DestroyProgress, ReportIsComplete, aws, command
  <2> QED
    BY <2>2, <2>3, <2>4, <2>5 DEF IndInv
<1>2. CASE Begin \/ Fail
  BY <1>2, BeginKeeps, FailKeeps
<1>3. CASE InitStep
  BY <1>3, CheckVpcKeeps, FindForInitKeeps, EnsureRoleKeeps, AttachPolicyKeeps,
     EnsureProfileKeeps, AddRoleKeeps, EnsureGroupKeeps, AuthorizeKeeps, LaunchKeeps,
     WaitUntilRunningKeeps, PostFlightKeeps
     DEF InitStep
<1>4. CASE DestroyStep
  BY <1>4, FindForDestroyKeeps, TerminateKeeps, DeleteGroupKeeps, UnbindKeeps,
     DeleteProfileKeeps, DetachKeeps, DeleteRoleKeeps
     DEF DestroyStep
<1>5. CASE DoctorStep
  BY <1>5, FindForDoctorKeeps, CheckAgentKeeps, CheckEndpointsKeeps DEF DoctorStep
<1>6. CASE \E g \in EndpointGroups : FollowAdvice(g) \/ Revoke(g)
  BY <1>6, RulesKeep
<1>7. CASE \E i \in Instances : Boots(i) \/ Goes(i)
  BY <1>7, InstanceMovesKeep
<1> QED
  BY <1>1, <1>2, <1>3, <1>4, <1>5, <1>6, <1>7 DEF Next

-----------------------------------------------------------------------------
(* The results *)

\* The inductive invariant holds: every step of a run has what it relies on,
\* whatever earlier runs left (run_init, run_destroy).
THEOREM Invariance == Spec => []IndInv
<1> QED
  BY InitEstablishes, StepPreserves, PTL DEF Spec

\* Every variable keeps to its type.
THEOREM TypeCorrect == Spec => []TypeOK
<1>1. IndInv => TypeOK
  BY DEF IndInv
<1> QED
  BY <1>1, Invariance, PTL

\* init, however often it is cut short and run again, never makes a second
\* bastion (bastion_provisioner.rs:508-511).
THEOREM NeverTwoBastions == Spec => []OneBastion
<1>1. IndInv => OneBastion
  BY DEF IndInv
<1> QED
  BY <1>1, Invariance, PTL

\* Every live instance has the role with all its policies, a profile, and the
\* open group of its own VPC, whichever runs created them.
THEOREM BastionsAreComplete == Spec => []BastionComplete
<1>1. IndInv => BastionComplete
  BY DEF IndInv
<1> QED
  BY <1>1, Invariance, PTL

\* A destroy that reports the instance it terminated has removed all of it
\* (main.rs:279).
THEOREM DestroyRemovesAll == Spec => []DestroyedIsGone
<1>1. IndInv => DestroyedIsGone
  BY DEF IndInv
<1> QED
  BY <1>1, Invariance, PTL

\* With expected_vpc_id set every instance is in that VPC (verify_vpc_match).
THEOREM GuardHolds == Spec => []PinnedVpcOnly
<1>1. IndInv => PinnedVpcOnly
  BY DEF IndInv
<1> QED
  BY <1>1, Invariance, PTL

\* Running the commands a report printed is enough for the bastion to reach
\* every interface endpoint, for any endpoints, groups and rules.
THEOREM AdviceIsEnough == Spec => []AdviceSuffices
<1> QED
  BY CompleteReportSuffices, Invariance, PTL
=============================================================================
