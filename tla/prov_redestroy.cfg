\* destroy after a destroy that failed.
SPECIFICATION Spec
CONSTANTS
    i1 = i1
    i2 = i2
    ssm = ssm
    s3 = s3
    Instances = {i1, i2}
    Policies = {ssm, s3}
    NoInstance = NoInstance
    staging = staging
    prod = prod
    ep1 = ep1
    ep2 = ep2
    ep3 = ep3
    g1 = g1
    g2 = g2
    Vpcs = {staging, prod}
    Pinned = {staging}
    Commands = {"init", "destroy", "doctor"}
    GroupsOf <- MCGroupsOf
    Interface <- MCInterface
    Rules <- MCRules
INVARIANT DestroyFinishes
