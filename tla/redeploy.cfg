\* Two redeploys, one of a build that does not serve, and init and destroy.
SPECIFICATION CloudFairSpec
CONSTANTS
    i1 = i1
    i2 = i2
    ssm = ssm
    s3read = s3read
    staging = staging
    r1 = r1
    r2 = r2
    Instances = {i1}
    Policies = {ssm}
    NoInstance = NoInstance
    Vpcs = {staging}
    Pinned = {}
    Commands = {"init", "destroy"}
    GroupsOf <- MCGroupsOf
    Interface = {}
    Rules <- MCRules
    Operators = {r1, r2}
    First = First
    Good = {First, r1}
    Down = Down
INVARIANTS HostIndInv RedeployInstalls AlwaysStartable
PROPERTY RedeployEnds
