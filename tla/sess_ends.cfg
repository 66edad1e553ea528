\* Kills, a failing network, late requests and a down, over one port.
SPECIFICATION FairSpec
CONSTANTS
    u1 = u1
    u2 = u2
    u3 = u3
    d1 = d1
    Ups = {u1, u2, u3}
    Downs = {d1}
    For <- MCForApi
    HealthChecked <- MCHealthChecked
    Nobody = Nobody
    Hazards = {"kill", "network", "late"}
    Users <- MCUsers
    Services <- MCServices
    SafeSegments <- MCSafeSegments
    BlankSegments = {}
    FirstPort = 10
    LastPort = 10
INVARIANTS OneUpPerKey OnlyFailuresLeak
PROPERTY BrokenSessionEnds
