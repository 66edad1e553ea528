\* Anything may happen to ups and services, while nobody runs down.
SPECIFICATION Spec
CONSTANTS
    u1 = u1
    u2 = u2
    u3 = u3
    d1 = d1
    Ups = {u1, u2, u3}
    Downs = {}
    For <- MCForWeb
    HealthChecked <- MCHealthChecked
    Nobody = Nobody
    Hazards = {"kill", "network", "child", "overlap"}
    Users <- MCUsers
    Services <- MCServices
    SafeSegments <- MCSafeSegments
    BlankSegments = {}
    FirstPort = 10
    LastPort = 11
INVARIANTS NoForeignDelivery LiveIsRouted
