\* Failing saves and reloads, and crashes at any step.
SPECIFICATION Spec
CONSTANTS
    c1 = c1
    c2 = c2
    Conn = {c1, c2}
    Main = Main
    Nobody = Nobody
    Torn = Torn
    Missing = Missing
    Faults = {"crash", "save", "reload"}
    Users <- MCUsers
    Services <- MCServices
    SafeSegments <- MCSafeSegments
    BlankSegments <- MCBlankSegments
    FirstPort = 10
    LastPort = 11
SYMMETRY ConnSymmetry
INVARIANTS NoSharedPort RestartLoads DiskCurrent LiveCurrent
PROPERTIES PortHandover LeaseSpec
