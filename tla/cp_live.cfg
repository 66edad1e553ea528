\* Fairness of the threads, failing saves, renders and reloads, and crashes.
SPECIFICATION FairSpec
CONSTANTS
    c1 = c1
    c2 = c2
    Conn = {c1, c2}
    Main = Main
    Nobody = Nobody
    Torn = Torn
    Missing = Missing
    Faults = {"crash", "save", "conf", "reload"}
    Users <- MCUsersBlank
    Services <- MCServices
    SafeSegments <- MCSafeSegments
    BlankSegments <- MCBlankSegments
    FirstPort = 10
    LastPort = 10
PROPERTY Served
INVARIANT IndInv
