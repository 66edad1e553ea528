\* A service and a worker share a forward; everything may happen.
SPECIFICATION FairSpec
CONSTANTS
    api = api
    wrk = wrk
    http = http
    db = db
    e1 = e1
    e2 = e2
    Ups = {api, wrk}
    HealthChecked = {api}
    Nobody = Nobody
    Stranger = Stranger
    Ports = {http, db, e1, e2}
    Pickable = {e1, e2}
    Takeable = {e1}
    LocalPort <- MCLocalPort
    Service <- MCService
    Wants <- MCWants
    DeafShells = {api}
    DeafWork = {wrk}
    Hazards = {"kill", "aws", "child", "overlap", "stranger", "pid", "down", "fail"}
INVARIANTS IndInv ForwardsStay NothingLeftBehind
PROPERTIES ReuseIsOpen UpDecides
