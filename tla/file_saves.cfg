\* Commands at the same time, any of them dying.
SPECIFICATION Spec
CONSTANTS
    k1 = k1
    k2 = k2
    k3 = k3
    api = api
    web = web
    Commands = {k1, k2, k3}
    Sessions = {api, web}
    Original = Original
    NoFile = NoFile
    Garbled = Garbled
    Effects <- MCEffects
SYMMETRY CommandSymmetry
INVARIANT FileIsMeant
PROPERTY LoneSaveIsExact
