SPECIFICATION Spec
CONSTANTS
    t1 = t1 t2 = t2 t3 = t3 k1 = k1 k2 = k2 c1 = c1 n1 = n1 n2 = n2
    None = None
    Writers = {t1, t2, t3}
    Ops <- MCOps
    Keys = {k1, k2}
    Streams = {"run", "doc"}
    Clients = {c1}
    Replicas = {n1, n2}
    Afters = {0, 1}
SYMMETRY LogSymmetry
INVARIANTS VersionsGapFree StateIsReplay LogTellsState StreamAscends OneWaitingCycle
PROPERTIES LogIsAppendOnly
