SPECIFICATION Spec
CONSTANTS
  Inv = {i1, i2}
  Ws = {w1, w2, w3}
  Op = {o1}
  Key = {k1, k2}
  NoWs = NoWs
  NoKey = NoKey
  UserOps = {"stop", "destroy"}
  Parked = {w1}
  MaxCrashes = 0
  Faults = {}
  Timely = FALSE
  Explicit = FALSE
SYMMETRY Symmetry
INVARIANTS TypeOK OneRunningPerWorkspace UsableHasCoder PoolIsolation WakersBoundedByStops NoOrphan
PROPERTIES DestroyedNotReused
