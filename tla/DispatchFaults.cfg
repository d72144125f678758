SPECIFICATION Spec
CONSTANTS
  Inv = {i1, i2}
  Ws = {w1, w2, w3}
  Op = {o1}
  Key = {k1}
  NoWs = NoWs
  NoKey = NoKey
  UserOps = {"create"}
  Parked = {}
  MaxCrashes = 1
  Faults = {"db", "panic", "sweep"}
  Timely = TRUE
  Explicit = TRUE
SYMMETRY Symmetry
INVARIANTS CompletedIsOver
PROPERTIES NoReactivation ImplementsSlots
