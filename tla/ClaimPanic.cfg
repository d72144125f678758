SPECIFICATION Spec
CONSTANTS
  Inv = {i1}
  Ws = {w1}
  Op = {}
  Key = {k1}
  NoWs = NoWs
  NoKey = NoKey
  UserOps = {}
  Parked = {}
  MaxCrashes = 0
  Faults = {"panic"}
  Timely = TRUE
  Explicit = FALSE
INVARIANT PanicLeavesVerdict
