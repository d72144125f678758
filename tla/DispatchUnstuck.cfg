SPECIFICATION FairSpec
CONSTANTS
  Inv = {i1, i2}
  Ws = {w1, w2}
  Op = {o1}
  Key = {k1}
  NoWs = NoWs
  NoKey = NoKey
  UserOps = {"stop"}
  Parked = {}
  MaxCrashes = 1
  Faults = {}
  Timely = TRUE
  Explicit = FALSE
PROPERTY WorkspacesUnstuck
