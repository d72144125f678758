SPECIFICATION FairSpec
CONSTANTS
  Inv = {i1, i2}
  Ws = {w1, w2, w3}
  Op = {}
  Key = {k1}
  NoWs = NoWs
  NoKey = NoKey
  UserOps = {}
  Parked = {w3}
  MaxCrashes = 2
  Faults = {"db", "panic"}
  Timely = TRUE
  Explicit = FALSE
PROPERTY EventuallySettled
