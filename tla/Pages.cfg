SPECIFICATION Spec
CONSTANTS
  Question = {q1, q2}
  Note = {n1, n2, n3}
  Actor = {c1, c2}
  Nothing = Nothing
  Others = Others
  MaxUses = 4
  MaxNews = 1
  MaxFails = 1
  Thing = {t1}
  Unknown = Unknown
  MaxOrders = 2
  MaxLapses = 1
  NoRecord = NoRecord
  MaxTouches = 3
  MaxUpsets = 1
  Draft = {d1, d2}
  NoThing = NoThing
  MaxClicks = 4
  MaxMisses = 1
  Talk = {k1}
  Empty = Empty
  Own = Own
  MaxOpenings = 2
  MaxChanges = 1
  MaxRefusals = 1
  Item = {i1, i2}
  NoItem = NoItem
  MaxSteps = 4
  MaxErrors = 1
  Entry = {e1, e2}
  New = New
  NoEntry = NoEntry
  MaxActs = 2
  MaxFaults = 1
  Node = {b1, b2}
  NoNode = NoNode
  TaskStatus = {opened, finished}
  TaskType = {chore}
  Path = {p1, p2}
  Root = Root
  Callback = Callback
  Scope = {s1}
  MaxLoads = 7
  MaxDeeds = 4
  MaxTroubles = 1
  Session = {w1, w2}
  NoSession = NoSession
  Mention = {x1, x2}
  MaxRequests = 2
  MaxMoves = 3
  MaxMishaps = 1
CHECK_DEADLOCK FALSE
INVARIANTS
  PagesTypeOK
  EntriesReachTheirs
  UnfinishedIsWatched
  
  AddressFollows
  SettingsFollow
  GraphFollows
  SignInFollows
  BellFollows
