SPECIFICATION Spec
CONSTANTS
  Code = {a, b}
  Socket = {s1, s2, s3}
  Me = Me
  Peer = Peer
  None = None
  MaxMoves = 2
  MaxTabs = 2
  MaxPeer = 1
  MaxDrops = 1
  Agent = {x, y}
  Wire = {w1, w2, w3, w4}
  Nobody = Nobody
  Log = Log
  MaxWatch = 3
  MaxCuts = 1
  Project = {p, q}
  Period = {day, week}
  Viewer = {v1, v2}
  Line = {l1, l2}
  NoLine = NoLine
  MaxViews = 3
  MaxBreaks = 1
  MaxRuns = 1
CHECK_DEADLOCK FALSE
INVARIANTS
  LiveTypeOK
  ConnectionFollowsSession
  NoGhosts
  StreamFollowsPanel
  DashboardsFollowRuns
PROPERTIES
  ListenersCatchUp
