SPECIFICATION Spec
CONSTANTS
  Task = {t1, t2, t3}
  t1 = t1
  t2 = t2
  t3 = t3
  Parent <- MCParent
  Here = t1
  Away = t2
  Me = Me
  Other = Other
  None = None
  MaxClicks = 2
  MaxForeign = 1
  MaxLosses = 1
  MaxEvents = 2
  MaxFlight = 2
CHECK_DEADLOCK FALSE
INVARIANTS
  TypeOK
  ScreenIsCurrent
  ScreenIsConsistent
PROPERTIES
  FirstClosingHasProof
