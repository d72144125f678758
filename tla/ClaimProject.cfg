SPECIFICATION Spec
CONSTANTS
  MaxEvent = 1
  BatchSize = 2
  r1 = r1
  r2 = r2
  Reaction = {r1, r2}
  Wants <- MCWants
  Faults = {}
  MaxFaults = 0
INVARIANT ReactionsStayInProject
