SPECIFICATION FairSpec
CONSTANTS
  MaxEvent = 3
  BatchSize = 2
  r1 = r1
  r2 = r2
  Reaction = {r1, r2}
  Wants <- MCWants
  Faults = {"emit", "cursor", "match", "crash", "connection"}
  MaxFaults = 1
INVARIANTS TypeOK SkippedForCause FirstHandlingInOrder RepeatsNeedFaults
PROPERTIES EnabledReactionFires
