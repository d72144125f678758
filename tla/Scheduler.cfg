SPECIFICATION FairSpec
CONSTANTS
  Job = {j1, j2}
  Cron <- MCCron
  Cycle = 3
  Limit = 1
  Absent = Absent
  MaxEdits = 3
  MaxFaults = 1
INVARIANTS TypeOK RepeatsBounded
PROPERTIES ScheduleConverges EnabledKeepsRunning
