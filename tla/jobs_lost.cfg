SPECIFICATION Spec
CONSTANTS
  Schedules <- TwoSchedules
  Profiles = {3}
  LegacyId = 4
  LegacyTime = 8
  Times <- TwoTimes
  Loop = loop
  Pool = {p1}
  None = None
  MaxRequests = 3
INVARIANTS EnabledSchedulesHaveJobs
