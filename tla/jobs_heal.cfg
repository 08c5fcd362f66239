SPECIFICATION Spec
CONSTANTS
  Schedules <- TwoSchedules
  Profiles = {3}
  LegacyId = 4
  LegacyTime = 8
  Times = {8}
  Loop = loop
  Pool = {p1}
  None = None
  MaxRequests = 3
INVARIANTS TypeOK LoneReloadHeals
