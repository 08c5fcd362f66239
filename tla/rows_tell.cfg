SPECIFICATION FairSpec
CONSTANTS
  MaxRuns = 2
  ListLimit = 2
  nameA = nameA  idA = idA  nameB = nameB
  cA = cA  cB = cB
  g1 = g1  s1 = s1
  NoGroup = NoGroup  NoTarget = NoTarget
  Containers <- TwoContainers
  Refs <- ThreeRefs
  ContainerOf <- ThreeRefsOf
  Groups <- OneGroup
  Schedules <- NoSchedule
  GroupChoices <- BothOrNone
  ScheduleChoices <- GroupOrNone
  Requestable <- ContainersAndGroup
  Disturbances = {"compact", "restore", "lookup"}
INVARIANTS OutcomeTellsTruth IndependentRunsProceed
PROPERTIES EveryRunEnds
