SPECIFICATION Spec
CONSTANTS
  MaxRuns = 2
  ListLimit = 2
  nameA = nameA  idA = idA  nameB = nameB
  cA = cA  cB = cB
  g1 = g1  s1 = s1
  NoGroup = NoGroup  NoTarget = NoTarget
  Containers <- TwoContainers
  Refs <- ThreeRefs
  ContainerOf <- ThreeRefsOf
  Groups <- OneGroup
  Schedules <- OneSchedule
  GroupChoices <- BothOrNone
  ScheduleChoices <- GroupOrNone
  Requestable <- EachKind
  Disturbances = {"edit"}
INVARIANTS NoCompetingRuns
