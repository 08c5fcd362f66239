SPECIFICATION FairSpec
CONSTANTS
  Items <- ThreeItems
  Delays <- SomeDelays
  Group = Group  NoGroup = NoGroup  NoTarget = NoTarget
INVARIANTS InGroupOrder SettledBeforeNext CancelStopsWithinOne StepsExplainOutcome LeftForCause
PROPERTIES ImplementsRun RunEnds
