SPECIFICATION FairSpec
CONSTANTS
  Profiles <- TwoProfiles
  ProfileRows <- FourRows
  Queues <- TwoQueues
  Legacy = Legacy
  None = None
  MaxEdits = 2
INVARIANTS ReadyWasChecked FoundWhenUpInTime CancelledActsOnNothing EveryGroupIsAnswered
PROPERTIES ImplementsGate GateAnswers
