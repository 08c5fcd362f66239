SPECIFICATION FairSpec
CONSTANTS
  Groups <- ThreeGroups
  AutoStart <- StartFirstTwo
  AutoStop <- StopLastTwo
  MaxAttempts = 5
  Webhooks = {1, 2}
  MaxTries = 3
  MaxDisruptions = 2
INVARIANTS TypeOK PreviousIsCurrent EachIsTold
PROPERTIES RecordedIsSettled ServedUnlessRaising
