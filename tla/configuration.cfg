SPECIFICATION Spec
CONSTANTS
  x = x
  c = c
  d = d
  Names <- OneName
  Ids <- TwoIds
  Selections <- SomeSelections
  None = None
  MaxChanges = 3
INVARIANTS TypeOK ReferencesHold SchedulesKeepTheirGroup UntouchedFormKeepsGroup
PROPERTIES PagesChangeNoTarget
