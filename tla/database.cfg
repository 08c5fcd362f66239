SPECIFICATION FairSpec
CONSTANTS
  Last = 2
  Size = 3
  None = None
  MaxStops = 2
  MaxWrites = 3
INVARIANTS RecordedIsThere BackedUpBeforeChange
PROPERTIES ImportLeavesCopy ImplementsUpgrade StartCompletes
