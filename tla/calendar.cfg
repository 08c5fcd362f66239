SPECIFICATION Spec
SYMMETRY Symmetric
CONSTANTS
  Schedules = {s1, s2}
  Rows <- FourRows
  DayLength = 4
  WeekLength = 2
  Grace = 1
  None = None
  MaxTime = 10
  MaxChanges = 2
INVARIANTS AgendaIsExact AgendaComesTrue
PROPERTIES OncePerOccurrence MarksGoForward
