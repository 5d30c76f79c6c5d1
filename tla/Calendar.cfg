SPECIFICATION CalendarSpec
CONSTANTS
  a1 = a1
  Admins = {a1}
  Zones <- SomeZones
  Holidays <- SomeHolidays
  Validities = {1, 3}
  Instants <- AWeek
  MaxEdits = 3
  MaxIssued = 2
  MaxTogether = 4
  MaxApart = 1
\* the calendar rests when its edits and deadlines are used up
CHECK_DEADLOCK FALSE
INVARIANT IssuedIsRight
INVARIANT LaterIssueEndsNoEarlier
