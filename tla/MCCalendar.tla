------------------------------- MODULE MCCalendar -------------------------------
EXTENDS Calendar

CONSTANT a1

Fixed(offset) == [before |-> offset, after |-> offset, turns |-> 0]

(* The week begins at 168. The clock goes back on Saturday at midnight       *)
(* (Santiago), forward on Sunday morning (Madrid), back on Thursday and      *)
(* forward on Friday at midnight (Cairo); and zones far from UTC on either   *)
(* side.                                                                     *)
SomeZones ==
  {[before |-> -3, after |-> -4, turns |-> 168 + 6 * 24 + 3], [before |-> 1, after |-> 2, turns |-> 168 + 6 * 24 + 1],
   [before |-> 3, after |-> 2, turns |-> 168 + 3 * 24 + 21], [before |-> 2, after |-> 3, turns |-> 168 + 3 * 24 + 22],
   Fixed(14), Fixed(-10)}

AWeek == {168 + 24 * d + h : d \in 0..6, h \in {0, 3, 9, 10, 11, 14, 22, 23}}
SomeHolidays == {8, 11}
================================================================================
