------------------------------- MODULE Calendar -------------------------------
(***************************************************************************)
(* The institution's calendar and the deadlines counted on it              *)
(* (packages/database/src/business-calendar.ts): the timezone and the      *)
(* excluded dates administrators edit from business-calendar-workflows.tsx,*)
(* the deadline and the reminder of an offer or of a correction            *)
(* (capacity-offer.ts, documents.ts) and the date its notice names         *)
(* (communications.ts).                                                    *)
(*                                                                         *)
(* Time is counted in hours. An instant is an hour of UTC; a civil time is *)
(* a date and an hour in a zone; date 0 is a Monday. The last hour of a    *)
(* date stands for its 23:59:59.999.                                       *)
(***************************************************************************)
EXTENDS Integers, Sequences, FiniteSets

CONSTANTS
  Zones,       \* [before, after : offsets from UTC; turns : the instant the offset changes]
  Admins,
  Holidays,    \* the dates that may be excluded
  Validities,  \* offerValidityBusinessDays, correctionWindowBusinessDays
  Instants,    \* when a deadline is counted from
  MaxEdits, MaxIssued,
  MaxTogether,  \* bound: edits and deadlines
  MaxApart      \* bound: hours from one deadline counted to the next

ASSUME CalendarBounds == Validities \subseteq Nat \ {0} /\ Holidays \subseteq Nat /\ Instants \subseteq Nat

OnWeekend(local) == (local \div 24) % 7 >= 5

(* The timezone database: a clock changes by an hour, at a weekend, or, on a *)
(* working date, only in zones two hours and more to the east of UTC (Egypt, *)
(* Israel), and there neither the hour of the reminders nor the last of the  *)
(* date is skipped.                                                          *)
ASSUME ZonesAssumption ==
  \A z \in Zones :
    /\ z.before \in -12..14 /\ z.after \in -12..14 /\ z.after - z.before \in -1..1 /\ z.turns \in Int
    /\ \/ z.before = z.after
       \/ OnWeekend(z.turns + z.before) /\ OnWeekend(z.turns + z.after)
       \/ /\ z.before >= 2 /\ z.after >= 2
          /\ z.after > z.before => (z.turns + z.before) % 24 \notin {10, 23}

VARIABLES
  runtime,    \* whether Intl writes midnight as hour 24 ("hour12: false")
  calendar,   \* tenant_business_calendars: [zone, version], version 0: not configured
  excluded,   \* business_calendar_excluded_dates
  screen,     \* what each administrator's workspace shows
  request,    \* the configuration each administrator's request is about to write
  issuing,    \* the transaction that counts a deadline
  issued,     \* the deadlines counted, with what they were counted on
  notices,    \* what the families were told
  edits       \* the edits made (bounded)

calendarVars == <<runtime, calendar, excluded, screen, request, issuing, issued, notices, edits>>

Idle == [at |-> "idle"]

(* No instants: both lie before every one of a story. *)
Unresolved == -1000      \* BusinessCalendarValidationError
NoReminder == -2000

-----------------------------------------------------------------------------
(* Civil time *)

LocalTime(zone, instant) == instant + (IF instant < zone.turns THEN zone.before ELSE zone.after)

(* The parts of a midnight may come as hour 24 of the date that begins. *)
GetZonedParts(zone, instant) ==
  LET local == LocalTime(zone, instant)
      hour == local % 24
  IN [date |-> local \div 24, hour |-> IF hour = 0 /\ runtime THEN 24 ELSE hour]

GetLocalDate_Carried(zone, instant) ==
  LET read == GetZonedParts(zone, instant) IN read.date + read.hour \div 24
GetLocalDate(zone, instant) == GetZonedParts(zone, instant).date

(* Four corrections of the guess by the difference it reads. *)
Rounds == 4

Guess(zone, target) ==
  LET guess[n \in 0..Rounds] ==
        IF n = 0 THEN target
        ELSE LET read == GetZonedParts(zone, guess[n - 1])
             IN guess[n - 1] - (read.date * 24 + read.hour - target)
  IN guess[Rounds]

CivilDateTimeToInstant(zone, date, hour) ==
  LET guess == Guess(zone, date * 24 + hour)
  IN IF GetZonedParts(zone, guess) = [date |-> date, hour |-> hour] THEN guess ELSE Unresolved

CivilDayOfWeek(date) == (date % 7) + 1

IsBusinessDate(date, dates) == CivilDayOfWeek(date) \notin {6, 7} /\ date \notin dates

(* Far enough to find a business date on either side. *)
Reach(dates) == 7 * (Cardinality(dates) + 1)

NextBusinessDate(date, dates) ==
  CHOOSE next \in (date + 1)..(date + Reach(dates)) :
    IsBusinessDate(next, dates) /\ \A d \in (date + 1)..(next - 1) : ~IsBusinessDate(d, dates)

AddBusinessDaysAfter(start, count, dates) ==
  LET after[n \in 0..count] == IF n = 0 THEN start ELSE NextBusinessDate(after[n - 1], dates)
  IN after[count]

PreviousBusinessDate(date, dates) ==
  CHOOSE previous \in (date - Reach(dates))..(date - 1) :
    IsBusinessDate(previous, dates) /\ \A d \in (previous + 1)..(date - 1) : ~IsBusinessDate(d, dates)

CalculateBusinessDeadline(issuedAt, count, zone, dates) ==
  CivilDateTimeToInstant(zone, AddBusinessDaysAfter(GetLocalDate(zone, issuedAt), count, dates), 23)

InTime_Always(reminder, issuedAt) == TRUE
InTime(reminder, issuedAt) == reminder > issuedAt

CalculateOfferReminderAt(issuedAt, expiresAt, zone, dates) ==
  LET reminder == CivilDateTimeToInstant(zone, PreviousBusinessDate(GetLocalDate(zone, expiresAt), dates), 10)
  IN IF reminder = Unresolved \/ InTime(reminder, issuedAt) THEN reminder ELSE NoReminder

-----------------------------------------------------------------------------
(* The administrators' workspace *)

Configured == calendar.version > 0
Dates == {e.date : e \in excluded}
Together == edits + Cardinality(issued) + IF issuing = Idle THEN 0 ELSE 1
Edit == edits < MaxEdits /\ Together < MaxTogether /\ edits' = edits + 1

CalendarInit ==
  /\ runtime \in BOOLEAN
  /\ calendar = [version |-> 0]
  /\ excluded = {}
  /\ screen = [a \in Admins |-> [version |-> 0, dates |-> {}]]
  /\ request = [a \in Admins |-> Idle]
  /\ issuing = Idle
  /\ issued = {}
  /\ notices = {}
  /\ edits = 0

Deadlines == <<issuing, issued, notices>>

FetchData(a) ==
  /\ request[a] = Idle
  /\ screen[a] # [version |-> calendar.version, dates |-> excluded]
  /\ screen' = [screen EXCEPT ![a] = [version |-> calendar.version, dates |-> excluded]]
  /\ UNCHANGED <<runtime, calendar, excluded, request, Deadlines, edits>>

(* handleSaveCalendar sends the version it shows; configureCalendar reads   *)
(* the row without a lock. A workspace that shows no calendar sends none.    *)
ConfigureCalendar(a, zone) ==
  /\ request[a] = Idle /\ Edit
  /\ Configured /\ screen[a].version > 0 => calendar.version = screen[a].version
  /\ request' = [request EXCEPT ![a] = [at |-> IF Configured THEN "updating" ELSE "creating", zone |-> zone]]
  /\ UNCHANGED <<runtime, calendar, excluded, screen, Deadlines>>

(* The row of a tenant is unique; an update finds it by its id only. *)
WriteCalendar(a) ==
  /\ request[a] # Idle
  /\ calendar' = IF request[a].at = "creating" /\ Configured THEN calendar
                 ELSE [zone |-> request[a].zone, version |-> calendar.version + 1]
  /\ screen' = [screen EXCEPT ![a].version = IF calendar' = calendar THEN @ ELSE calendar'.version]
  /\ request' = [request EXCEPT ![a] = Idle]
  /\ UNCHANGED <<runtime, excluded, Deadlines, edits>>

(* What the workspace offers: any date typed, the listed entries removed. *)
ExcludedDateForm(a) == IF request[a] = Idle THEN Holidays ELSE {}
RemovalButtons(a) == IF request[a] = Idle THEN screen[a].dates ELSE {}

AddExcludedDate(a, date) ==
  /\ Configured /\ date \notin Dates /\ Edit
  /\ excluded' = excluded \cup {[date |-> date, id |-> edits]}
  /\ UNCHANGED <<runtime, calendar, screen, request, Deadlines>>

RemoveExcludedDate(a, entry) ==
  /\ entry \in excluded /\ Edit
  /\ excluded' = excluded \ {entry}
  /\ UNCHANGED <<runtime, calendar, screen, request, Deadlines>>

-----------------------------------------------------------------------------
(* Deadlines and notices *)

(* Two statements of one transaction: the timezone, then the excluded dates. *)
ReadTimezone(at, count) ==
  /\ issuing = Idle /\ Configured /\ Cardinality(issued) < MaxIssued
  /\ Together < MaxTogether
  /\ \A o \in issued : at \in o.issuedAt .. o.issuedAt + MaxApart
  /\ issuing' = [at |-> "dates", issuedAt |-> at, count |-> count, zone |-> calendar.zone]
  /\ UNCHANGED <<runtime, calendar, excluded, screen, request, issued, notices, edits>>

IssueDeadline ==
  /\ issuing # Idle
  /\ LET expires == CalculateBusinessDeadline(issuing.issuedAt, issuing.count, issuing.zone, Dates)
     IN issued' = issued \cup {[issuedAt |-> issuing.issuedAt, count |-> issuing.count, zone |-> issuing.zone, dates |-> Dates,
                                expires |-> expires,
                                reminder |-> IF expires = Unresolved THEN NoReminder
                                             ELSE CalculateOfferReminderAt(issuing.issuedAt, expires, issuing.zone, Dates)]}
  /\ issuing' = Idle
  /\ UNCHANGED <<runtime, calendar, excluded, screen, request, notices, edits>>

(* prepareOffer..., prepareOfferReminder..., prepareDocumentCorrection...:  *)
(* the date is written in the timezone of the moment.                        *)
PrepareNotice(o) ==
  /\ o \in issued /\ o.expires # Unresolved
  /\ o \notin {n.of : n \in notices}
  /\ notices' = notices \cup {[of |-> o, says |-> GetZonedParts(calendar.zone, o.expires)]}
  /\ UNCHANGED <<runtime, calendar, excluded, screen, request, issuing, issued, edits>>

CalendarNext ==
  \/ \E a \in Admins :
       \/ FetchData(a) \/ WriteCalendar(a)
       \/ \E zone \in Zones : ConfigureCalendar(a, zone)
       \/ \E date \in ExcludedDateForm(a) : AddExcludedDate(a, date)
       \/ \E entry \in RemovalButtons(a) : RemoveExcludedDate(a, entry)
  \/ \E at \in Instants, count \in Validities : ReadTimezone(at, count)
  \/ IssueDeadline
  \/ \E o \in issued : PrepareNotice(o)

CalendarSpec == CalendarInit /\ [][CalendarNext]_calendarVars

-----------------------------------------------------------------------------
(* Properties *)

Working(dates, from, to) == {d \in from..to : d % 7 < 5 /\ d \notin dates}
LocalDate(zone, instant) == LocalTime(zone, instant) \div 24

(* The deadline of addBusinessDaysAfter and civilDateTimeToInstant is the    *)
(* last hour of a working date, which lets the whole date pass also where    *)
(* that hour comes twice; as many working dates lie after the local date of  *)
(* issue as were granted; and no date is refused, in every zone, at every    *)
(* hour and however the runtime writes midnight.                             *)
DeadlineEndsTheLastDay ==
  \A o \in issued :
    LET first == LocalDate(o.zone, o.issuedAt)
        last == LocalDate(o.zone, o.expires)
    IN /\ o.expires # Unresolved
       /\ LocalTime(o.zone, o.expires) % 24 = 23
       /\ LocalDate(o.zone, o.expires + 1) = last + 1
       /\ last \in Working(o.dates, first + 1, last)
       /\ Cardinality(Working(o.dates, first + 1, last)) = o.count

(* The reminder of calculateOfferReminderAt comes after the issue, on the    *)
(* last working date before the deadline's, at ten; only an offer that       *)
(* grants one day may go without.                                            *)
ReminderIsTheWorkingDayBefore ==
  \A o \in issued :
    IF o.reminder = NoReminder THEN o.count = 1
    ELSE LET day == LocalDate(o.zone, o.reminder)
         IN /\ o.issuedAt < o.reminder /\ o.reminder < o.expires
            /\ LocalTime(o.zone, o.reminder) % 24 = 10
            /\ Working(o.dates, day, LocalDate(o.zone, o.expires) - 1) = {day}

(* A deadline and its reminder are right for the zone and the dates they     *)
(* were counted on.                                                          *)
IssuedIsRight == DeadlineEndsTheLastDay /\ ReminderIsTheWorkingDayBefore

(* Of two deadlines counted on one calendar, the one issued later, for no    *)
(* fewer days (resolveTenantCalendar, calculateBusinessDeadline), does not    *)
(* end first: no family that is offered a seat later has to answer sooner.   *)
LaterIssueEndsNoEarlier ==
  \A o, p \in issued :
    o.zone = p.zone /\ o.dates = p.dates /\ o.issuedAt <= p.issuedAt /\ o.count <= p.count =>
      o.expires <= p.expires

-----------------------------------------------------------------------------
(* What the code does not keep (README, known deviations) *)

(* A configuration is written over the one its administrator saw.            *)
ConfigurationSawTheLast ==
  [][\A a \in Admins : WriteCalendar(a) /\ calendar' # calendar => calendar.version = screen[a].version]_calendarVars

(* A notice names the last hour of the date the deadline was counted to.     *)
NoticeNamesTheDeadline ==
  \A n \in notices : n.says = [date |-> LocalDate(n.of.zone, n.of.expires), hour |-> 23]

(* A deadline is counted on a calendar that was in force at one moment.      *)
DeadlineIsOfOneCalendar ==
  [][\A o \in issued' \ issued : o.zone = calendar.zone]_calendarVars
================================================================================
