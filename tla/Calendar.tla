------------------------------ MODULE Calendar ------------------------------
(***************************************************************************)
(* The dates behind "last month" and "3 weeks ago": day numbers from       *)
(* 1970-01-01, the civil calendar, and the windows parse_temporal_window   *)
(* makes of a phrase.  Recognizing the phrase is left out.                 *)
(*                                                                         *)
(* today and date name one day, the one as the program counts days, the    *)
(* other counted on a wall calendar, a page at a time in both directions.  *)
(* The wall calendar knows how long the months are (days_in_month) and     *)
(* that day 0 is Thursday 1 January 1970; the conversions, which use       *)
(* neither, have to agree with it.                                         *)
(***************************************************************************)
EXTENDS Integers

CONSTANTS
    Eras,      \* the walks start on 1 January of 1970 + 400 * era
    Span,      \* and go this many days in both directions
    MonthCounts   \* "N months ago"

DaysInEra == 146097   \* 400 years are a whole number of weeks, too

ASSUME CalendarAssumption ==
    /\ Eras \subseteq Int
    /\ Span \in Nat
    /\ MonthCounts \subseteq Nat

VARIABLES
    today,     \* days since 1970-01-01
    date,      \* the page of the wall calendar: year, month and day
    weekday    \* 0 for Monday

calendarVars == <<today, date, weekday>>

(* C++ division and remainder, towards zero *)
Quot(a, b) == IF a >= 0 THEN a \div b ELSE -((-a) \div b)
Rem(a, b) == a - b * Quot(a, b)

(* The quotient rounded down, as the program takes it. *)
FloorQuot(a, b) == Quot(IF a >= 0 THEN a ELSE a - (b - 1), b)

Least(a, b) == IF a <= b THEN a ELSE b

-----------------------------------------------------------------------------
(* temporal.cpp *)

(* Mutant: January and February counted with the year they begin. *)
DaysFromCivilSameYear(year, month, day) ==
    LET era == FloorQuot(year, 400)
        yoe == year - era * 400
        doy == (153 * (IF month > 2 THEN month - 3 ELSE month + 9) + 2) \div 5 + day - 1
        doe == yoe * 365 + yoe \div 4 - yoe \div 100 + doy
    IN  era * 146097 + doe - 719468

(* A year that begins in March, in an era of 400 of them. *)
DaysFromCivil(year, month, day) ==
    LET y   == IF month <= 2 THEN year - 1 ELSE year
        era == FloorQuot(y, 400)
        yoe == y - era * 400
        doy == (153 * (IF month > 2 THEN month - 3 ELSE month + 9) + 2) \div 5 + day - 1
        doe == yoe * 365 + yoe \div 4 - yoe \div 100 + doy
    IN  era * 146097 + doe - 719468

CivilFromDays(number) ==
    LET days  == number + 719468
        era   == FloorQuot(days, 146097)
        doe   == days - era * 146097
        yoe   == (doe - doe \div 1460 + doe \div 36524 - doe \div 146096) \div 365
        doy   == doe - (365 * yoe + yoe \div 4 - yoe \div 100)
        mp    == (5 * doy + 2) \div 153
        month == IF mp < 10 THEN mp + 3 ELSE mp - 9
        year  == yoe + era * 400
    IN  [year  |-> IF month <= 2 THEN year + 1 ELSE year,
         month |-> month,
         day   |-> doy - (153 * mp + 2) \div 5 + 1]

IsLeapYear(year) ==
    Rem(year, 4) = 0 /\ (Rem(year, 100) # 0 \/ Rem(year, 400) = 0)

DaysInMonth(year, month) ==
    IF month = 2 /\ IsLeapYear(year) THEN 29
    ELSE <<31, 28, 31, 30, 31, 30, 31, 31, 30, 31, 30, 31>>[month]

MondayOfWeek(day) ==
    LET weekdayOf == Rem(day + 3, 7)
    IN  day - (IF weekdayOf < 0 THEN weekdayOf + 7 ELSE weekdayOf)

(* The month months before that of civil, as year and month. *)
MonthBefore(civil, months) ==
    LET total == civil.year * 12 + civil.month - 1 - months
        month == Rem(total, 12)
    IN  IF month < 0 THEN [year |-> Quot(total, 12) - 1, month |-> month + 13]
                     ELSE [year |-> Quot(total, 12), month |-> month + 1]

SubtractMonths(day, months) ==
    LET civil  == CivilFromDays(day)
        target == MonthBefore(civil, months)
    IN  DaysFromCivil(target.year, target.month,
                      Least(civil.day, DaysInMonth(target.year, target.month)))

(* Windows: start inclusive, end exclusive. *)
ThisWeek(day) == [start |-> MondayOfWeek(day), end |-> MondayOfWeek(day) + 7]
LastWeek(day) == [start |-> MondayOfWeek(day) - 7, end |-> MondayOfWeek(day)]

(* Mutant: December ends in January of its own year. *)
InMonthOfOneYear(year, month) ==
    [start |-> DaysFromCivil(year, month, 1),
     end   |-> DaysFromCivil(year, IF month = 12 THEN 1 ELSE month + 1, 1)]

InMonth(year, month) ==
    [start |-> DaysFromCivil(year, month, 1),
     end   |-> IF month = 12 THEN DaysFromCivil(year + 1, 1, 1)
                             ELSE DaysFromCivil(year, month + 1, 1)]
ThisMonth(day) ==
    LET civil == CivilFromDays(day) IN InMonth(civil.year, civil.month)
LastMonth(day) ==
    LET civil == CivilFromDays(day)
        end   == DaysFromCivil(civil.year, civil.month, 1)
    IN  [start |-> SubtractMonths(end, 1), end |-> end]

ThisYear(day) ==
    LET year == CivilFromDays(day).year
    IN  [start |-> DaysFromCivil(year, 1, 1), end |-> DaysFromCivil(year + 1, 1, 1)]
LastYear(day) ==
    LET year == CivilFromDays(day).year
    IN  [start |-> DaysFromCivil(year - 1, 1, 1), end |-> DaysFromCivil(year, 1, 1)]

-----------------------------------------------------------------------------
(* The wall calendar *)

FirstDay(era) == DaysInEra * era

CalendarInit ==
    \E era \in Eras :
      /\ today = FirstDay(era)
      /\ date = [year |-> 1970 + 400 * era, month |-> 1, day |-> 1]
      /\ weekday = 3

Tomorrow ==
    /\ \E era \in Eras : today \in FirstDay(era)..(FirstDay(era) + Span - 1)
    /\ today' = today + 1
    /\ weekday' = (weekday + 1) % 7
    /\ date' = IF date.day < DaysInMonth(date.year, date.month)
               THEN [date EXCEPT !.day = @ + 1]
               ELSE IF date.month < 12
               THEN [date EXCEPT !.month = @ + 1, !.day = 1]
               ELSE [year |-> date.year + 1, month |-> 1, day |-> 1]

Yesterday ==
    /\ \E era \in Eras : today \in (FirstDay(era) - Span + 1)..FirstDay(era)
    /\ today' = today - 1
    /\ weekday' = (weekday + 6) % 7
    /\ date' = IF date.day > 1 THEN [date EXCEPT !.day = @ - 1]
               ELSE IF date.month > 1
               THEN [date EXCEPT !.month = @ - 1,
                                 !.day = DaysInMonth(date.year, date.month - 1)]
               ELSE [year |-> date.year - 1, month |-> 12, day |-> 31]

CalendarNext == Tomorrow \/ Yesterday

CalendarSpec == CalendarInit /\ [][CalendarNext]_calendarVars

-----------------------------------------------------------------------------
(* Properties *)

(* Both conversions agree with the wall calendar, before 1970, before the year
   0 and around the leap days that are and are not; the weeks begin on its
   Mondays. *)
DatesAgree ==
    /\ CivilFromDays(today) = date
    /\ DaysFromCivil(date.year, date.month, date.day) = today
    /\ MondayOfWeek(today) = today - weekday

(* When a week, a month or a year is over, what was "this" becomes "last" to
   the day and the next begins where it ended; on other days nothing moves.
   "N months ago" never goes back when a day passes, and on the first of a
   month it goes on. *)
Rolls(This(_), Last(_), over) ==
    IF over THEN Last(today') = This(today) /\ This(today').start = This(today).end
            ELSE Last(today') = Last(today) /\ This(today') = This(today)

RollOver ==
    today' = today + 1 =>
      /\ Rolls(ThisWeek, LastWeek, weekday = 6)
      /\ Rolls(ThisMonth, LastMonth, date'.day = 1)
      /\ Rolls(ThisYear, LastYear, date'.day = 1 /\ date'.month = 1)
      /\ \A n \in MonthCounts :
           /\ SubtractMonths(today, n) <= SubtractMonths(today', n)
           /\ date'.day = 1 =>
                SubtractMonths(today, n) < SubtractMonths(today', n)

WindowsRollOver == [][RollOver]_calendarVars
=============================================================================
