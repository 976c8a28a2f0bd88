------------------------------ MODULE HttpDate ------------------------------
(***************************************************************************)
(* parse_http_date: the Unix time of a Date header, from which the token   *)
(* provider takes the service's clock.  A date is what sscanf finds in     *)
(* "Wkd, DD Mon YYYY HH:MM:SS GMT": [fields, year, month, day, hour, min,  *)
(* sec], fields being how many of the seven conversions succeed and month  *)
(* the number of the month's name, 0 for a name that is none.              *)
(***************************************************************************)
EXTENDS Integers

NoTime == <<>>      \* std::nullopt

\* a / b of ints for a positive b, which cuts towards zero.
Cut(a, b) == IF a >= 0 THEN a \div b ELSE -((-a) \div b)

\* Mutant: every fourth year is a leap year.
days_from_civil_Julian(y, m, d) ==
  LET year == IF m <= 2 THEN y - 1 ELSE y
      era == Cut(year, 400)
      yoe == year - era * 400
      doy == (153 * (IF m > 2 THEN m - 3 ELSE m + 9) + 2) \div 5 + d - 1
      doe == yoe * 365 + Cut(yoe, 4) + doy
  IN  era * 146097 + doe - 719468

\* Days since 1970-01-01; the year begins on the first of March.
days_from_civil(y, m, d) ==
  LET year == IF m <= 2 THEN y - 1 ELSE y
      era == Cut(year, 400)
      yoe == year - era * 400
      doy == (153 * (IF m > 2 THEN m - 3 ELSE m + 9) + 2) \div 5 + d - 1
      doe == yoe * 365 + Cut(yoe, 4) - Cut(yoe, 100) + doy
  IN  era * 146097 + doe - 719468

\* What is read is checked field by field: no month is too short for a 31st.
FieldsAccepted(date) ==
  /\ date.fields = 7
  /\ date.month # 0
  /\ date.day \in 1..31
  /\ date.hour \in 0..23
  /\ date.min \in 0..59
  /\ date.sec \in 0..60

\* The days, 86400 seconds each, and the seconds after them.
parse_http_date(date) ==
  IF FieldsAccepted(date)
  THEN <<days_from_civil(date.year, date.month, date.day),
         date.hour * 3600 + date.min * 60 + date.sec>>
  ELSE NoTime

-----------------------------------------------------------------------------
(* The Gregorian calendar, which the service's Date header follows.        *)

IsLeap(y) == y % 4 = 0 /\ (y % 100 # 0 \/ y % 400 = 0)

DaysIn(y, m) ==
  IF m = 2 THEN (IF IsLeap(y) THEN 29 ELSE 28)
  ELSE IF m \in {4, 6, 9, 11} THEN 30 ELSE 31

IsDate(y, m, d) == y >= 1970 /\ m \in 1..12 /\ d \in 1..DaysIn(y, m)

\* The day after a date.
NextDay(y, m, d) ==
  IF d < DaysIn(y, m) THEN <<y, m, d + 1>>
  ELSE IF m < 12 THEN <<y, m + 1, 1>>
  ELSE <<y + 1, 1, 1>>

OneDayLater(y, m, d) ==
  LET next == NextDay(y, m, d)
  IN  days_from_civil(next[1], next[2], next[3]) = days_from_civil(y, m, d) + 1
=============================================================================
