----------------------------- MODULE DateParsing -----------------------------
(***************************************************************************)
(* ParseDate of pkg/utils/date/parser.go: one text is offered to four      *)
(* parsers in turn, each of which recognises parts of it.  A text is       *)
(* abstracted to a phrase, a record of what it says and in which language; *)
(* what a parser finds in it by substring search is what counts, so a      *)
(* phrase also has the weekday names it happens to contain.                *)
(*                                                                         *)
(* A time is a number of seconds since 1970, and years are counted from    *)
(* it.  Timestamps in milliseconds and the layouts that time.Parse knows   *)
(* are left out.                                                           *)
(***************************************************************************)
EXTENDS Integers, Sequences, FiniteSets

CONSTANTS
  Phrases,     \* what feeds and pages write where a date belongs
  Nows         \* the clock readings

Day == 86400          \* seconds

Kinds == {"today", "weekday", "ago", "last", "period", "date", "compact", "unix", "unlisted"}
Units == {"second", "minute", "hour", "day", "week", "month", "year"}

ASSUME DateAssumption ==
  /\ Nows \subseteq Int
  /\ Phrases \subseteq [kind : Kinds, lang : {"en", "zh"}, unit : Units, num : Nat, shift : Int,
                       weekday : 0 .. 6, last : BOOLEAN,
                       year : Int, month : 1 .. 12, day : 1 .. 31, sec : 0 .. Day - 1]
  /\ \A p \in Phrases : p.kind = "period" => p.unit \in {"week", "month", "year"}

VARIABLES clock, phrase, parsed

dateVars == <<clock, phrase, parsed>>

-----------------------------------------------------------------------------
(* The calendar of package time.                                           *)

FirstDay == 4         \* 1 January 1970 was a Thursday; Sunday = 0

DaysBefore == <<0, 31, 59, 90, 120, 151, 181, 212, 243, 273, 304, 334>>
Leap(year) ==
  LET n == year + 1970 IN n % 4 = 0 /\ (n % 100 # 0 \/ n % 400 = 0)

(* the leap days between the firsts of January of 1970 and of year         *)
LeapDays(year) ==
  LET n == year + 1969 IN (n \div 4) - (n \div 100) + (n \div 400) - 477

(* mutant: the year is not carried when the month is normalised *)
FirstOfMonth_NoCarry(year, month) ==
  LET m == ((month - 1) % 12) + 1
  IN 365 * year + LeapDays(year) + DaysBefore[m] + (IF Leap(year) /\ m > 2 THEN 1 ELSE 0)

(* time.Date normalises months, and days by counting on from the first *)
FirstOfMonth(year, month) ==
  LET y == year + ((month - 1) \div 12)
      m == ((month - 1) % 12) + 1
  IN 365 * y + LeapDays(y) + DaysBefore[m] + (IF Leap(y) /\ m > 2 THEN 1 ELSE 0)

Date(year, month, day, sec) == (FirstOfMonth(year, month) + day - 1) * Day + sec

DayOf(t)   == t \div Day
ClockOf(t) == t % Day

(* 400 years have 146097 days, so this many years are about right. *)
YearOf(t) ==
  LET about == (400 * DayOf(t)) \div 146097
  IN CHOOSE y \in about - 1 .. about + 1 :
       FirstOfMonth(y, 1) <= DayOf(t) /\ DayOf(t) < FirstOfMonth(y + 1, 1)
MonthOf(t) ==
  CHOOSE m \in 1 .. 12 :
    FirstOfMonth(YearOf(t), m) <= DayOf(t) /\ DayOf(t) < FirstOfMonth(YearOf(t), m + 1)
DayInMonth(t) == DayOf(t) - FirstOfMonth(YearOf(t), MonthOf(t)) + 1

Weekday(t) == (DayOf(t) + FirstDay) % 7

AddDate(t, years, months, days) ==
  Date(YearOf(t) + years, MonthOf(t) + months, DayInMonth(t) + days, ClockOf(t))

-----------------------------------------------------------------------------
(* What the parsers find in a text.                                        *)

NoDate == [found |-> FALSE, time |-> 0]
At(t)  == [found |-> TRUE, time |-> t]

(* mutant: the week is counted from the day after today *)
UntilNext_Tomorrow(t, weekday) == ((weekday - Weekday(t) + 6) % 7) + 1

UntilNext(t, weekday) == (weekday - Weekday(t) + 7) % 7

(* mutant: weeks start on Sunday *)
SinceMonday_Sunday(t) == Weekday(t)

SinceMonday(t) == (Weekday(t) - 1 + 7) % 7

(* now minus n units, as both languages compute it *)
Ago(t, n, unit) ==
  CASE unit = "second" -> t - n
    [] unit = "minute" -> t - n * 60
    [] unit = "hour"   -> t - n * 3600
    [] unit = "day"    -> AddDate(t, 0, 0, -n)
    [] unit = "week"   -> AddDate(t, 0, 0, -n * 7)
    [] unit = "month"  -> AddDate(t, 0, -n, 0)
    [] unit = "year"   -> AddDate(t, -n, 0, 0)

(* parseTimestamp takes whatever is mostly digits for a Unix time, a date  *)
(* in one of parseStandard's compact formats as well.                      *)
FromTimestamp(p) == {p.num : x \in {p.kind} \cap {"unix", "compact"}}

(* parseStandard: complete dates in a layout it lists *)
FromStandard(p) ==
  {Date(p.year, p.month, p.day, p.sec) : x \in {<<p.kind, p.lang>>} \cap ({"date", "compact"} \X {"en"})}

(* Weekdays whose English names, in full or three letters of them, occur   *)
(* in the text: `month' has `mon' in it, a layout not listed any of them.  *)
Spells(p) ==
  {d \in 0 .. 6 :
     /\ p.lang = "en"
     /\ \/ p.kind \in {"weekday", "unlisted"} /\ d = p.weekday
        \/ p.kind \in {"ago", "last"} /\ p.unit = "month" /\ d = 1}

(* does the text begin with `last '? *)
SaysLast(p) == p.last \/ p.kind = "last"

(* parseNaturalLanguage: `today' and its neighbours, then weekdays (the    *)
(* map of names is tried in any order), then `n units ago', then `last u'. *)
FromEnglish(t, p) ==
  IF Spells(p) # {}
  THEN {AddDate(t, 0, 0, UntilNext(t, d) - (IF SaysLast(p) THEN 7 ELSE 0)) : d \in Spells(p)}
  ELSE {CASE p.kind = "today" -> AddDate(t, 0, 0, p.shift)
          [] p.kind = "ago"   -> Ago(t, p.num, p.unit)
          [] p.kind = "last"  -> Ago(t, 1, p.unit)
        : x \in {<<p.kind, p.lang>>} \cap ({"today", "ago", "last"} \X {"en"})}

(* the week, month or year before, of or after now *)
Period(t, unit, shift) ==
  CASE unit = "week"  -> AddDate(t, 0, 0, 7 * shift - SinceMonday(t))
    [] unit = "month" -> Date(YearOf(t), MonthOf(t) + shift, 1, 0)
    [] unit = "year"  -> Date(YearOf(t) + shift, 1, 1, 0)

(* parseChinese: a weekday is always the next to come, whatever is said    *)
(* before it; the pattern of a date is tried before the longer one that    *)
(* has a time of day, so the time is dropped.                              *)
FromChinese(t, p) ==
  {CASE p.kind = "today"   -> AddDate(t, 0, 0, p.shift)
     [] p.kind = "weekday" -> AddDate(t, 0, 0, UntilNext(t, p.weekday))
     [] p.kind = "ago"     -> Ago(t, p.num, p.unit)
     [] p.kind = "date"    -> Date(p.year, p.month, p.day, 0)
     [] p.kind = "period"  -> Period(t, p.unit, p.shift)
   : x \in {<<p.kind, p.lang>>} \cap ({"today", "weekday", "ago", "date", "period"} \X {"zh"})}

(* The first of the four parsers that finds something decides. *)
Readings(t, p) ==
  IF FromTimestamp(p) # {} THEN FromTimestamp(p)
  ELSE IF FromStandard(p) # {} THEN FromStandard(p)
  ELSE FromEnglish(t, p) \cup (IF FromEnglish(t, p) = {} THEN FromChinese(t, p) ELSE {})

-----------------------------------------------------------------------------
DateInit == clock \in Nows /\ phrase \in Phrases /\ parsed = NoDate

(* the zero time and no error when none of them recognises the text *)
ParseDate ==
  /\ parsed = NoDate
  /\ \/ \E t \in Readings(clock, phrase) : parsed' = At(t)
     \/ Readings(clock, phrase) = {} /\ UNCHANGED parsed
  /\ UNCHANGED <<clock, phrase>>

DateSpec == DateInit /\ [][ParseDate]_dateVars

-----------------------------------------------------------------------------
(* Properties.                                                             *)

Found(kind) == parsed.found /\ phrase.kind = kind

(* n months ago is between 28 and 31 days earlier for each of them, on     *)
(* every day of the year: the overflow of a day that the earlier month     *)
(* does not have never skips a month, and years are carried.               *)
MonthsAgoSpanMonths ==
  Found("ago") /\ phrase.lang = "zh" /\ phrase.unit \in {"month", "year"} =>
    LET months == phrase.num * (IF phrase.unit = "year" THEN 12 ELSE 1)
        days   == (clock - parsed.time) \div Day
    IN /\ ClockOf(parsed.time) = ClockOf(clock)
       /\ 30 * months - 2 <= days /\ days <= 31 * months

(* Weeks are counted from the one that 1 January 1970 lies in and begin on *)
(* Monday, months and years as the calendar does.                          *)
WeekNo(t) == (DayOf(t) + 3) \div 7
PeriodNo(t, unit) ==
  CASE unit = "week"  -> WeekNo(t)
    [] unit = "month" -> MonthOf(t) + 12 * YearOf(t)
    [] unit = "year"  -> YearOf(t)

(* Last, this and next week, month and year are the first day of the       *)
(* period just before, of and just after the one that now lies in, on      *)
(* every day and across the ends of years.  A month and a year begin at    *)
(* midnight; a week does not, whatever the comments promise by its start,  *)
(* but at the time of day it now is.                                       *)
PeriodsFollowTheCalendar ==
  Found("period") =>
    LET no(t) == PeriodNo(t, phrase.unit) IN
    /\ no(parsed.time) = no(clock) + phrase.shift
    /\ no(parsed.time - Day) = no(parsed.time) - 1
    /\ ClockOf(parsed.time) = IF phrase.unit = "week" THEN ClockOf(clock) ELSE 0

(* A weekday lies in this week (from Monday) only while it has not passed, *)
(* and in the next one then, other than a comment says; `last' before it   *)
(* takes a week off that in English, and changes nothing in Chinese.  The  *)
(* time of day stays.                                                      *)
WeekdaysFollowTheCalendar ==
  Found("weekday") =>
    LET passed == (DayOf(clock) + 3) % 7 > (phrase.weekday + 6) % 7
        back   == phrase.last /\ phrase.lang = "en"
    IN /\ Weekday(parsed.time) = phrase.weekday
       /\ WeekNo(parsed.time) = WeekNo(clock) + (IF passed THEN 1 ELSE 0) - (IF back THEN 1 ELSE 0)
       /\ ClockOf(parsed.time) = ClockOf(clock)
=============================================================================
