------------------------------ MODULE HttpDate ------------------------------
(***************************************************************************)
(* The IMF-fixdate of core/src/http/date.rs: the text of Date and           *)
(* Last-Modified, and the value of an If-Modified-Since.                     *)
(*                                                                          *)
(* A date text is the record of its tokens; the weekday is not read back.   *)
(* A text that does not split into the six tokens of "Wdy, DD Mon YYYY      *)
(* HH:MM:SS GMT", or whose numbers do not parse, is refused like one of day *)
(* 0, and is represented so.  The widths of i64 and u64 are left out: they  *)
(* are met by years beyond 10^11.                                           *)
(***************************************************************************)
EXTENDS Integers

\* Days before 1970-01-01 of the era that starts on 0000-03-01.
EpochOffset == 719468

\* An era is 400 years.  The code's truncating division of a negative count,
\* adjusted by 1 - EraDays, is the floor that \div is.
EraDays == 146097
EraOf(z) == z \div EraDays
DayOfEra(z) == z - EraOf(z) * EraDays

\* Years run from 1 March, so that a leap day is the last of its year: the days
\* of an era before its year yoe, and the year a day of the era is in.
YearStart(yoe) == yoe * 365 + yoe \div 4 - yoe \div 100
YearOfEra(doe) == (doe - doe \div 1460 + doe \div 36524 - doe \div (EraDays - 1)) \div 365
DayOfYear(doe) == doe - YearStart(YearOfEra(doe))

\* The days of a year before its month mp (0 is March), and the month a day of
\* the year is in.
MonthStart(mp) == (153 * mp + 2) \div 5
MonthOf(doy) == (5 * doy + 2) \div 153

\* The day of month mp of the year that began in March of the given year.
Civil(year, mp, day) ==
    LET month == IF mp < 10 THEN mp + 3 ELSE mp - 9
    IN  [year |-> IF month <= 2 THEN year + 1 ELSE year, month |-> month, day |-> day]

CivilFromDays(days) ==
    LET z == days + EpochOffset
        doy == DayOfYear(DayOfEra(z))
        mp == MonthOf(doy)
    IN  Civil(YearOfEra(DayOfEra(z)) + EraOf(z) * 400, mp, doy - MonthStart(mp) + 1)

DaysFromCivil(year, month, day) ==
    LET y == IF month <= 2 THEN year - 1 ELSE year
        era == y \div 400
        yoe == y - era * 400
        mp == IF month > 2 THEN month - 3 ELSE month + 9
        doy == MonthStart(mp) + day - 1
    IN  era * EraDays + YearStart(yoe) + doy - EpochOffset

DaySecs == 86400

http_date(secs) ==
    LET days == secs \div DaySecs
        time == secs % DaySecs
        civil == CivilFromDays(days)
    IN  [weekday |-> ((days % 7) + 4) % 7,
         day |-> civil.day, month |-> civil.month, year |-> civil.year,
         hour |-> time \div 3600, minute |-> (time % 3600) \div 60, second |-> time % 60]

NotADate == -1      \* None

\* A day may be any of 1..31 in every month, and a minute may have a second 60.
parse_http_date(date) ==
    LET days == DaysFromCivil(date.year, date.month, date.day)
    IN  IF /\ date.day \in 1..31
           /\ date.hour <= 23 /\ date.minute <= 59 /\ date.second <= 60
           /\ days >= 0
        THEN days * DaySecs + date.hour * 3600 + date.minute * 60 + date.second
        ELSE NotADate
=============================================================================
