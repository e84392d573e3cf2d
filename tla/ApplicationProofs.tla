-------------------------- MODULE ApplicationProofs --------------------------
(***************************************************************************)
(* Application for all routes, links, index files and requests, and whatever*)
(* happens to files meanwhile: what it serves lies in the document root, a  *)
(* 304 is true of the client's copy, a Range field, for every length of a   *)
(* file, gets the bytes it asks for, and an Allow field is kept to.  Before  *)
(* that, the dates its validators carry: the conversions of HttpDate are    *)
(* inverse to each other, and the days they count are those of the          *)
(* Gregorian calendar, for every time from 1970 on.                         *)
(***************************************************************************)
EXTENDS Application, TLAPS

-----------------------------------------------------------------------------
(* Dates. *)

\* The quotients are integers.
LEMMA Quotients ==
    ASSUME NEW n \in Int
    PROVE  /\ EraOf(n) \in Int /\ DayOfEra(n) \in Int
           /\ YearStart(n) \in Int /\ YearOfEra(n) \in Int /\ DayOfYear(n) \in Int
           /\ MonthStart(n) \in Int /\ MonthOf(n) \in Int
<1>1. EraOf(n) \in Int /\ DayOfEra(n) \in Int
  BY SMT DEF EraDays, EraOf, DayOfEra
<1>2. \A m \in Int : YearStart(m) \in Int
  BY SMT DEF YearStart
<1>3. YearOfEra(n) \in Int
  BY SMT DEF EraDays, YearOfEra
<1>4. DayOfYear(n) \in Int
  BY <1>2, <1>3, SMT DEF DayOfYear
<1>5. MonthStart(n) \in Int /\ MonthOf(n) \in Int
  BY SMT DEF MonthStart, MonthOf
<1> QED
  BY <1>1, <1>2, <1>3, <1>4, <1>5

\* A day count is an era and a day of the era.
LEMMA EraBounds ==
    ASSUME NEW z \in Int
    PROVE  /\ 0 <= DayOfEra(z) /\ DayOfEra(z) <= EraDays - 1
           /\ EraOf(z) * EraDays + DayOfEra(z) = z
<1>1. 0 <= DayOfEra(z)
  BY SMT DEF EraDays, EraOf, DayOfEra
<1>2. DayOfEra(z) <= EraDays - 1
  BY SMT DEF EraDays, EraOf, DayOfEra
<1>3. EraOf(z) * EraDays + DayOfEra(z) = z
  BY SMT DEF EraDays, EraOf, DayOfEra
<1> QED
  BY <1>1, <1>2, <1>3

\* The quotient by 365 that corrects for leap days finds the year of the era.
LEMMA YearBounds ==
    ASSUME NEW doe \in Int, 0 <= doe, doe <= EraDays - 1
    PROVE  /\ 0 <= YearOfEra(doe) /\ YearOfEra(doe) <= 399
           /\ 0 <= DayOfYear(doe) /\ DayOfYear(doe) <= 365
<1>1. 0 <= YearOfEra(doe) /\ YearOfEra(doe) <= 399
  BY SMTT(30) DEF EraDays, YearOfEra
<1>2. 0 <= DayOfYear(doe)
  BY SMTT(30) DEF EraDays, YearOfEra, DayOfYear, YearStart
<1>3. DayOfYear(doe) <= 365
  BY SMTT(30) DEF EraDays, YearOfEra, DayOfYear, YearStart
<1> QED
  BY <1>1, <1>2, <1>3

\* The quotient by 153 finds the month of the year that begins in March.
LEMMA MonthBounds ==
    ASSUME NEW doy \in Int, 0 <= doy, doy <= 365
    PROVE  /\ 0 <= MonthOf(doy) /\ MonthOf(doy) <= 11
           /\ 1 <= doy - MonthStart(MonthOf(doy)) + 1
           /\ doy - MonthStart(MonthOf(doy)) + 1 <= 31
<1>1. 0 <= MonthOf(doy) /\ MonthOf(doy) <= 11
  BY SMT DEF MonthOf
<1>2. 1 <= doy - MonthStart(MonthOf(doy)) + 1
  BY SMT DEF MonthOf, MonthStart
<1>3. doy - MonthStart(MonthOf(doy)) + 1 <= 31
  BY SMT DEF MonthOf, MonthStart
<1> QED
  BY <1>1, <1>2, <1>3

-----------------------------------------------------------------------------
\* DaysFromCivil undoes Civil: the shift of the year to March and back, and the
\* eras of 400 years.
LEMMA CivilUndone ==
    ASSUME NEW era \in Int, NEW yoe \in Int, NEW mp \in Int, NEW day \in Int,
           0 <= yoe, yoe <= 399, 0 <= mp, mp <= 11
    PROVE  LET c == Civil(yoe + era * 400, mp, day)
           IN  /\ c.year \in Int /\ c.month \in 1..12 /\ c.day = day
               /\ DaysFromCivil(c.year, c.month, c.day) =
                    era * EraDays + YearStart(yoe) + MonthStart(mp) + day - 1 - EpochOffset
<1> DEFINE year == yoe + era * 400
           month == IF mp < 10 THEN mp + 3 ELSE mp - 9
           shown == IF month <= 2 THEN year + 1 ELSE year
<1>1. Civil(year, mp, day) = [year |-> shown, month |-> month, day |-> day]
  BY DEF Civil
<1>2. year \in Int /\ shown \in Int /\ month \in 1..12
  BY SMT
<1>3. /\ (IF month <= 2 THEN shown - 1 ELSE shown) = year
      /\ (IF month > 2 THEN month - 3 ELSE month + 9) = mp
  BY <1>2, SMT
<1>4. year \div 400 = era
  BY SMT
<1>5. year - era * 400 = yoe
  BY SMT
<1> HIDE DEF year, month, shown
<1>6. DaysFromCivil(shown, month, day) =
        era * EraDays + YearStart(yoe) + (MonthStart(mp) + day - 1) - EpochOffset
  <2> DEFINE y == IF month <= 2 THEN shown - 1 ELSE shown
             m == IF month > 2 THEN month - 3 ELSE month + 9
  <2>1. DaysFromCivil(shown, month, day) =
          (y \div 400) * EraDays + YearStart(y - (y \div 400) * 400)
            + (MonthStart(m) + day - 1) - EpochOffset
    BY Zenon DEF DaysFromCivil
  <2>2. y = year /\ m = mp
    BY <1>3
  <2> HIDE DEF y, m
  <2> QED
    BY <1>4, <1>5, <2>1, <2>2
<1>7. YearStart(yoe) \in Int /\ MonthStart(mp) \in Int
  BY Quotients
<1>8. DaysFromCivil(shown, month, day) =
        era * EraDays + YearStart(yoe) + MonthStart(mp) + day - 1 - EpochOffset
  BY <1>6, <1>7, SMT DEF EpochOffset, EraDays
<1> QED
  BY <1>1, <1>2, <1>8 DEF year

\* civil_from_days and days_from_civil are inverse, for every day from 1970 on.
THEOREM DaysRoundTrip ==
    ASSUME NEW days \in Nat
    PROVE  LET c == CivilFromDays(days)
           IN  /\ c.year \in Int /\ c.month \in 1..12 /\ c.day \in 1..31
               /\ DaysFromCivil(c.year, c.month, c.day) = days
<1> DEFINE z == days + EpochOffset
           era == EraOf(z)
           doe == DayOfEra(z)
           yoe == YearOfEra(doe)
           doy == DayOfYear(doe)
           mp == MonthOf(doy)
           day == doy - MonthStart(mp) + 1
<1>1. z \in Int
  BY SMT DEF EpochOffset
<1> HIDE DEF z
<1>2. era \in Int /\ doe \in Int /\ 0 <= doe /\ doe <= EraDays - 1 /\ era * EraDays + doe = z
  BY <1>1, Quotients, EraBounds
<1> HIDE DEF era, doe
<1>3. /\ yoe \in Int /\ 0 <= yoe /\ yoe <= 399
      /\ doy \in Int /\ 0 <= doy /\ doy <= 365
  BY <1>2, Quotients, YearBounds
<1>4. YearStart(yoe) \in Int /\ doe = YearStart(yoe) + doy
  BY <1>2, <1>3, Quotients DEF DayOfYear
<1> HIDE DEF yoe, doy
<1>5. mp \in Int /\ 0 <= mp /\ mp <= 11 /\ MonthStart(mp) \in Int /\ 1 <= day /\ day <= 31
  BY <1>3, Quotients, MonthBounds
<1> HIDE DEF mp
<1>6. CivilFromDays(days) = Civil(yoe + era * 400, mp, day)
  BY Zenon DEF CivilFromDays, z, era, doe, yoe, doy, mp
<1>7. day \in Int /\ day \in 1..31 /\ MonthStart(mp) + day - 1 = doy
  BY <1>3, <1>5, SMT
<1> HIDE DEF day
<1>8. era * EraDays + YearStart(yoe) + MonthStart(mp) + day - 1 - EpochOffset = days
  BY <1>1, <1>2, <1>3, <1>4, <1>5, <1>7, SMT DEF z, EpochOffset, EraDays
<1> QED
  BY <1>2, <1>3, <1>5, <1>6, <1>7, <1>8, CivilUndone

-----------------------------------------------------------------------------
\* The hour, minute and second of a time are in range and add up to it.
LEMMA TimeOfDay ==
    ASSUME NEW time \in Int, 0 <= time, time < DaySecs
    PROVE  /\ time \div 3600 \in 0..23
           /\ (time % 3600) \div 60 \in 0..59
           /\ time % 60 \in 0..59
           /\ (time \div 3600) * 3600 + ((time % 3600) \div 60) * 60 + (time % 60) = time
<1>1. /\ time \div 3600 \in Int /\ time % 3600 \in Int
      /\ (time % 3600) \div 60 \in Int /\ time % 60 \in Int
  BY SMT
<1>2. 0 <= time \div 3600 /\ time \div 3600 <= 23
  BY SMT DEF DaySecs
<1>3. 0 <= (time % 3600) \div 60 /\ (time % 3600) \div 60 <= 59
  BY SMT
<1>4. 0 <= time % 60 /\ time % 60 <= 59
  BY SMT
<1>5. (time \div 3600) * 3600 + ((time % 3600) \div 60) * 60 + (time % 60) = time
  BY SMT
<1> QED
  BY <1>1, <1>2, <1>3, <1>4, <1>5

\* A time formatted by http_date is read back by parse_http_date as the same
\* second, which is what makes a Last-Modified usable as an If-Modified-Since.
THEOREM DateRoundTrip ==
    ASSUME NEW secs \in Nat
    PROVE  parse_http_date(http_date(secs)) = secs
<1> DEFINE days == secs \div DaySecs
           time == secs % DaySecs
           c == CivilFromDays(days)
           hour == time \div 3600
           minute == (time % 3600) \div 60
           second == time % 60
           date == http_date(secs)
<1>0. /\ days \in Nat /\ time \in Int /\ 0 <= time /\ time < DaySecs
      /\ days * DaySecs + time = secs
  BY SMT DEF DaySecs
<1> HIDE DEF time, days
<1>1. /\ hour \in 0..23 /\ minute \in 0..59 /\ second \in 0..59
      /\ hour * 3600 + minute * 60 + second = time
  BY <1>0, TimeOfDay
<1>2. /\ date.day = c.day /\ date.month = c.month /\ date.year = c.year
      /\ date.hour = hour /\ date.minute = minute /\ date.second = second
  <2> DEFINE weekday == ((days % 7) + 4) % 7
  <2>1. date = [weekday |-> weekday, day |-> c.day, month |-> c.month, year |-> c.year,
                hour |-> hour, minute |-> minute, second |-> second]
    BY Zenon DEF http_date, days, time
  <2> HIDE DEF weekday, c, hour, minute, second, date
  <2>2. QED
    BY <2>1
<1> HIDE DEF hour, minute, second, date
<1>3. c.day \in 1..31 /\ DaysFromCivil(c.year, c.month, c.day) = days
  BY <1>0, DaysRoundTrip
<1> HIDE DEF c
<1>4. /\ date.day \in 1..31
      /\ date.hour <= 23 /\ date.minute <= 59 /\ date.second <= 60
      /\ DaysFromCivil(date.year, date.month, date.day) = days
      /\ days >= 0
  BY <1>0, <1>1, <1>2, <1>3
<1>5. parse_http_date(date) =
        days * DaySecs + date.hour * 3600 + date.minute * 60 + date.second
  <2> DEFINE parsed == DaysFromCivil(date.year, date.month, date.day)
  <2>1. parsed = days /\ parsed >= 0
    BY <1>4
  <2> HIDE DEF parsed
  <2>2. parse_http_date(date) =
          parsed * DaySecs + date.hour * 3600 + date.minute * 60 + date.second
    BY <1>4, <2>1 DEF parse_http_date, parsed
  <2> QED
    BY <2>1, <2>2
<1>6. days * DaySecs \in Int
  BY <1>0, SMT DEF DaySecs
<1>7. parse_http_date(date) = secs
  BY <1>0, <1>1, <1>2, <1>5, <1>6, SMT
<1> QED
  BY <1>7 DEF date

-----------------------------------------------------------------------------
(* The calendar the dates are measured by.                                   *)

Leap(year) == year % 4 = 0 /\ (year % 100 # 0 \/ year % 400 = 0)

DaysIn(year, month) ==
    IF month = 2 THEN (IF Leap(year) THEN 29 ELSE 28)
    ELSE IF month \in {4, 6, 9, 11} THEN 30 ELSE 31

\* The day that follows a civil date.
DayAfter(c) ==
    IF c.day < DaysIn(c.year, c.month)
    THEN [year |-> c.year, month |-> c.month, day |-> c.day + 1]
    ELSE IF c.month < 12 THEN [year |-> c.year, month |-> c.month + 1, day |-> 1]
                         ELSE [year |-> c.year + 1, month |-> 1, day |-> 1]

\* The last day of the year that begins in March of the given year.
LastDay(year) == IF Leap(year + 1) THEN 365 ELSE 364

LEMMA LeapAlike ==
    ASSUME NEW year, NEW other, other % 4 = year % 4, other % 100 = year % 100, other % 400 = year % 400
    PROVE  Leap(other) <=> Leap(year)
BY ZenonT(40) DEF Leap

\* Eras are alike.
LEMMA LeapPeriod ==
    ASSUME NEW year \in Int, NEW era \in Int
    PROVE  Leap(year + era * 400) <=> Leap(year)
<1> DEFINE other == year + era * 400
<1>1. other % 4 = year % 4
  BY SMT
<1>2. other % 100 = year % 100
  BY SMT
<1>3. other % 400 = year % 400
  BY SMT
<1> HIDE DEF other
<1>4. Leap(other) <=> Leap(year)
  BY ONLY <1>1, <1>2, <1>3, LeapAlike
<1> QED
  BY <1>4 DEF other

\* The next day is in the same era, or the first of the next one.
LEMMA EraStep ==
    ASSUME NEW z \in Int
    PROVE  \/ /\ DayOfEra(z) < EraDays - 1
              /\ EraOf(z + 1) = EraOf(z) /\ DayOfEra(z + 1) = DayOfEra(z) + 1
           \/ /\ DayOfEra(z) = EraDays - 1
              /\ EraOf(z + 1) = EraOf(z) + 1 /\ DayOfEra(z + 1) = 0
  BY SMT DEF EraOf, DayOfEra, EraDays

\* Within an era the next day is in the same year, or the first of the next one.
LEMMA YearStep ==
    ASSUME NEW doe \in Int, 0 <= doe, doe < EraDays - 1
    PROVE  \/ /\ DayOfYear(doe) < LastDay(YearOfEra(doe))
              /\ YearOfEra(doe + 1) = YearOfEra(doe)
              /\ DayOfYear(doe + 1) = DayOfYear(doe) + 1
           \/ /\ DayOfYear(doe) = LastDay(YearOfEra(doe))
              /\ YearOfEra(doe + 1) = YearOfEra(doe) + 1
              /\ DayOfYear(doe + 1) = 0
  BY SMTT(60) DEF EraDays, YearOfEra, DayOfYear, YearStart, LastDay, Leap

\* An era ends with a leap day.
LEMMA EraEnds ==
    /\ YearOfEra(EraDays - 1) = 399 /\ DayOfYear(EraDays - 1) = LastDay(399)
    /\ YearOfEra(0) = 0 /\ DayOfYear(0) = 0
  BY SMT DEF EraDays, YearOfEra, DayOfYear, YearStart, LastDay, Leap

\* Within a year the next day is in the same month, or the first of the next one.
LEMMA MonthStep ==
    ASSUME NEW doy \in Int, 0 <= doy, doy < 365
    PROVE  LET mp == MonthOf(doy)
               length == IF mp \in {1, 3, 6, 8} THEN 30 ELSE 31
               day == doy - MonthStart(mp) + 1
           IN  \/ /\ mp = 11 \/ day < length
                  /\ MonthOf(doy + 1) = mp
               \/ /\ mp < 11 /\ day = length
                  /\ MonthOf(doy + 1) = mp + 1
                  /\ MonthStart(mp + 1) = doy + 1
  BY SMTT(30) DEF MonthOf, MonthStart

\* The year that begins in March, and the day of that year, of a day count.
MarchYear(z) == YearOfEra(DayOfEra(z)) + EraOf(z) * 400
MarchDay(z) == DayOfYear(DayOfEra(z))

LEMMA MarchBounds ==
    ASSUME NEW z \in Int
    PROVE  MarchYear(z) \in Int /\ MarchDay(z) \in Int /\ 0 <= MarchDay(z) /\ MarchDay(z) <= 365
<1>1. /\ DayOfEra(z) \in Int /\ 0 <= DayOfEra(z) /\ DayOfEra(z) <= EraDays - 1
      /\ EraOf(z) \in Int
  BY EraBounds, Quotients
<1>2. YearOfEra(DayOfEra(z)) \in Int /\ MarchDay(z) \in Int
  BY <1>1, Quotients DEF MarchDay
<1>3. 0 <= MarchDay(z) /\ MarchDay(z) <= 365
  BY <1>1, YearBounds DEF MarchDay
<1>4. MarchYear(z) \in Int
  BY <1>1, <1>2, SMT DEF MarchYear
<1> QED
  BY <1>2, <1>3, <1>4

\* The next day is in the same March year or the first of the next one, also
\* from one era to the next.
LEMMA MarchStep ==
    ASSUME NEW z \in Int
    PROVE  \/ /\ MarchDay(z) < LastDay(MarchYear(z))
              /\ MarchYear(z + 1) = MarchYear(z) /\ MarchDay(z + 1) = MarchDay(z) + 1
           \/ /\ MarchDay(z) = LastDay(MarchYear(z))
              /\ MarchYear(z + 1) = MarchYear(z) + 1 /\ MarchDay(z + 1) = 0
<1> DEFINE era == EraOf(z)
           doe == DayOfEra(z)
           yoe == YearOfEra(doe)
<1>1. era \in Int /\ doe \in Int /\ 0 <= doe /\ doe <= EraDays - 1 /\ yoe \in Int
  BY EraBounds, Quotients
<1>2. LastDay(MarchYear(z)) = LastDay(yoe)
  <2>1. MarchYear(z) + 1 = (yoe + 1) + era * 400
    BY <1>1, SMT DEF MarchYear
  <2>2. Leap((yoe + 1) + era * 400) <=> Leap(yoe + 1)
    <3>1. yoe + 1 \in Int
      BY <1>1
    <3> DEFINE y == yoe + 1
    <3> HIDE DEF y
    <3>2. Leap(y + era * 400) <=> Leap(y)
      BY <1>1, <3>1, LeapPeriod DEF y
    <3> QED
      BY <3>2, Zenon DEF y
  <2> QED
    BY <2>1, <2>2 DEF LastDay
<1>3. CASE doe < EraDays - 1
  <2>1. EraOf(z + 1) = era /\ DayOfEra(z + 1) = doe + 1
    BY <1>1, <1>3, EraStep
  <2>2. \/ /\ DayOfYear(doe) < LastDay(yoe)
           /\ YearOfEra(doe + 1) = yoe /\ DayOfYear(doe + 1) = DayOfYear(doe) + 1
        \/ /\ DayOfYear(doe) = LastDay(yoe)
           /\ YearOfEra(doe + 1) = yoe + 1 /\ DayOfYear(doe + 1) = 0
    BY <1>1, <1>3, YearStep
  <2>3. MarchYear(z + 1) = YearOfEra(doe + 1) + era * 400 /\ MarchDay(z + 1) = DayOfYear(doe + 1)
    BY <2>1 DEF MarchYear, MarchDay
  <2>4. MarchYear(z) = yoe + era * 400 /\ MarchDay(z) = DayOfYear(doe)
    BY DEF MarchYear, MarchDay
  <2>5. (yoe + 1) + era * 400 = (yoe + era * 400) + 1
    BY <1>1, SMT
  <2> QED
    BY <1>2, <2>2, <2>3, <2>4, <2>5
<1>4. CASE doe = EraDays - 1
  <2>1. EraOf(z + 1) = era + 1 /\ DayOfEra(z + 1) = 0
    BY <1>1, <1>4, EraStep
  <2>2. yoe = 399 /\ DayOfYear(doe) = LastDay(yoe)
    BY <1>4, EraEnds
  <2>3. MarchYear(z + 1) = 0 + (era + 1) * 400 /\ MarchDay(z + 1) = 0
    BY <2>1, EraEnds DEF MarchYear, MarchDay
  <2>4. MarchYear(z) = 399 + era * 400 /\ MarchDay(z) = DayOfYear(doe)
    BY <2>2 DEF MarchYear, MarchDay
  <2>5. 0 + (era + 1) * 400 = (399 + era * 400) + 1
    BY <1>1, SMT
  <2> QED
    BY <1>2, <2>2, <2>3, <2>4, <2>5
<1> QED
  BY <1>1, <1>3, <1>4, SMT DEF EraDays

\* The civil date of a day of a March year.
MarchCivil(year, doy) == Civil(year, MonthOf(doy), doy - MonthStart(MonthOf(doy)) + 1)

\* The day after a day of a March year, in both of the cases of MarchStep.
LEMMA CivilStep ==
    ASSUME NEW year \in Int, NEW doy \in Int, 0 <= doy, doy <= LastDay(year)
    PROVE  /\ doy < LastDay(year) =>
                DayAfter(MarchCivil(year, doy)) = MarchCivil(year, doy + 1)
           /\ doy = LastDay(year) =>
                DayAfter(MarchCivil(year, doy)) = MarchCivil(year + 1, 0)
<1> DEFINE mp == MonthOf(doy)
           day == doy - MonthStart(mp) + 1
           next == MonthOf(doy + 1)
           length == IF mp \in {1, 3, 6, 8} THEN 30 ELSE 31
           month == IF mp < 10 THEN mp + 3 ELSE mp - 9
           shown == IF month <= 2 THEN year + 1 ELSE year
           c == Civil(year, mp, day)
<1>1. LastDay(year) \in {364, 365}
  BY DEF LastDay
<1>2. doy <= 365
  BY <1>1
<1>3. /\ mp \in Int /\ 0 <= mp /\ mp <= 11 /\ MonthStart(mp) \in Int
      /\ 1 <= day /\ day <= 31 /\ day \in Int
  BY <1>2, MonthBounds, Quotients
<1>4. c = [year |-> shown, month |-> month, day |-> day]
  BY DEF Civil
<1>5. mp = 11 => day = doy - 336
  BY SMT DEF MonthStart
<1>6. DaysIn(shown, month) = IF mp = 11 THEN (IF Leap(year + 1) THEN 29 ELSE 28) ELSE length
  BY <1>3 DEF DaysIn
<1>7. ASSUME doy < LastDay(year)
      PROVE  DayAfter(c) = Civil(year, next, (doy + 1) - MonthStart(next) + 1)
  <2>1. \/ /\ mp = 11 \/ day < length
           /\ next = mp
        \/ /\ mp < 11 /\ day = length
           /\ next = mp + 1
           /\ MonthStart(mp + 1) = doy + 1
    BY <1>1, <1>7, MonthStep
  <2> HIDE DEF mp, next
  <2>2. CASE next = mp /\ (mp = 11 \/ day < length)
    <3>1. day < DaysIn(shown, month)
      BY <1>3, <1>5, <1>6, <1>7, <2>2 DEF LastDay
    <3>2. (doy + 1) - MonthStart(next) + 1 = day + 1
      BY <1>3, <2>2
    <3>3. DayAfter(c) = [year |-> shown, month |-> month, day |-> day + 1]
      BY <1>4, <3>1 DEF DayAfter
    <3> QED
      BY <2>2, <3>2, <3>3 DEF Civil
  <2>3. CASE mp < 11 /\ day = length /\ next = mp + 1 /\ MonthStart(mp + 1) = doy + 1
    <3>1. day = DaysIn(shown, month)
      BY <1>3, <1>6, <2>3
    <3>2. (doy + 1) - MonthStart(next) + 1 = 1
      BY <1>3, <2>3
    <3>3. DayAfter(c) = IF month < 12 THEN [year |-> shown, month |-> month + 1, day |-> 1]
                                      ELSE [year |-> shown + 1, month |-> 1, day |-> 1]
      BY <1>3, <1>4, <3>1 DEF DayAfter
    <3>4. Civil(year, next, 1) = IF month < 12 THEN [year |-> shown, month |-> month + 1, day |-> 1]
                                      ELSE [year |-> shown + 1, month |-> 1, day |-> 1]
      BY <1>3, <2>3, SMT DEF Civil
    <3> QED
      BY <3>2, <3>3, <3>4
  <2> QED
    BY <2>1, <2>2, <2>3
<1>8. ASSUME doy = LastDay(year)
      PROVE  DayAfter(c) = Civil(year + 1, 0, 1)
  <2>1. mp = 11
    BY <1>1, <1>8, SMT DEF MonthOf
  <2>2. shown = year + 1 /\ month = 2
    BY <2>1
  <2>3. day = DaysIn(shown, month)
    BY <1>5, <1>6, <1>8, <2>1 DEF LastDay
  <2>4. DayAfter(c) = [year |-> year + 1, month |-> 3, day |-> 1]
    BY <1>3, <1>4, <2>2, <2>3 DEF DayAfter
  <2> QED
    BY <2>4 DEF Civil
<1>9. MarchCivil(year + 1, 0) = Civil(year + 1, 0, 1)
  <2>1. MonthOf(0) = 0 /\ MonthStart(0) = 0
    BY SMT DEF MonthOf, MonthStart
  <2> QED
    BY <2>1 DEF MarchCivil
<1>10. /\ MarchCivil(year, doy) = c
       /\ MarchCivil(year, doy + 1) = Civil(year, next, (doy + 1) - MonthStart(next) + 1)
  BY Zenon DEF MarchCivil
<1> HIDE DEF c, next
<1> QED
  BY <1>7, <1>8, <1>9, <1>10, Zenon

\* civil_from_days counts the days of the Gregorian calendar: day 0 is
\* 1970-01-01, and each day is followed by the next one of the calendar,
\* through month ends, leap days and centuries.
THEOREM CalendarDays ==
    /\ CivilFromDays(0) = [year |-> 1970, month |-> 1, day |-> 1]
    /\ \A days \in Nat : CivilFromDays(days + 1) = DayAfter(CivilFromDays(days))
<1>1. CivilFromDays(0) = [year |-> 1970, month |-> 1, day |-> 1]
  <2>1. EraOf(EpochOffset) = 4 /\ DayOfEra(EpochOffset) = 135080
    BY SMT DEF EraOf, DayOfEra, EraDays, EpochOffset
  <2>2. YearOfEra(135080) = 369 /\ DayOfYear(135080) = 306
    BY SMT DEF YearOfEra, DayOfYear, YearStart, EraDays
  <2>3. MonthOf(306) = 10 /\ MonthStart(10) = 306
    BY SMT DEF MonthOf, MonthStart
  <2>4. 0 + EpochOffset = EpochOffset
    BY SMT DEF EpochOffset
  <2>5. CivilFromDays(0) = Civil(369 + 4 * 400, 10, 306 - 306 + 1)
    BY <2>1, <2>2, <2>3, <2>4, SMT DEF CivilFromDays
  <2> QED
    BY <2>5, SMT DEF Civil
<1>2. ASSUME NEW days \in Nat
      PROVE  CivilFromDays(days + 1) = DayAfter(CivilFromDays(days))
  <2> DEFINE z == days + EpochOffset
  <2>1. z \in Int /\ (days + 1) + EpochOffset = z + 1
    BY SMT DEF EpochOffset
  <2>2. CivilFromDays(days) = MarchCivil(MarchYear(z), MarchDay(z))
    BY DEF CivilFromDays, MarchCivil, MarchYear, MarchDay
  <2>3. CivilFromDays(days + 1) = MarchCivil(MarchYear(z + 1), MarchDay(z + 1))
    BY <2>1 DEF CivilFromDays, MarchCivil, MarchYear, MarchDay
  <2> HIDE DEF z
  <2>4. /\ MarchYear(z) \in Int /\ MarchDay(z) \in Int /\ 0 <= MarchDay(z)
        /\ LastDay(MarchYear(z)) \in Int
    BY <2>1, MarchBounds DEF LastDay
  <2>5. CASE /\ MarchDay(z) < LastDay(MarchYear(z))
             /\ MarchYear(z + 1) = MarchYear(z) /\ MarchDay(z + 1) = MarchDay(z) + 1
    <3>1. MarchDay(z) <= LastDay(MarchYear(z))
      BY <2>4, <2>5
    <3> QED
      BY <2>2, <2>3, <2>4, <2>5, <3>1, CivilStep
  <2>6. CASE /\ MarchDay(z) = LastDay(MarchYear(z))
             /\ MarchYear(z + 1) = MarchYear(z) + 1 /\ MarchDay(z + 1) = 0
    <3>1. MarchDay(z) <= LastDay(MarchYear(z))
      BY <2>4, <2>6
    <3> QED
      BY <2>2, <2>3, <2>4, <2>6, <3>1, CivilStep
  <2> QED
    BY <2>1, <2>5, <2>6, MarchStep
<1> QED
  BY <1>1, <1>2

-----------------------------------------------------------------------------
(* The handler. *)


Candidates(j) == candidate_paths(RequestPath(j.request.target))

\* The request in hand is a record, and what it has left to try are
\* candidates of its path.
JobShape == DOMAIN job = {"stage", "request", "left", "mtime", "seen", "quiet"}

LeftToTry ==
    job.stage \in {"stat", "read", "probe"} => job.left \in Seq(Range(Candidates(job)))

\* What load has looked up, and is about to read, is in the root.
LookedUp ==
    job.stage = "read" =>
        /\ job.left # <<>>
        /\ IsUnder(Canonical(Root \o Head(job.left)), Root)
        /\ follow \/ ~traverses_symlink(Head(job.left))

RootInv == JobShape /\ LeftToTry /\ LookedUp /\ StaysInRoot

-----------------------------------------------------------------------------
\* The candidates of a path are a sequence.
LEMMA CandidatesAreListed ==
    ASSUME NEW path
    PROVE  candidate_paths(path) \in Seq(Range(candidate_paths(path)))
<1> DEFINE decoded == percent_decode(path)
           segments == sanitize(decoded)
           indexed == [i \in DOMAIN IndexFiles |-> Append(segments, IndexFiles[i])]
<1>1. candidate_paths(path) \in {<<>>, indexed, <<segments>>}
  BY Zenon DEF candidate_paths
<1>2. <<>> \in Seq(Range(<<>>))
  OBVIOUS
<1>3. indexed \in Seq(Range(indexed))
  <2>1. DOMAIN indexed = 1..Len(IndexFiles) /\ Len(IndexFiles) \in Nat
    BY IndexFilesAssumption
  <2> HIDE DEF indexed
  <2>2. \A i \in 1..Len(IndexFiles) : indexed[i] \in Range(indexed)
    BY <2>1 DEF Range
  <2>3. indexed = [i \in 1..Len(IndexFiles) |-> indexed[i]]
    BY <2>1, Zenon DEF indexed
  <2> QED
    BY <2>1, <2>2, <2>3
<1>4. <<segments>> \in Seq(Range(<<segments>>))
  <2> HIDE DEF segments
  <2>1. segments \in Range(<<segments>>)
    BY DEF Range
  <2> QED
    BY <2>1
<1> QED
  BY <1>1, <1>2, <1>3, <1>4, Zenon

\* An answer goes out with the file that it is made of.
LEMMA SentFile ==
    ASSUME NEW request, NEW response, NEW file, Send(request, response, file)
    PROVE  answer'.file = file /\ answer'.request = request /\ job' = NoJob
  BY DEF Send, Given

\* Looking a file up, and reading it later, keeps to the root.
LEMMA InRoot ==
    ASSUME NEW candidate, Resolves(candidate, follow, Present)
    PROVE  /\ IsUnder(Canonical(Root \o candidate), Root)
           /\ follow \/ ~traverses_symlink(candidate)
  BY Zenon DEF Resolves

\* An answer that is made of no file is of no concern.
LEMMA NoFileNoHarm ==
    ASSUME answer' = NoAnswer \/ answer'.file = <<>>
    PROVE  StaysInRoot'
  BY DEF StaysInRoot

LEMMA IdleInv ==
    ASSUME job' = NoJob
    PROVE  JobShape' /\ LeftToTry' /\ LookedUp'
  BY DEF NoJob, JobShape, LeftToTry, LookedUp

\* What is left after the first is still among the candidates.
LEMMA TailLeft ==
    ASSUME NEW S, NEW s \in Seq(S), s # <<>>
    PROVE  Head(s) \in S /\ Tail(s) \in Seq(S)
  OBVIOUS

-----------------------------------------------------------------------------
LEMMA InitRoot == Init => RootInv
  BY DEF Init, RootInv, NoJob, JobShape, LeftToTry, LookedUp, StaysInRoot

LEMMA NextRoot == RootInv /\ [Next]_vars => RootInv'
<1> SUFFICES ASSUME RootInv, [Next]_vars PROVE RootInv'
  OBVIOUS
<1> USE DEF RootInv
<1>1. ASSUME NEW request \in Requests, Deny(request) PROVE RootInv'
  <2>1. answer'.file = <<>>
    BY <1>1 DEF Deny, Given
  <2>2. UNCHANGED <<job, follow>>
    BY <1>1 DEF Deny
  <2> QED
    BY <2>1, <2>2, NoFileNoHarm DEF JobShape, LeftToTry, LookedUp, Candidates
<1>2. ASSUME NEW request \in Requests, Allow(request) PROVE RootInv'
  <2>1. job'.stage = "dispatch" /\ JobShape'
    BY <1>2 DEF Allow, NoJob, JobShape
  <2>2. answer' = NoAnswer
    BY <1>2 DEF Allow, Silently
  <2> QED
    BY <2>1, <2>2, NoFileNoHarm DEF LeftToTry, LookedUp
<1>3. CASE dispatch
  <2>1. CASE \E response : Answer(response)
    BY <2>1, SentFile, NoFileNoHarm, IdleInv DEF Answer
  <2>2. CASE /\ job' = IF job.request.method \in {"GET", "HEAD"}
                       THEN [job EXCEPT !.stage = "stat",
                                        !.left = candidate_paths(RequestPath(job.request.target))]
                       ELSE [job EXCEPT !.stage = "discover"]
             /\ Silently
    <3>1. answer' = NoAnswer
      BY <2>2 DEF Silently
    <3>2. JobShape' /\ LookedUp'
      BY <2>2 DEF JobShape, LookedUp
    <3>3. job'.stage = "stat" => job'.left = Candidates(job)'
      BY <2>2 DEF JobShape, Candidates
    <3>4. job'.stage \in {"stat", "discover"}
      BY <2>2 DEF JobShape
    <3> QED
      BY <3>1, <3>2, <3>3, <3>4, NoFileNoHarm, CandidatesAreListed DEF LeftToTry, Candidates
  <2> QED
    BY <1>3, <2>1, <2>2, Zenon DEF dispatch
<1>4. CASE Stat
  <2> DEFINE candidate == Head(job.left)
  <2>1. answer' = NoAnswer /\ follow' = follow
    BY <1>4 DEF Stat, Silently
  <2>2. candidate \in Range(Candidates(job)) /\ Tail(job.left) \in Seq(Range(Candidates(job)))
    BY <1>4, TailLeft DEF Stat, LeftToTry
  <2>3. CASE /\ Resolves(candidate, follow, Present)
             /\ job' = [job EXCEPT !.stage = "read",
                                   !.mtime = files[Canonical(Root \o candidate)].mtime]
    <3>1. JobShape' /\ job'.stage = "read" /\ job'.left = job.left /\ job'.request = job.request
      BY <2>3 DEF JobShape
    <3>2. LookedUp'
      BY <1>4, <2>1, <2>3, <3>1, InRoot DEF Stat, LookedUp
    <3>3. LeftToTry'
      BY <1>4, <3>1 DEF Stat, LeftToTry, Candidates
    <3> QED
      BY <2>1, <3>1, <3>2, <3>3, NoFileNoHarm
  <2>4. CASE job' = [job EXCEPT !.left = Tail(@)]
    <3>1. /\ JobShape' /\ job'.stage = "stat" /\ job'.left = Tail(job.left)
          /\ job'.request = job.request
      BY <1>4, <2>4 DEF JobShape, Stat
    <3> QED
      BY <2>1, <2>2, <3>1, NoFileNoHarm DEF LeftToTry, LookedUp, Candidates
  <2> QED
    BY <1>4, <2>3, <2>4, Zenon DEF Stat
<1>5. CASE Read
  <2> DEFINE candidate == Head(job.left)
             file == Canonical(Root \o candidate)
  <2>1. follow' = follow
    BY <1>5 DEF Read
  <2>2. CASE \E response : Send(job.request, response, file)
    <3>1. answer'.file = file /\ answer'.request = job.request /\ job' = NoJob
      BY <2>2, SentFile
    <3>2. IsUnder(file, Root) /\ (follow \/ ~traverses_symlink(candidate))
      BY <1>5 DEF Read, LookedUp
    <3>3. candidate \in Range(Candidates(job))
      BY <1>5, TailLeft DEF Read, LookedUp, LeftToTry
    <3>4. ~follow => file = Root \o candidate
      BY <3>2, Zenon DEF traverses_symlink, Canonical
    <3>5. StaysInRoot'
      BY <2>1, <3>1, <3>2, <3>3, <3>4 DEF StaysInRoot, Candidates, Range
    <3> QED
      BY <3>1, <3>5, IdleInv
  <2>3. CASE job' = [job EXCEPT !.stage = "stat", !.left = Tail(@)] /\ Silently
    <3>1. /\ JobShape' /\ job'.stage = "stat" /\ job'.left = Tail(job.left)
          /\ job'.request = job.request /\ answer' = NoAnswer
      BY <2>3 DEF JobShape, Silently
    <3>2. Tail(job.left) \in Seq(Range(Candidates(job)))
      BY <1>5, TailLeft DEF Read, LookedUp, LeftToTry
    <3> QED
      BY <3>1, <3>2, NoFileNoHarm DEF LeftToTry, LookedUp, Candidates
  <2> QED
    BY <1>5, <2>2, <2>3, Zenon DEF Read
<1>6. CASE Miss
  <2>1. JobShape' /\ job'.stage = "discover" /\ answer' = NoAnswer
    BY <1>6 DEF Miss, JobShape, Silently
  <2> QED
    BY <2>1, NoFileNoHarm DEF LeftToTry, LookedUp
<1>7. CASE Discover
  <2>1. CASE \E response : Answer(response)
    BY <2>1, SentFile, NoFileNoHarm, IdleInv DEF Answer
  <2>2. CASE /\ job' = [job EXCEPT !.stage = "probe",
                                   !.left = candidate_paths(RequestPath(job.request.target))]
             /\ Silently
    <3>1. /\ JobShape' /\ job'.stage = "probe" /\ job'.left = Candidates(job)'
          /\ answer' = NoAnswer
      BY <2>2 DEF JobShape, Candidates, Silently
    <3> QED
      BY <3>1, NoFileNoHarm, CandidatesAreListed DEF LeftToTry, LookedUp, Candidates
  <2> QED
    BY <1>7, <2>1, <2>2, Zenon DEF Discover
<1>8. CASE Probe
  <2>1. CASE \E response : Answer(response)
    BY <2>1, SentFile, NoFileNoHarm, IdleInv DEF Answer
  <2>2. CASE job.left # <<>> /\ job' = [job EXCEPT !.left = Tail(@)] /\ Silently
    <3>1. /\ JobShape' /\ job'.stage = "probe" /\ job'.left = Tail(job.left)
          /\ job'.request = job.request /\ answer' = NoAnswer
      BY <1>8, <2>2 DEF Probe, JobShape, Silently
    <3>2. Tail(job.left) \in Seq(Range(Candidates(job)))
      BY <1>8, <2>2, TailLeft DEF Probe, LeftToTry
    <3> QED
      BY <3>1, <3>2, NoFileNoHarm DEF LeftToTry, LookedUp, Candidates
  <2> QED
    BY <1>8, <2>1, <2>2, Zenon DEF Probe
<1>9. ASSUME answer' = NoAnswer, UNCHANGED follow, DOMAIN job' = DOMAIN job,
             job'.stage = job.stage, job'.left = job.left, job'.request = job.request
      PROVE  RootInv'
  BY <1>9, NoFileNoHarm DEF JobShape, LeftToTry, LookedUp, Candidates
<1>10. CASE Deliver \/ Tick
  BY <1>9, <1>10 DEF Deliver, Tick, Silently
<1>11. ASSUME NEW f \in Files, Unlink(f) \/ \E len \in Lengths[f] : Write(f, len)
       PROVE  RootInv'
  <2>1. answer' = NoAnswer /\ follow' = follow
    BY <1>11 DEF Unlink, Write
  <2>2. /\ DOMAIN job' = DOMAIN job
        /\ job'.stage = job.stage /\ job'.left = job.left /\ job'.request = job.request
    BY <1>11 DEF Unlink, Write, JobShape
  <2> QED
    BY <1>9, <2>1, <2>2
<1>12. CASE UNCHANGED vars
  BY <1>12 DEF vars, JobShape, LeftToTry, LookedUp, Candidates, StaysInRoot
<1> QED
  BY <1>1, <1>2, <1>3, <1>4, <1>5, <1>6, <1>7, <1>8, <1>10, <1>11, <1>12, Zenon DEF Next

\* Whatever the links, the requests and the changes to files, an answer made
\* of a file is made of one in the document root, and without follow_symlinks
\* of the one that the path names.
THEOREM RootKept == Spec => []StaysInRoot
<1>1. RootInv => StaysInRoot
  BY DEF RootInv
<1> QED
  BY <1>1, InitRoot, NextRoot, PTL DEF Spec
-----------------------------------------------------------------------------
\* A Range field of a file of any length is ignored exactly if it is not
\* valid, its end not left unread; else it is resolved to the positions it asks for, which are in the
\* file, or found unsatisfiable because there are none.  So the slice that
\* apply_range takes of the body is never out of bounds.
THEOREM RangesAsAsked ==
    ASSUME NEW len \in Nat, NEW range,
           range.single \in BOOLEAN,
           range.first \in Nat \cup {Empty, Garbled},
           range.last \in Nat \cup {Empty, Garbled}
    PROVE  LET r == ParseSingleRange(range, len)
           IN  /\ r.kind = "ignored" <=> ~Valid(range) /\ ~EndUnread(range, len)
               /\ r.kind = "satisfiable" =>
                    /\ 0 <= r.start /\ r.start <= r.end /\ r.end < len
                    /\ r.start..r.end = Wanted(range, len)
               /\ r.kind = "unsatisfiable" => Wanted(range, len) = {}
<1> DEFINE first == range.first
           last == range.last
<1> USE DEF Empty, Garbled, Ignored, Unsatisfiable, Satisfiable, Lower, Valid, EndUnread, Wanted
<1>1. CASE ~range.single
  BY <1>1 DEF ParseSingleRange
<1>2. CASE range.single /\ first = Empty
  <2>1. ParseSingleRange(range, len) = SuffixRange(last, len)
    BY <1>2 DEF ParseSingleRange
  <2>2. CASE last \in Nat \ {0} /\ len > 0
    <3>1. SuffixRange(last, len) =
            [kind |-> "satisfiable", start |-> IF last < len THEN len - last ELSE 0, end |-> len - 1]
      BY <2>2 DEF SuffixRange
    <3> QED
      BY <1>2, <2>1, <2>2, <3>1
  <2>3. CASE ~(last \in Nat \ {0} /\ len > 0)
    BY <1>2, <2>1, <2>3 DEF SuffixRange
  <2> QED
    BY <2>2, <2>3
<1>3. CASE range.single /\ first # Empty
  <2>1. ParseSingleRange(range, len) = FromRange(first, last, len)
    BY <1>3 DEF ParseSingleRange
  <2>2. CASE first \in Nat /\ first < len /\ (last = Empty \/ last >= first)
    <3>1. FromRange(first, last, len) =
            [kind |-> "satisfiable", start |-> first,
             end |-> IF last = Empty \/ last >= len - 1 THEN len - 1 ELSE last]
      BY <2>2 DEF FromRange
    <3> QED
      BY <1>3, <2>1, <2>2, <3>1
  <2>3. CASE ~(first \in Nat /\ first < len /\ (last = Empty \/ last >= first))
    BY <1>3, <2>1, <2>3 DEF FromRange
  <2> QED
    BY <2>2, <2>3
<1> QED
  BY <1>1, <1>2, <1>3
-----------------------------------------------------------------------------
(* Types, and the truth of a 304.  Responses first: what post_process and     *)
(* evaluate keep.                                                             *)

IsResponse(r) == DOMAIN r = {"status", "headers", "body"}

LEMMA HeaderAdded ==
    ASSUME NEW r, IsResponse(r), NEW name, NEW value
    PROVE  /\ IsResponse(WithHeader(r, name, value))
           /\ WithHeader(r, name, value).status = r.status
           /\ WithHeader(r, name, value).body = r.body
           /\ WithHeader(r, name, value).headers = Joined(r.headers, Field(name, value))
  BY DEF IsResponse, WithHeader

LEMMA PlainResponse ==
    ASSUME NEW status
    PROVE  /\ IsResponse(Response(status)) /\ Response(status).status = status
           /\ IsResponse(Text(status)) /\ Text(status).status = status
           /\ IsResponse(Json(status)) /\ Json(status).status = status
  BY DEF IsResponse, Response, Text, Json, Typed

\* post_process may compress the body and add fields, and keeps all else.
LEMMA PostProcessed ==
    ASSUME NEW request, NEW r, IsResponse(r)
    PROVE  LET w == post_process(request, r)
           IN  /\ w.status = r.status /\ w.body \in {r.body, <<[gzip |-> r.body]>>}
               /\ \A n \in DOMAIN r.headers : n \in DOMAIN w.headers /\ w.headers[n] = r.headers[n]
<1> DEFINE once == [r EXCEPT !.body = <<[gzip |-> @]>>]
           twice == WithHeader(once, "Content-Encoding", "gzip")
           zipped == WithHeader(twice, "Vary", "Accept-Encoding")
           w == post_process(request, r)
<1>1. IsResponse(once) /\ once.status = r.status /\ once.body = <<[gzip |-> r.body]>> /\ once.headers = r.headers
  BY DEF IsResponse
<1>2. \A f, g : \A n \in DOMAIN f : n \in DOMAIN Joined(f, g) /\ Joined(f, g)[n] = f[n]
  BY DEF Joined
<1>3. /\ IsResponse(twice) /\ twice.status = r.status /\ twice.body = <<[gzip |-> r.body]>>
      /\ \A n \in DOMAIN r.headers : n \in DOMAIN twice.headers /\ twice.headers[n] = r.headers[n]
  <2> HIDE DEF once
  <2> QED BY <1>1, <1>2, HeaderAdded
<1>4. /\ zipped.status = r.status /\ zipped.body = <<[gzip |-> r.body]>>
      /\ \A n \in DOMAIN r.headers : n \in DOMAIN zipped.headers /\ zipped.headers[n] = r.headers[n]
  <2> HIDE DEF twice
  <2> QED BY <1>2, <1>3, HeaderAdded
<1>5. w = zipped \/ w = r
  BY Zenon DEF post_process
<1> HIDE DEF zipped, w
<1>6. /\ w.status = r.status /\ w.body \in {r.body, <<[gzip |-> r.body]>>}
      /\ \A n \in DOMAIN r.headers : n \in DOMAIN w.headers /\ w.headers[n] = r.headers[n]
  BY <1>4, <1>5
<1> QED
  BY <1>6 DEF w

LEMMA StatusSent ==
    ASSUME NEW request, NEW r, IsResponse(r), NEW file, Send(request, r, file)
    PROVE  answer'.status = r.status
  BY PostProcessed DEF Send, Given, Serialize

\* What evaluate makes of a file: the file itself, a part, or a status alone.
LEMMA Evaluated ==
    ASSUME NEW request, NEW path, NEW bytes, NEW mtime
    PROVE  LET found == file_response(path, bytes, mtime)
               range == ParseSingleRange(request.headers["range"], Len(found.body))
               r == Evaluate(request, found)
           IN  /\ IsResponse(r)
               /\ r.status \in {200, 206, 304, 416}
               /\ r.status = 304 => NotModified(request, found)
               /\ r.status = 200 => r = found /\ (Has(request, "range") => range.kind = "ignored")
               /\ r.status = 206 => /\ r = Partial(found, range) /\ Has(request, "range")
                                    /\ range.kind = "satisfiable"
               /\ r.status = 416 => /\ r = NotSatisfiable(found) /\ Has(request, "range")
                                    /\ range.kind = "unsatisfiable"
<1> DEFINE found == file_response(path, bytes, mtime)
           range == ParseSingleRange(request.headers["range"], Len(found.body))
<1>1. IsResponse(found) /\ found.status = 200
  BY DEF IsResponse, file_response
<1> HIDE DEF found
<1>2. range.kind \in {"ignored", "satisfiable", "unsatisfiable"}
  <2>1. \A n, len : SuffixRange(n, len).kind \in {"ignored", "satisfiable", "unsatisfiable"}
    BY Zenon DEF SuffixRange, Ignored, Unsatisfiable, Satisfiable
  <2>2. \A first, last, len : FromRange(first, last, len).kind \in {"ignored", "satisfiable", "unsatisfiable"}
    BY Zenon DEF FromRange, Ignored, Unsatisfiable, Satisfiable
  <2>3. Ignored.kind = "ignored"
    BY DEF Ignored
  <2> QED
    BY <2>1, <2>2, <2>3, Zenon DEF ParseSingleRange
<1> HIDE DEF range
<1>3. IsResponse(ToNotModified(found)) /\ ToNotModified(found).status = 304
  BY DEF ToNotModified, IsResponse, Response
<1>4. IsResponse(Partial(found, range)) /\ Partial(found, range).status = 206
  BY DEF Partial, IsResponse
<1>5. IsResponse(NotSatisfiable(found)) /\ NotSatisfiable(found).status = 416
  BY PlainResponse, HeaderAdded DEF NotSatisfiable
<1>6. \/ ApplyRange(request, found) = found /\ (Has(request, "range") => range.kind = "ignored")
      \/ /\ ApplyRange(request, found) = Partial(found, range)
         /\ Has(request, "range") /\ range.kind = "satisfiable"
      \/ /\ ApplyRange(request, found) = NotSatisfiable(found)
         /\ Has(request, "range") /\ range.kind = "unsatisfiable"
  <2>1. CASE ~Has(request, "range")
    BY <2>1, Zenon DEF ApplyRange
  <2>2. CASE Has(request, "range")
    <3>1. ApplyRange(request, found) = CASE range.kind = "satisfiable"   -> Partial(found, range)
                                         [] range.kind = "unsatisfiable" -> NotSatisfiable(found)
                                         [] range.kind = "ignored"       -> found
      BY <2>2, Zenon DEF ApplyRange, range
    <3> QED BY <1>2, <2>2, <3>1
  <2> QED BY <2>1, <2>2
<1>7. Evaluate(request, found) = IF NotModified(request, found) THEN ToNotModified(found)
                                 ELSE ApplyRange(request, found)
  BY <1>1 DEF Evaluate
<1> QED
  BY <1>1, <1>3, <1>4, <1>5, <1>6, <1>7 DEF found, range

\* The validators of a file with an mtime.
LEMMA Stamped ==
    ASSUME NEW path, NEW bytes, NEW mtime \in Nat
    PROVE  LET found == file_response(path, bytes, mtime)
           IN  /\ Has(found, "ETag") /\ found.headers["ETag"] = etag(Len(bytes), mtime)
               /\ Has(found, "Last-Modified") /\ found.headers["Last-Modified"] = http_date(mtime)
  BY DEF file_response, Has, NotADate

-----------------------------------------------------------------------------
(* The invariant. *)

\* A file carries a version that was written, and the second of its writing.
FilesStamped ==
    \A f \in Files :
        /\ files[f].version \in 0..made \cup {MaxWrites + 1}
        /\ files[f].mtime <= clock
        /\ files[f].version > 0 => files[f].mtime >= 0

\* The client's copy has the validators of one mtime, and a version that the
\* file still has if its mtime is not newer.
CopyOfFile ==
    copy # NoCopy =>
        /\ copy.file \in Files
        /\ copy.tag.mtime \in Nat
        /\ copy.tag = etag(copy.tag.len, copy.tag.mtime)
        /\ copy.date = http_date(copy.tag.mtime)
        /\ copy.tag.mtime <= files[copy.file].mtime
        /\ ~hurried /\ copy.file \in Present /\ files[copy.file].mtime <= copy.tag.mtime
              => files[copy.file].version = copy.version

\* The request in hand has seen what the files are now, and its validators
\* are those of the copy.
OwnTags(request) ==
    Has(request, "if-none-match") =>
        \/ request.headers["if-none-match"].any
        \/ request.headers["if-none-match"].tags = {}
        \/ copy # NoCopy /\ request.headers["if-none-match"].tags = {copy.tag}

OwnDate(request) ==
    Has(request, "if-modified-since") =>
        copy # NoCopy /\ request.headers["if-modified-since"] = copy.date

JobOfCopy ==
    job # NoJob => Versions \subseteq job.seen /\ OwnTags(job.request) /\ OwnDate(job.request)

\* The mtime that load has looked up is not newer than the file, and if it is
\* not newer than the copy either, the copy was current at that moment.
StatOfFile ==
    job.stage = "read" =>
        LET file == Canonical(Root \o Head(job.left))
        IN  /\ file \in Files
            /\ job.mtime <= files[file].mtime
            /\ copy # NoCopy /\ ~hurried /\ copy.file = file /\ job.mtime <= copy.tag.mtime
                  => copy.version \in job.seen

HonestInv ==
    /\ TypeOK /\ FilesStamped /\ CopyOfFile /\ JobOfCopy /\ StatOfFile
    /\ NotModifiedIsHonest

-----------------------------------------------------------------------------
(* Suffixes of a sequence. *)

LEMMA SuffixMeans ==
    ASSUME NEW S, NEW s \in Seq(S), NEW T, NEW t \in Seq(T)
    PROVE  IsSuffix(s, t) <=> /\ Len(s) <= Len(t)
                              /\ \A i \in 1..Len(s) : s[(Len(s) - i) + 1] = t[(Len(t) - i) + 1]
<1> DEFINE rs == [i \in 1..Len(s) |-> s[(Len(s) - i) + 1]]
           rt == [i \in 1..Len(t) |-> t[(Len(t) - i) + 1]]
<1>1. rs \in Seq(S) /\ Len(rs) = Len(s) /\ rt \in Seq(T) /\ Len(rt) = Len(t)
  BY SMTT(30)
<1>2. Len(s) <= Len(t) =>
        /\ SubSeq(rs, 1, Len(s)) = [i \in 1..Len(s) |-> rs[i]]
        /\ SubSeq(rt, 1, Len(s)) = [i \in 1..Len(s) |-> rt[i]]
  <2> HIDE DEF rs, rt
  <2> QED BY <1>1, SMTT(30)
<1>3. Len(s) <= Len(t) =>
        (SubSeq(rs, 1, Len(s)) = SubSeq(rt, 1, Len(s)) <=> \A i \in 1..Len(s) : rs[i] = rt[i])
  <2> HIDE DEF rs, rt
  <2> QED BY <1>1, <1>2
<1>4. IsSuffix(s, t) <=> Len(s) <= Len(t) /\ SubSeq(rs, 1, Len(s)) = SubSeq(rt, 1, Len(s))
  <2>1. Reverse(s) = rs /\ Reverse(t) = rt
    BY DEF Reverse
  <2> HIDE DEF rs, rt
  <2> QED BY <1>1, <2>1 DEF IsSuffix, IsPrefix
<1>5. Len(s) <= Len(t) =>
        \A i \in 1..Len(s) : rs[i] = s[(Len(s) - i) + 1] /\ rt[i] = t[(Len(t) - i) + 1]
  OBVIOUS
<1> HIDE DEF rs, rt
<1> QED BY <1>3, <1>4, <1>5

LEMMA SuffixOfItself ==
    ASSUME NEW S, NEW s \in Seq(S)
    PROVE  IsSuffix(s, s)
  BY SuffixMeans

LEMMA SuffixTail ==
    ASSUME NEW S, NEW s \in Seq(S), NEW T, NEW t \in Seq(T), IsSuffix(s, t), s # <<>>
    PROVE  IsSuffix(Tail(s), t)
<1>1. /\ Len(s) <= Len(t) /\ Len(s) \in Nat /\ Len(t) \in Nat /\ Len(s) > 0
      /\ \A i \in 1..Len(s) : s[(Len(s) - i) + 1] = t[(Len(t) - i) + 1]
  BY SuffixMeans
<1>2. Tail(s) \in Seq(S) /\ Len(Tail(s)) = Len(s) - 1
  OBVIOUS
<1>3. \A i \in 1..(Len(s) - 1) : Tail(s)[((Len(s) - 1) - i) + 1] = s[(Len(s) - i) + 1]
  BY <1>1
<1> DEFINE r == Tail(s)
<1>4. /\ r \in Seq(S) /\ Len(r) <= Len(t)
      /\ \A i \in 1..Len(r) : r[(Len(r) - i) + 1] = t[(Len(t) - i) + 1]
  BY <1>1, <1>2, <1>3
<1> HIDE DEF r
<1>5. IsSuffix(r, t)
  BY <1>4, SuffixMeans
<1> QED
  BY <1>5 DEF r

-----------------------------------------------------------------------------
(* The steps, by what they touch. *)

Statuses == {200, 206, 304, 400, 404, 405, 415, 416, 429}

\* The parts of TypeOK.
WorldTypes ==
    /\ files \in [Files -> [version : 0..(MaxWrites + 1), len : Nat, mtime : NotADate..MaxClock]]
    /\ clock \in 0..MaxClock
    /\ made \in 0..MaxWrites
    /\ follow \in BOOLEAN /\ hurried \in BOOLEAN
JobTypes ==
    /\ job.stage \in {"idle", "dispatch", "stat", "read", "discover", "probe"}
    /\ job.stage = "idle" <=> job = NoJob
    /\ job.stage = "read" => job.left # <<>> /\ job.mtime \in 0..MaxClock
    /\ job.stage \in {"stat", "read", "probe"} => IsSuffix(job.left, Candidates(job))
AnswerTypes == answer = NoAnswer \/ answer.status \in Statuses
CopyTypes == copy = NoCopy \/ copy.version \in 1..made \cup {MaxWrites + 1}

LEMMA TypeParts ==
    /\ TypeOK <=> WorldTypes /\ JobTypes /\ AnswerTypes /\ CopyTypes
    /\ TypeOK' <=> WorldTypes' /\ JobTypes' /\ AnswerTypes' /\ CopyTypes'
<1>1. TypeOK <=> WorldTypes /\ JobTypes /\ AnswerTypes /\ CopyTypes
  BY ZenonT(40) DEF TypeOK, WorldTypes, JobTypes, AnswerTypes, CopyTypes, Candidates, Statuses
<1>2. TypeOK' <=> WorldTypes' /\ JobTypes' /\ AnswerTypes' /\ CopyTypes'
  BY ZenonT(40) DEF TypeOK, WorldTypes, JobTypes, AnswerTypes, CopyTypes, Candidates, Statuses
<1>3. QED
  BY <1>1, <1>2, Zenon

\* A response that ends a job, from elsewhere than a file.
LEMMA AnsweredStep ==
    ASSUME HonestInv, UNCHANGED <<files, clock, made, follow, hurried>>,
           job' = NoJob, answer'.status \in Statuses \ {304}, copy' \in {copy, NoCopy}
    PROVE  HonestInv'
<1> USE DEF HonestInv
<1>1. WorldTypes' /\ AnswerTypes' /\ CopyTypes'
  BY TypeParts DEF WorldTypes, AnswerTypes, CopyTypes
<1>2. JobTypes'
  BY DEF JobTypes, NoJob
<1>3. FilesStamped'
  BY DEF FilesStamped
<1>4. CopyOfFile'
  BY DEF CopyOfFile, Present
<1>5. JobOfCopy' /\ StatOfFile'
  BY DEF JobOfCopy, StatOfFile, NoJob
<1>6. NotModifiedIsHonest'
  BY DEF NotModifiedIsHonest
<1> QED
  BY <1>1, <1>2, <1>3, <1>4, <1>5, <1>6, TypeParts

\* A step of the job in hand that ends in no answer.
LEMMA SilentStep ==
    ASSUME HonestInv, UNCHANGED <<files, clock, made, follow, hurried, copy>>,
           answer' = NoAnswer, job # NoJob, JobTypes', StatOfFile',
           job'.request = job.request, job'.seen = job.seen
    PROVE  HonestInv'
<1> USE DEF HonestInv
<1>1. WorldTypes' /\ AnswerTypes' /\ CopyTypes'
  BY TypeParts DEF WorldTypes, AnswerTypes, CopyTypes
<1>2. FilesStamped'
  BY DEF FilesStamped
<1>3. CopyOfFile'
  BY DEF CopyOfFile, Present
<1>4. JobOfCopy'
  BY DEF JobOfCopy, OwnTags, OwnDate, Versions, Present
<1>5. NotModifiedIsHonest'
  BY DEF NotModifiedIsHonest, NoAnswer
<1> QED
  BY <1>1, <1>2, <1>3, <1>4, <1>5, TypeParts

\* The responses that are made of no file.
LEMMA AnswerStep ==
    ASSUME HonestInv, UNCHANGED <<files, clock, made, follow, hurried>>,
           NEW r, IsResponse(r), r.status \in Statuses \ {304}, Answer(r)
    PROVE  HonestInv'
<1>1. answer'.status = r.status /\ job' = NoJob
  BY StatusSent, SentFile DEF Answer
<1>2. copy' \in {copy, NoCopy}
  BY DEF Answer
<1> QED
  BY <1>1, <1>2, AnsweredStep

LEMMA HandlerResponse ==
    ASSUME NEW handler, NEW request
    PROVE  /\ IsResponse(Handle(handler, request))
           /\ Handle(handler, request).status \in {200, 400, 415}
<1>1. query_content_type_check(request) \in {200, 400, 415}
  BY DEF query_content_type_check
<1>2. IsResponse(search(request)) /\ search(request).status \in {200, 400, 415}
  BY <1>1, PlainResponse, HeaderAdded DEF search
<1>3. IsResponse(health) /\ health.status = 200
  BY PlainResponse DEF health
<1> QED
  BY <1>2, <1>3 DEF Handle

LEMMA DiscoveryResponse ==
    ASSUME NEW request, NEW allow
    PROVE  /\ IsResponse(Discovery(request, allow))
           /\ Discovery(request, allow).status \in {200, 405}
  BY PlainResponse, HeaderAdded DEF Discovery

-----------------------------------------------------------------------------
LEMMA HonestInit == Init => HonestInv
<1> SUFFICES ASSUME Init PROVE HonestInv
  OBVIOUS
<1>1. \A f \in Files :
         IF Lengths[f] = {} THEN files[f] = [version |-> MaxWrites + 1, len |-> 1, mtime |-> 0]
         ELSE files[f] = [version |-> 0, len |-> 0, mtime |-> NotADate]
  BY DEF Init
<1>2. files \in [Files -> [version : 0..(MaxWrites + 1), len : Nat, mtime : NotADate..MaxClock]]
  <2>1. \A f \in Files : files[f] \in [version : 0..(MaxWrites + 1), len : Nat, mtime : NotADate..MaxClock]
    BY <1>1, BoundsAssumption DEF NotADate
  <2>2. files = [f \in Files |-> files[f]]
    BY Zenon DEF Init
  <2> QED BY <2>1, <2>2
<1>3. WorldTypes /\ AnswerTypes /\ CopyTypes
  <2>1. clock \in 0..MaxClock /\ made \in 0..MaxWrites
    BY BoundsAssumption DEF Init
  <2>2. follow \in BOOLEAN /\ hurried \in BOOLEAN /\ answer = NoAnswer /\ copy = NoCopy
    BY Zenon DEF Init
  <2> QED
    BY <1>2, <2>1, <2>2, Zenon DEF WorldTypes, AnswerTypes, CopyTypes
<1>4. JobTypes
  BY DEF Init, JobTypes, NoJob
<1>5. FilesStamped
  BY <1>1, BoundsAssumption DEF Init, FilesStamped, NotADate
<1>6. CopyOfFile /\ JobOfCopy /\ StatOfFile
  BY DEF Init, CopyOfFile, JobOfCopy, StatOfFile, NoJob
<1>7. NotModifiedIsHonest
  BY DEF Init, NotModifiedIsHonest, NoAnswer
<1> QED
  BY <1>3, <1>4, <1>5, <1>6, <1>7, TypeParts DEF HonestInv

\* What the client fills in are the validators of its copy.
LEMMA SentOwn ==
    ASSUME NEW request \in Requests, Ready(request)
    PROVE  OwnTags(Sent(request)) /\ OwnDate(Sent(request))
<1> DEFINE own == request.headers
           filled == [n \in request.copied |-> Validators[n]]
           headers == Joined(own, filled)
<1>1. Sent(request).headers = headers
  BY RequestsAssumption DEF Sent
<1>2. /\ DOMAIN headers = DOMAIN own \cup request.copied
      /\ \A n \in DOMAIN headers : headers[n] = IF n \in DOMAIN own THEN own[n] ELSE Validators[n]
  BY DEF Joined
<1> HIDE DEF headers
<1>3. ASSUME "if-none-match" \in DOMAIN headers
      PROVE  \/ headers["if-none-match"].any
             \/ headers["if-none-match"].tags = {}
             \/ copy # NoCopy /\ headers["if-none-match"].tags = {copy.tag}
  <2>1. CASE "if-none-match" \in DOMAIN own
    BY <1>2, <1>3, <2>1, RequestsAssumption DEF Has
  <2>2. CASE "if-none-match" \notin DOMAIN own
    <3>1. headers["if-none-match"] = [any |-> FALSE, tags |-> {copy.tag}]
      BY <1>2, <1>3, <2>2 DEF Validators
    <3>2. copy # NoCopy
      BY <1>2, <1>3, <2>2 DEF Ready
    <3> QED BY <3>1, <3>2
  <2> QED BY <2>1, <2>2
<1>4. ASSUME "if-modified-since" \in DOMAIN headers
      PROVE  copy # NoCopy /\ headers["if-modified-since"] = copy.date
  <2>1. "if-modified-since" \notin DOMAIN own
    BY RequestsAssumption DEF Has
  <2>2. headers["if-modified-since"] = copy.date
    BY <1>2, <1>4, <2>1 DEF Validators
  <2>3. copy # NoCopy
    BY <1>2, <1>4, <2>1 DEF Ready
  <2> QED BY <2>2, <2>3
<1> QED
  BY <1>1, <1>3, <1>4 DEF OwnTags, OwnDate, Has

\* load has looked up a file that is there: its mtime is one, and a copy of it
\* that is not older is of a version that the request has seen.
LEMMA LookUp ==
    ASSUME HonestInv, job # NoJob, NEW file \in Present
    PROVE  /\ file \in Files /\ files[file].mtime \in 0..MaxClock
           /\ copy # NoCopy /\ ~hurried /\ copy.file = file /\ files[file].mtime <= copy.tag.mtime
                 => copy.version \in job.seen
<1>1. file \in Files /\ files[file].version > 0
  BY DEF Present
<1>2. files[file].mtime \in 0..MaxClock
  BY <1>1, TypeParts, BoundsAssumption DEF HonestInv, WorldTypes, FilesStamped, NotADate
<1>3. files[file].version \in job.seen
  BY DEF HonestInv, JobOfCopy, Versions
<1> QED
  BY <1>1, <1>2, <1>3 DEF HonestInv, CopyOfFile

\* A 304 for a file is about an mtime that the copy has, or a newer one.
LEMMA Revalidated ==
    ASSUME NEW request, OwnTags(request), OwnDate(request), CopyOfFile,
           NEW path, NEW bytes, NEW mtime \in Nat,
           NotModified(request, file_response(path, bytes, mtime)),
           Has(request, "if-none-match") => ~request.headers["if-none-match"].any
    PROVE  copy # NoCopy => mtime <= copy.tag.mtime
<1> DEFINE found == file_response(path, bytes, mtime)
<1> SUFFICES ASSUME copy # NoCopy PROVE mtime <= copy.tag.mtime
  OBVIOUS
<1>1. /\ Has(found, "ETag") /\ found.headers["ETag"] = etag(Len(bytes), mtime)
      /\ Has(found, "Last-Modified") /\ found.headers["Last-Modified"] = http_date(mtime)
  BY Stamped
<1>2. copy.tag.mtime \in Nat /\ copy.tag = etag(copy.tag.len, copy.tag.mtime) /\ copy.date = http_date(copy.tag.mtime)
  BY DEF CopyOfFile
<1> HIDE DEF found
<1>3. CASE Has(request, "if-none-match")
  <2>1. PICK tag \in request.headers["if-none-match"].tags : WeakEq(tag, found.headers["ETag"])
    BY <1>3, Zenon DEF NotModified, found
  <2>2. tag = copy.tag
    BY <1>3, <2>1 DEF OwnTags
  <2>3. WeakEq(etag(copy.tag.len, copy.tag.mtime), etag(Len(bytes), mtime))
    BY <1>1, <1>2, <2>1, <2>2
  <2>4. \A l, m, k, n : WeakEq(etag(l, m), etag(k, n)) => m = n
    BY DEF WeakEq, etag
  <2> QED
    BY <1>2, <2>3, <2>4
<1>4. CASE ~Has(request, "if-none-match")
  <2>1. /\ Has(request, "if-modified-since")
        /\ parse_http_date(found.headers["Last-Modified"]) <= parse_http_date(request.headers["if-modified-since"])
    BY <1>4, Zenon DEF NotModified, found
  <2>2. request.headers["if-modified-since"] = http_date(copy.tag.mtime)
    BY <1>2, <2>1 DEF OwnDate
  <2> QED
    BY <1>1, <1>2, <2>1, <2>2, DateRoundTrip
<1> QED BY <1>3, <1>4

-----------------------------------------------------------------------------
LEMMA IdleStays ==
    /\ [NoJob EXCEPT !.quiet = TRUE] = NoJob
    /\ [NoJob EXCEPT !.seen = {}, !.quiet = TRUE] = NoJob
<1>1. ASSUME NEW f, NEW x, f = [y \in DOMAIN f |-> f[y]] PROVE [f EXCEPT ![x] = f[x]] = f
  BY <1>1
<1>2. NoJob = [y \in DOMAIN NoJob |-> NoJob[y]]
  BY DEF NoJob
<1>3. NoJob.quiet = TRUE /\ NoJob.seen = {}
  BY Zenon DEF NoJob
<1>4. [NoJob EXCEPT !.quiet = TRUE] = NoJob
  <2>1. [NoJob EXCEPT !.quiet = NoJob.quiet] = NoJob
    BY <1>1, <1>2
  <2> QED
    BY <1>3, <2>1, Zenon
<1>5. [NoJob EXCEPT !.seen = {}] = NoJob
  <2>1. [NoJob EXCEPT !.seen = NoJob.seen] = NoJob
    BY <1>1, <1>2
  <2> QED
    BY <1>3, <2>1, Zenon
<1> QED
  BY <1>4, <1>5, Zenon

LEMMA HonestStep == RootInv /\ HonestInv /\ [Next]_vars => HonestInv'
<1> SUFFICES ASSUME RootInv, HonestInv, [Next]_vars PROVE HonestInv'
  OBVIOUS
<1>0. /\ WorldTypes /\ JobTypes /\ AnswerTypes /\ CopyTypes
      /\ FilesStamped /\ CopyOfFile /\ JobOfCopy /\ StatOfFile
      /\ JobShape /\ LeftToTry /\ LookedUp
  BY TypeParts DEF HonestInv, RootInv
<1>1. ASSUME NEW request \in Requests, Deny(request) PROVE HonestInv'
  <2>1. answer'.status = 429
    BY <1>1, PlainResponse, HeaderAdded DEF Deny, Given, Serialize
  <2>2. UNCHANGED <<files, clock, made, follow, job, copy, hurried>> /\ job = NoJob
    BY <1>1 DEF Deny, Ready
  <2> QED
    BY <2>1, <2>2, AnsweredStep DEF Statuses
<1>2. ASSUME NEW request \in Requests, Allow(request) PROVE HonestInv'
  <2>1. UNCHANGED <<files, clock, made, follow, hurried, copy>> /\ answer' = NoAnswer
    BY <1>2 DEF Allow, Silently
  <2>2. job'.stage = "dispatch" /\ job'.request = Sent(request) /\ job'.seen = Versions
    BY <1>2 DEF Allow, NoJob
  <2>3. OwnTags(job'.request) /\ OwnDate(job'.request)
    BY <1>2, <2>2, SentOwn DEF Allow
  <2>4. WorldTypes' /\ AnswerTypes' /\ CopyTypes'
    BY <1>0, <2>1 DEF WorldTypes, AnswerTypes, CopyTypes
  <2>5. JobTypes' /\ StatOfFile'
    BY <2>2 DEF JobTypes, StatOfFile, NoJob
  <2>6. FilesStamped' /\ CopyOfFile'
    BY <1>0, <2>1 DEF FilesStamped, CopyOfFile, Present
  <2>7. JobOfCopy'
    BY <2>1, <2>2, <2>3 DEF JobOfCopy, OwnTags, OwnDate, Versions, Present
  <2>8. NotModifiedIsHonest'
    BY <2>1 DEF NotModifiedIsHonest, NoAnswer
  <2> QED
    BY <2>4, <2>5, <2>6, <2>7, <2>8, TypeParts DEF HonestInv
<1>3. CASE dispatch
  <2>1. UNCHANGED <<files, clock, made, follow, hurried>> /\ job.stage = "dispatch" /\ job # NoJob
    BY <1>3 DEF dispatch, NoJob
  <2>2. ASSUME NEW r, IsResponse(r), r.status \in {200, 400, 415}, Answer(r) PROVE HonestInv'
    BY <2>1, <2>2, AnswerStep DEF Statuses
  <2>3. ASSUME NEW allow, Answer(WithHeader(Response(200), "Allow", allow)) PROVE HonestInv'
    BY <2>2, <2>3, PlainResponse, HeaderAdded
  <2>4. ASSUME NEW handler, Answer(Handle(handler, job.request)) PROVE HonestInv'
    BY <2>2, <2>4, HandlerResponse
  <2>5. CASE /\ job' = IF job.request.method \in {"GET", "HEAD"}
                       THEN [job EXCEPT !.stage = "stat",
                                        !.left = candidate_paths(RequestPath(job.request.target))]
                       ELSE [job EXCEPT !.stage = "discover"]
             /\ Silently
    <3>1. answer' = NoAnswer /\ UNCHANGED copy
      BY <2>5 DEF Silently
    <3>2. /\ job'.stage \in {"stat", "discover"} /\ job'.request = job.request /\ job'.seen = job.seen
          /\ job'.stage = "stat" => job'.left = Candidates(job)
      BY <1>0, <2>5 DEF JobShape, Candidates
    <3>3. IsSuffix(Candidates(job), Candidates(job))
      BY CandidatesAreListed, SuffixOfItself DEF Candidates
    <3>4. JobTypes'
      BY <3>2, <3>3 DEF JobTypes, NoJob, Candidates
    <3>5. StatOfFile'
      BY <3>2 DEF StatOfFile
    <3> QED
      BY <2>1, <3>1, <3>2, <3>4, <3>5, SilentStep
  <2> QED
    BY <1>3, <2>3, <2>4, <2>5, Zenon DEF dispatch
<1>4. CASE Stat
  <2> DEFINE candidate == Head(job.left)
             file == Canonical(Root \o candidate)
  <2>1. /\ UNCHANGED <<files, clock, made, follow, hurried, copy>> /\ answer' = NoAnswer
        /\ job.stage = "stat" /\ job # NoJob /\ job.left # <<>>
    BY <1>4 DEF Stat, Silently, NoJob
  <2>2. IsSuffix(job.left, Candidates(job)) /\ IsSuffix(Tail(job.left), Candidates(job))
    BY <1>0, <2>1, SuffixTail, CandidatesAreListed DEF JobTypes, LeftToTry, Candidates
  <2>3. CASE /\ Resolves(candidate, follow, Present)
             /\ job' = [job EXCEPT !.stage = "read", !.mtime = files[file].mtime]
    <3>1. /\ job'.stage = "read" /\ job'.left = job.left /\ job'.request = job.request
          /\ job'.seen = job.seen /\ job'.mtime = files[file].mtime
      BY <1>0, <2>3 DEF JobShape
    <3>2. file \in Present
      BY <2>3, Zenon DEF Resolves
    <3>3. /\ file \in Files /\ files[file].mtime \in 0..MaxClock
          /\ copy # NoCopy /\ ~hurried /\ copy.file = file /\ files[file].mtime <= copy.tag.mtime
                => copy.version \in job.seen
      BY <2>1, <3>2, LookUp
    <3> HIDE DEF file
    <3>4. JobTypes'
      BY <2>1, <2>2, <3>1, <3>3 DEF JobTypes, NoJob, Candidates
    <3>5. Canonical(Root \o Head(job'.left)) = file
      BY <3>1 DEF file
    <3>6. StatOfFile'
      BY <2>1, <3>1, <3>3, <3>5, BoundsAssumption DEF StatOfFile
    <3> QED
      BY <2>1, <3>1, <3>4, <3>6, SilentStep
  <2>4. CASE job' = [job EXCEPT !.left = Tail(@)]
    <3>1. /\ job'.stage = "stat" /\ job'.left = Tail(job.left) /\ job'.request = job.request
          /\ job'.seen = job.seen
      BY <1>0, <2>1, <2>4 DEF JobShape
    <3>2. JobTypes' /\ StatOfFile'
      BY <2>2, <3>1 DEF JobTypes, StatOfFile, NoJob, Candidates
    <3> QED
      BY <2>1, <3>1, <3>2, SilentStep
  <2> QED
    BY <1>4, <2>3, <2>4, Zenon DEF Stat
<1>5. CASE Read
  <2> DEFINE file == Canonical(Root \o Head(job.left))
             found == file_response(Head(job.left), Bytes(file), job.mtime)
             r == Evaluate(job.request, found)
  <2>1. /\ UNCHANGED <<files, clock, made, follow, hurried>>
        /\ job.stage = "read" /\ job # NoJob /\ job.left # <<>> /\ job.mtime \in 0..MaxClock
    BY <1>0, <1>5 DEF Read, NoJob, JobTypes
  <2>2. CASE file \in Present /\ Send(job.request, r, file) /\ copy' = Kept(job.request, r, file)
    <3>1. /\ IsResponse(r) /\ r.status \in {200, 206, 304, 416}
          /\ r.status = 304 => NotModified(job.request, found)
          /\ r.status = 200 => r = found
      BY Evaluated
    <3>2. found.headers["ETag"] = etag(Len(Bytes(file)), job.mtime)
          /\ found.headers["Last-Modified"] = http_date(job.mtime)
      BY <2>1, Stamped, BoundsAssumption
    <3>3. r.status = 304 /\ (Has(job.request, "if-none-match") => ~job.request.headers["if-none-match"].any)
            => (copy # NoCopy => job.mtime <= copy.tag.mtime)
      BY <1>0, <2>1, <3>1, Revalidated, BoundsAssumption DEF JobOfCopy
    <3>4. answer'.status = r.status /\ job' = NoJob
      BY <2>2, <3>1, StatusSent, SentFile
    <3>5. answer'.request = job.request /\ answer'.file = file /\ answer'.seen = job.seen /\ answer'.copy = copy
      BY <2>2 DEF Send, Given
    <3>6. /\ file \in Files /\ job.mtime <= files[file].mtime
          /\ copy # NoCopy /\ ~hurried /\ copy.file = file /\ job.mtime <= copy.tag.mtime
                => copy.version \in job.seen
      BY <1>0, <2>1 DEF StatOfFile
    <3>7. files[file].version \in 1..made \cup {MaxWrites + 1}
      BY <1>0, <2>2, <3>6, BoundsAssumption DEF FilesStamped, Present, WorldTypes
    <3>8. \/ copy' = copy
          \/ copy' = [version |-> files[file].version, file |-> file,
                      tag |-> etag(Len(Bytes(file)), job.mtime), date |-> http_date(job.mtime)]
      BY <2>2, <3>1, <3>2 DEF Kept
    <3> HIDE DEF file, found, r
    <3>9. NotModifiedIsHonest'
      BY <2>1, <3>3, <3>4, <3>5, <3>6 DEF NotModifiedIsHonest
    <3>10. CopyTypes'
      BY <1>0, <2>1, <3>7, <3>8 DEF CopyTypes
    <3>11. CopyOfFile'
      <4>1. CASE copy' = copy
        BY <1>0, <2>1, <4>1 DEF CopyOfFile, Present
      <4>2. CASE copy' = [version |-> files[file].version, file |-> file,
                          tag |-> etag(Len(Bytes(file)), job.mtime), date |-> http_date(job.mtime)]
        <5>1. /\ copy'.version = files[file].version /\ copy'.file = file
              /\ copy'.tag = etag(Len(Bytes(file)), job.mtime) /\ copy'.date = http_date(job.mtime)
          BY <4>2
        <5>2. copy'.tag.mtime = job.mtime /\ copy'.tag.len = Len(Bytes(file))
          BY <5>1 DEF etag
        <5> QED
          BY <2>1, <3>6, <5>1, <5>2, BoundsAssumption DEF CopyOfFile, Present
      <4> QED BY <3>8, <4>1, <4>2
    <3>12. WorldTypes' /\ FilesStamped'
      BY <1>0, <2>1 DEF WorldTypes, FilesStamped
    <3>13. JobTypes' /\ JobOfCopy' /\ StatOfFile'
      BY <3>4 DEF JobTypes, JobOfCopy, StatOfFile, NoJob
    <3>14. AnswerTypes'
      BY <3>1, <3>4 DEF AnswerTypes, Statuses
    <3> QED
      BY <3>9, <3>10, <3>11, <3>12, <3>13, <3>14, TypeParts DEF HonestInv
  <2>3. CASE job' = [job EXCEPT !.stage = "stat", !.left = Tail(@)] /\ Silently
    <3>1. answer' = NoAnswer /\ UNCHANGED copy
      BY <2>3 DEF Silently
    <3>2. /\ job'.stage = "stat" /\ job'.request = job.request /\ job'.seen = job.seen
          /\ job'.left = Tail(job.left)
      BY <1>0, <2>1, <2>3 DEF JobShape
    <3>3. IsSuffix(Tail(job.left), Candidates(job))
      BY <1>0, <2>1, SuffixTail, CandidatesAreListed DEF JobTypes, LeftToTry, Candidates
    <3>4. JobTypes' /\ StatOfFile'
      BY <3>2, <3>3 DEF JobTypes, StatOfFile, NoJob, Candidates
    <3> QED
      BY <2>1, <3>1, <3>2, <3>4, SilentStep
  <2> QED
    BY <1>5, <2>2, <2>3, Zenon DEF Read
<1>6. CASE Miss
  <2>1. /\ UNCHANGED <<files, clock, made, follow, hurried, copy>> /\ answer' = NoAnswer
        /\ job.stage = "stat" /\ job # NoJob
        /\ job'.stage = "discover" /\ job'.request = job.request /\ job'.seen = job.seen
    BY <1>0, <1>6 DEF Miss, Silently, NoJob, JobShape
  <2>2. JobTypes' /\ StatOfFile'
    BY <2>1 DEF JobTypes, StatOfFile, NoJob
  <2> QED
    BY <2>1, <2>2, SilentStep
<1>7. CASE Discover
  <2>1. UNCHANGED <<files, clock, made, follow, hurried>> /\ job.stage = "discover" /\ job # NoJob
    BY <1>7 DEF Discover, NoJob
  <2>2. ASSUME NEW allow, Answer(Discovery(job.request, allow)) PROVE HonestInv'
    BY <2>1, <2>2, AnswerStep, DiscoveryResponse DEF Statuses
  <2>3. CASE /\ job' = [job EXCEPT !.stage = "probe",
                                   !.left = candidate_paths(RequestPath(job.request.target))]
             /\ Silently
    <3>1. answer' = NoAnswer /\ UNCHANGED copy
      BY <2>3 DEF Silently
    <3>2. /\ job'.stage = "probe" /\ job'.request = job.request /\ job'.seen = job.seen
          /\ job'.left = Candidates(job)
      BY <1>0, <2>3 DEF JobShape, Candidates
    <3>3. IsSuffix(Candidates(job), Candidates(job))
      BY CandidatesAreListed, SuffixOfItself DEF Candidates
    <3>4. JobTypes' /\ StatOfFile'
      BY <3>2, <3>3 DEF JobTypes, StatOfFile, NoJob, Candidates
    <3> QED
      BY <2>1, <3>1, <3>2, <3>4, SilentStep
  <2> QED
    BY <1>7, <2>2, <2>3, Zenon DEF Discover
<1>8. CASE Probe
  <2>1. UNCHANGED <<files, clock, made, follow, hurried>> /\ job.stage = "probe" /\ job # NoJob
    BY <1>8 DEF Probe, NoJob
  <2>2. CASE Answer(Text(404))
    BY <2>1, <2>2, AnswerStep, PlainResponse DEF Statuses
  <2>3. CASE Answer(Discovery(job.request, {"GET", "HEAD", "OPTIONS"}))
    BY <2>1, <2>3, AnswerStep, DiscoveryResponse DEF Statuses
  <2>4. CASE job.left # <<>> /\ job' = [job EXCEPT !.left = Tail(@)] /\ Silently
    <3>1. answer' = NoAnswer /\ UNCHANGED copy
      BY <2>4 DEF Silently
    <3>2. /\ job'.stage = "probe" /\ job'.request = job.request /\ job'.seen = job.seen
          /\ job'.left = Tail(job.left)
      BY <1>0, <2>1, <2>4 DEF JobShape
    <3>3. IsSuffix(Tail(job.left), Candidates(job))
      BY <1>0, <2>1, <2>4, SuffixTail, CandidatesAreListed DEF JobTypes, LeftToTry, Candidates
    <3>4. JobTypes' /\ StatOfFile'
      BY <3>2, <3>3 DEF JobTypes, StatOfFile, NoJob, Candidates
    <3> QED
      BY <2>1, <3>1, <3>2, <3>4, SilentStep
  <2> QED
    BY <1>8, <2>2, <2>3, <2>4, Zenon DEF Probe
<1>9. CASE Deliver \/ Tick
  <2>1. /\ UNCHANGED <<files, made, follow, hurried, copy, job>> /\ answer' = NoAnswer
        /\ clock' \in 0..MaxClock /\ clock <= clock'
    BY <1>0, <1>9, BoundsAssumption DEF Deliver, Tick, Silently, WorldTypes
  <2>2. WorldTypes' /\ AnswerTypes' /\ CopyTypes'
    BY <1>0, <2>1 DEF WorldTypes, AnswerTypes, CopyTypes
  <2>3. JobTypes' /\ CopyOfFile' /\ JobOfCopy' /\ StatOfFile'
    BY <1>0, <2>1 DEF JobTypes, Candidates, CopyOfFile, Present, JobOfCopy, OwnTags, OwnDate, Versions, StatOfFile
  <2>4. FilesStamped'
    <3>1. \A f \in Files : files[f].mtime \in Int
      BY <1>0, BoundsAssumption DEF WorldTypes, NotADate
    <3> QED
      BY <1>0, <2>1, <3>1, BoundsAssumption DEF FilesStamped, WorldTypes
  <2>5. NotModifiedIsHonest'
    BY <2>1 DEF NotModifiedIsHonest, NoAnswer
  <2> QED
    BY <2>2, <2>3, <2>4, <2>5, TypeParts DEF HonestInv
<1>10. ASSUME NEW f \in Files, Unlink(f) PROVE HonestInv'
  <2>1. /\ UNCHANGED <<clock, made, follow, hurried, copy>> /\ answer' = NoAnswer
        /\ files' = [files EXCEPT ![f].version = 0]
    BY <1>10 DEF Unlink
  <2>2. /\ job'.stage = job.stage /\ job'.left = job.left /\ job'.request = job.request
        /\ job'.mtime = job.mtime /\ job'.seen = job.seen /\ (job = NoJob <=> job' = NoJob)
    <3>1. job' = [job EXCEPT !.quiet = (job = NoJob)]
      BY <1>10 DEF Unlink
    <3>2. /\ job'.stage = job.stage /\ job'.left = job.left /\ job'.request = job.request
          /\ job'.mtime = job.mtime /\ job'.seen = job.seen
      BY <1>0, <3>1 DEF JobShape
    <3>3. ASSUME job = NoJob PROVE job' = NoJob
      <4>1. (job = NoJob) = TRUE
        BY <3>3, Zenon
      <4>2. job' = [NoJob EXCEPT !.quiet = TRUE]
        BY <3>1, <3>3, <4>1
      <4> QED
        BY <4>2, IdleStays
    <3>4. job # NoJob => job' # NoJob
      BY <1>0, <3>2 DEF JobTypes, NoJob
    <3> QED BY <3>2, <3>3, <3>4
  <2>3. \A g \in Files : /\ files'[g].mtime = files[g].mtime /\ files'[g].len = files[g].len
                         /\ files'[g].version = IF g = f THEN 0 ELSE files[g].version
    BY <1>0, <2>1 DEF WorldTypes
  <2>4. WorldTypes' /\ AnswerTypes' /\ CopyTypes'
    <3>1. files' \in [Files -> [version : 0..(MaxWrites + 1), len : Nat, mtime : NotADate..MaxClock]]
      BY <1>0, <2>1, BoundsAssumption DEF WorldTypes
    <3> QED
      BY <1>0, <2>1, <3>1 DEF WorldTypes, AnswerTypes, CopyTypes
  <2>5. JobTypes'
    BY <1>0, <2>2 DEF JobTypes, Candidates
  <2>6. FilesStamped'
    BY <1>0, <2>1, <2>3, BoundsAssumption DEF FilesStamped, WorldTypes
  <2>7. Present' = Present \ {f} /\ Versions' \subseteq Versions
    <3>1. Present' = Present \ {f}
      BY <1>0, <2>3, BoundsAssumption DEF Present, WorldTypes
    <3> QED
      BY <2>3, <3>1 DEF Versions, Present
  <2>8. CopyOfFile'
    BY <1>0, <2>1, <2>3, <2>7 DEF CopyOfFile, Present
  <2>9. JobOfCopy'
    BY <1>0, <2>1, <2>2, <2>7 DEF JobOfCopy, OwnTags, OwnDate
  <2>10. StatOfFile'
    BY <1>0, <2>1, <2>2, <2>3 DEF StatOfFile
  <2>11. NotModifiedIsHonest'
    BY <2>1 DEF NotModifiedIsHonest, NoAnswer
  <2> QED
    BY <2>4, <2>5, <2>6, <2>8, <2>9, <2>10, <2>11, TypeParts DEF HonestInv
<1>11. ASSUME NEW f \in Files, NEW len \in Lengths[f], Write(f, len) PROVE HonestInv'
  <2>1. /\ UNCHANGED <<clock, follow, copy>> /\ answer' = NoAnswer
        /\ made < MaxWrites /\ made' = made + 1
        /\ files' = [files EXCEPT ![f] = [version |-> made + 1, len |-> len, mtime |-> clock]]
        /\ hurried' = (hurried \/ files[f].mtime = clock)
    BY <1>11 DEF Write
  <2>2. /\ job'.stage = job.stage /\ job'.left = job.left /\ job'.request = job.request
        /\ job'.mtime = job.mtime /\ (job = NoJob <=> job' = NoJob)
        /\ job # NoJob => job'.seen = job.seen \cup {made + 1}
    <3>1. job' = [job EXCEPT !.seen = IF job = NoJob THEN {} ELSE @ \cup {made + 1},
                             !.quiet = (job = NoJob)]
      BY <1>11 DEF Write
    <3>2. /\ job'.stage = job.stage /\ job'.left = job.left /\ job'.request = job.request
          /\ job'.mtime = job.mtime
          /\ job # NoJob => job'.seen = job.seen \cup {made + 1}
      BY <1>0, <3>1 DEF JobShape
    <3>3. ASSUME job = NoJob PROVE job' = NoJob
      <4>1. (job = NoJob) = TRUE
        BY <3>3, Zenon
      <4>2. job' = [NoJob EXCEPT !.seen = {}, !.quiet = TRUE]
        BY <3>1, <3>3, <4>1
      <4> QED
        BY <4>2, IdleStays
    <3>4. job # NoJob => job' # NoJob
      BY <1>0, <3>2 DEF JobTypes, NoJob
    <3> QED BY <3>2, <3>3, <3>4
  <2>3. /\ made \in Nat /\ clock \in Nat /\ clock <= MaxClock /\ MaxWrites \in Nat /\ MaxClock \in Nat
        /\ len \in Nat
        /\ \A g \in Files : files[g].version \in Nat /\ files[g].len \in Nat /\ files[g].mtime \in Int
    BY <1>0, BoundsAssumption DEF WorldTypes, NotADate
  <2>4. /\ files'[f] = [version |-> made + 1, len |-> len, mtime |-> clock]
        /\ \A g \in Files \ {f} : files'[g] = files[g]
    BY <1>0, <2>1 DEF WorldTypes
  <2>5. files'[f].version = made + 1 /\ files'[f].mtime = clock
    BY <2>4
  <2>6. WorldTypes' /\ AnswerTypes' /\ CopyTypes'
    <3>1. [version |-> made + 1, len |-> len, mtime |-> clock]
            \in [version : 0..(MaxWrites + 1), len : Nat, mtime : NotADate..MaxClock]
      BY <2>1, <2>3 DEF NotADate
    <3>2. files' \in [Files -> [version : 0..(MaxWrites + 1), len : Nat, mtime : NotADate..MaxClock]]
      BY <1>0, <2>1, <3>1 DEF WorldTypes
    <3>3. hurried' \in BOOLEAN
      BY <2>1, Zenon
    <3>4. made' \in 0..MaxWrites /\ clock' \in 0..MaxClock
      BY <2>1, <2>3
    <3>5. CopyTypes'
      BY <1>0, <2>1, <2>3 DEF CopyTypes
    <3> QED
      BY <1>0, <2>1, <3>2, <3>3, <3>4, <3>5 DEF WorldTypes, AnswerTypes
  <2>7. JobTypes'
    BY <1>0, <2>2 DEF JobTypes, Candidates
  <2>8. FilesStamped'
    <3>1. \A g \in Files \ {f} : /\ files[g].version \in 0..(made + 1) \cup {MaxWrites + 1}
                                 /\ files[g].mtime <= clock
                                 /\ files[g].version > 0 => files[g].mtime >= 0
      BY <1>0, <2>3 DEF FilesStamped
    <3> QED
      BY <2>1, <2>3, <2>4, <2>5, <3>1 DEF FilesStamped
  <2>9. Present' = Present \cup {f} /\ Versions' \subseteq Versions \cup {made + 1}
    <3>1. Present' = Present \cup {f}
      BY <2>3, <2>4, <2>5 DEF Present
    <3> QED
      BY <2>4, <2>5, <3>1 DEF Versions, Present
  \* Without a second write in one second, the new mtime is past the copy's.
  <2>10. ~hurried' => ~hurried /\ files[f].mtime < clock
    <3>1. ~hurried' => ~hurried /\ files[f].mtime # clock
      BY <2>1, Zenon
    <3> QED
      BY <1>0, <2>3, <3>1 DEF FilesStamped
  <2>11. CopyOfFile'
    <3> SUFFICES ASSUME copy # NoCopy PROVE CopyOfFile'
      BY <2>1 DEF CopyOfFile
    <3>1. CASE copy.file # f
      BY <1>0, <2>1, <2>4, <2>9, <2>10, <3>1 DEF CopyOfFile
    <3>2. CASE copy.file = f
      BY <1>0, <2>1, <2>3, <2>5, <2>10, <3>2 DEF CopyOfFile, FilesStamped
    <3> QED BY <3>1, <3>2
  <2>12. JobOfCopy'
    BY <1>0, <2>1, <2>2, <2>9 DEF JobOfCopy, OwnTags, OwnDate
  <2>13. StatOfFile'
    <3> DEFINE file == Canonical(Root \o Head(job.left))
    <3> SUFFICES ASSUME job.stage = "read" PROVE StatOfFile'
      BY <2>2 DEF StatOfFile
    <3>1. /\ file \in Files /\ job.mtime <= files[file].mtime
          /\ copy # NoCopy /\ ~hurried /\ copy.file = file /\ job.mtime <= copy.tag.mtime
                => copy.version \in job.seen
      BY <1>0 DEF StatOfFile
    <3>2. job # NoJob /\ job.mtime \in Int
      BY <1>0, BoundsAssumption DEF NoJob, JobTypes
    <3>3. Canonical(Root \o Head(job'.left)) = file
      BY <2>2
    <3> HIDE DEF file
    <3>4. job.mtime <= files'[file].mtime
      BY <1>0, <2>3, <2>4, <2>5, <3>1, <3>2 DEF FilesStamped
    <3> QED
      BY <2>1, <2>2, <2>10, <3>1, <3>2, <3>3, <3>4 DEF StatOfFile
  <2>14. NotModifiedIsHonest'
    BY <2>1 DEF NotModifiedIsHonest, NoAnswer
  <2> QED
    BY <2>6, <2>7, <2>8, <2>11, <2>12, <2>13, <2>14, TypeParts DEF HonestInv
<1>12. CASE UNCHANGED vars
  <2> USE <1>0, <1>12 DEF vars
  <2>1. WorldTypes' /\ JobTypes' /\ AnswerTypes' /\ CopyTypes'
    BY DEF WorldTypes, JobTypes, Candidates, AnswerTypes, CopyTypes
  <2>2. FilesStamped' /\ CopyOfFile' /\ JobOfCopy' /\ StatOfFile'
    BY DEF FilesStamped, CopyOfFile, Present, JobOfCopy, OwnTags, OwnDate, Versions, StatOfFile
  <2>3. NotModifiedIsHonest'
    BY DEF HonestInv, NotModifiedIsHonest
  <2> QED
    BY <2>1, <2>2, <2>3, TypeParts DEF HonestInv
<1> QED
  BY <1>1, <1>2, <1>3, <1>4, <1>5, <1>6, <1>7, <1>8, <1>9, <1>10, <1>11, <1>12, Zenon DEF Next

LEMMA HonestInvariant == Spec => []HonestInv
  BY HonestInit, HonestStep, InitRoot, NextRoot, PTL DEF Spec

\* Whatever the requests, links, routes and files, the handler's state keeps
\* its shape, and the answers have the status codes that handle can give.
THEOREM ApplicationTypeCorrect == Spec => []TypeOK
<1>1. HonestInv => TypeOK
  BY DEF HonestInv
<1> QED
  BY <1>1, HonestInvariant, PTL

\* A 304 that serve_static and evaluate give to a client's own validator is
\* true: the client's copy was the file's content at some moment while the
\* request was handled, for any number of files, versions and writes between
\* the metadata and the bytes, as long as no file is written twice in a second.
THEOREM HonestTheorem == Spec => []NotModifiedIsHonest
<1>1. HonestInv => NotModifiedIsHonest
  BY DEF HonestInv
<1> QED
  BY <1>1, HonestInvariant, PTL

-----------------------------------------------------------------------------
(* Parts of a file. *)

\* The job in hand has the Range field of one of the requests.
RangeInHand ==
    job # NoJob /\ Has(job.request, "range") => job.request.headers["range"] \in RangeFields

PartsInv == RangeInHand /\ PartsAreParts

LEMMA SentRange ==
    ASSUME NEW request \in Requests, Has(Sent(request), "range")
    PROVE  Sent(request).headers["range"] \in RangeFields
<1> DEFINE own == request.headers
           filled == [n \in request.copied |-> Validators[n]]
           headers == Joined(own, filled)
<1>1. Sent(request).headers = headers
  BY RequestsAssumption DEF Sent
<1>2. /\ DOMAIN headers = DOMAIN own \cup request.copied
      /\ \A n \in DOMAIN own : headers[n] = own[n]
  BY DEF Joined
<1> HIDE DEF headers
<1>3. "range" \in DOMAIN own
  BY <1>1, <1>2, RequestsAssumption DEF Has
<1> QED
  BY <1>1, <1>2, <1>3, RequestsAssumption DEF Has

\* A body that is not compressed yet.
IsPlain(body) == \A i \in DOMAIN body : "gzip" \notin DOMAIN body[i]

LEMMA HasBody == ASSUME NEW status \in {200, 206, 416} PROVE ~IsEmptyBody(status)
  BY DEF IsEmptyBody

\* What a client decodes is the body before post_process, and the fields it
\* was given are there, whatever post_process and to_bytes add.
LEMMA OnWire ==
    ASSUME NEW request, request.method = "GET", NEW r, IsResponse(r),
           r.status \in {200, 206, 416}, NEW S, r.body \in Seq(S), IsPlain(r.body),
           NEW file, Send(request, r, file)
    PROVE  /\ Decoded(answer'.body) = r.body
           /\ \A n \in DOMAIN r.headers \ {"Content-Length"} :
                 Has(answer', n) /\ answer'.headers[n] = r.headers[n]
<1> DEFINE w == post_process(request, r)
<1>1. /\ w.status = r.status /\ w.body \in {r.body, <<[gzip |-> r.body]>>}
      /\ \A n \in DOMAIN r.headers : n \in DOMAIN w.headers /\ w.headers[n] = r.headers[n]
  BY PostProcessed
<1> HIDE DEF w
<1>2. /\ answer'.body = w.body
      /\ answer'.headers = Joined(Field("Content-Length", Len(w.body)), w.headers)
  <2>1. ~IsEmptyBody(w.status)
    BY <1>1, HasBody
  <2>2. answer' = Given(request, w, file, job.seen, job.quiet)
    BY DEF Send, w
  <2> QED
    BY <2>1, <2>2 DEF Given, Serialize
<1>3. Decoded(w.body) = r.body
  <2>1. CASE w.body = r.body
    <3>1. Len(r.body) = 1 => "gzip" \notin DOMAIN r.body[1]
      BY DEF IsPlain
    <3> QED
      BY <2>1, <3>1 DEF Decoded
  <2>2. CASE w.body = <<[gzip |-> r.body]>>
    BY <2>2 DEF Decoded
  <2> QED BY <1>1, <2>1, <2>2
<1>4. \A n \in DOMAIN r.headers \ {"Content-Length"} :
         /\ n \in DOMAIN Joined(Field("Content-Length", Len(w.body)), w.headers)
         /\ Joined(Field("Content-Length", Len(w.body)), w.headers)[n] = r.headers[n]
  BY <1>1 DEF Joined, Field
<1> QED
  BY <1>2, <1>3, <1>4 DEF Has

\* The bytes of a file, and any part of them, have their positions in order
\* and are of one version.
PartOf(f, a, b) == SubSeq(Bytes(f), a + 1, b + 1)

LEMMA PartOfFile ==
    ASSUME NEW f, files[f].len \in Nat, NEW a \in Nat, NEW b \in Nat, a <= b, b < files[f].len
    PROVE  /\ PartOf(f, a, b) \in Seq(Range(Bytes(f))) /\ Len(PartOf(f, a, b)) = (b - a) + 1
           /\ \A i \in 1..(b - a) + 1 :
                 PartOf(f, a, b)[i] = [of |-> f, version |-> files[f].version, at |-> (a + i) - 1]
<1>1. /\ Bytes(f) \in Seq(Range(Bytes(f))) /\ Len(Bytes(f)) = files[f].len
      /\ \A i \in 1..files[f].len : Bytes(f)[i] = [of |-> f, version |-> files[f].version, at |-> i - 1]
  <2>1. Bytes(f) = [i \in 1..files[f].len |-> Bytes(f)[i]] /\ \A i \in 1..files[f].len : Bytes(f)[i] \in Range(Bytes(f))
    BY DEF Bytes, Range
  <2>2. Bytes(f) \in Seq(Range(Bytes(f))) /\ Len(Bytes(f)) = files[f].len
    BY <2>1
  <2> QED BY <2>2 DEF Bytes
<1> DEFINE bytes == Bytes(f)
<1>2. bytes \in Seq(Range(bytes)) /\ Len(bytes) = files[f].len
  BY <1>1
<1> HIDE DEF bytes
<1>3. /\ SubSeq(bytes, a + 1, b + 1) \in Seq(Range(bytes))
      /\ Len(SubSeq(bytes, a + 1, b + 1)) = (b - a) + 1
      /\ \A i \in 1..(b - a) + 1 : SubSeq(bytes, a + 1, b + 1)[i] = bytes[a + i]
  BY <1>2
<1>4. \A i \in 1..(b - a) + 1 : bytes[a + i] = [of |-> f, version |-> files[f].version, at |-> (a + i) - 1]
  BY <1>1 DEF bytes
<1> QED
  BY <1>3, <1>4 DEF bytes, PartOf

LEMMA WholeFile ==
    ASSUME NEW f, files[f].len \in Nat
    PROVE  /\ Bytes(f) \in Seq(Range(Bytes(f))) /\ Len(Bytes(f)) = files[f].len
           /\ IsPlain(Bytes(f))
<1>1. Bytes(f) = [i \in 1..files[f].len |-> Bytes(f)[i]] /\ \A i \in 1..files[f].len : Bytes(f)[i] \in Range(Bytes(f))
  BY DEF Bytes, Range
<1>2. Bytes(f) \in Seq(Range(Bytes(f))) /\ Len(Bytes(f)) = files[f].len
  BY <1>1
<1>3. IsPlain(Bytes(f))
  BY DEF IsPlain, Bytes
<1> QED BY <1>2, <1>3

LEMMA RangePositions ==
    ASSUME NEW len \in Nat, NEW range \in RangeFields,
           ParseSingleRange(range, len).kind = "satisfiable"
    PROVE  ParseSingleRange(range, len).start \in Nat /\ ParseSingleRange(range, len).end \in Nat
  BY DEF RangeFields, ParseSingleRange, SuffixRange, FromRange, Ignored, Unsatisfiable,
         Satisfiable, Lower, Empty, Garbled

\* What load and evaluate make of a file that was read.
LEMMA ReadParts ==
    ASSUME NEW request, Has(request, "range") => request.headers["range"] \in RangeFields,
           NEW f, files[f].len \in Nat, NEW path, NEW mtime \in Nat,
           Send(request, Evaluate(request, file_response(path, Bytes(f), mtime)), f)
    PROVE  PartsAreParts'
<1> DEFINE found == file_response(path, Bytes(f), mtime)
           len == files[f].len
           field == request.headers["range"]
           range == ParseSingleRange(field, Len(found.body))
           r == Evaluate(request, found)
           body == Decoded(answer'.body)
           at == {body[i].at : i \in DOMAIN body}
           named == answer'.headers["Content-Range"]
<1>1. answer'.request = request /\ answer'.file = f
  BY DEF Send, Given
<1>2. found.body = Bytes(f) /\ found.status = 200 /\ IsResponse(found)
  BY DEF file_response, IsResponse
<1>3. "ETag" \in DOMAIN found.headers /\ found.headers["ETag"].len = len
  <2>1. Has(found, "ETag") /\ found.headers["ETag"] = etag(Len(Bytes(f)), mtime)
    BY Stamped
  <2>2. etag(Len(Bytes(f)), mtime).len = len
    BY WholeFile DEF etag
  <2> QED BY <2>1, <2>2 DEF Has
<1>4. /\ IsResponse(r) /\ r.status \in {200, 206, 304, 416}
      /\ r.status = 200 => r = found /\ (Has(request, "range") => range.kind = "ignored")
      /\ r.status = 206 => /\ r = Partial(found, range) /\ Has(request, "range")
                           /\ range.kind = "satisfiable"
      /\ r.status = 416 => /\ r = NotSatisfiable(found) /\ Has(request, "range")
                           /\ range.kind = "unsatisfiable"
  BY Evaluated
<1>5. Len(found.body) = len /\ len \in Nat
  BY <1>2, WholeFile
<1>6. Has(request, "range") =>
        /\ range.kind = "ignored" <=> ~Valid(field) /\ ~EndUnread(field, len)
        /\ range.kind = "satisfiable" =>
              /\ 0 <= range.start /\ range.start <= range.end /\ range.end < len
              /\ range.start..range.end = Wanted(field, len)
        /\ range.kind = "unsatisfiable" => Wanted(field, len) = {}
  BY <1>5, RangesAsAsked DEF RangeFields
<1>7. answer'.status = r.status
  BY <1>4, StatusSent
<1> DEFINE asked == answer'.request.headers["range"]
<1> SUFFICES ASSUME answer'.status \in {200, 206, 416}, answer'.request.method = "GET"
             PROVE  IF answer'.status = 200
                    THEN /\ Len(body) = answer'.headers["ETag"].len
                         /\ Has(answer'.request, "range") => ~Valid(asked)
                    ELSE /\ Valid(asked) \/ EndUnread(asked, named.len)
                         /\ at = Wanted(asked, named.len)
                         /\ at = {} <=> answer'.status = 416
                         /\ at # {} => at = named.start..named.end
                         /\ \A i, j \in DOMAIN body :
                              body[i].version = body[j].version /\ (i < j => body[i].at < body[j].at)
  BY Zenon DEF PartsAreParts, AsAsked
<1> HIDE DEF r, range, found, body
<1>8. asked = field /\ (Has(answer'.request, "range") <=> Has(request, "range"))
  BY <1>1
<1> HIDE DEF asked, field, at, named
<1> USE <1>7, <1>8
<1>9. ASSUME NEW S, r.body \in Seq(S), IsPlain(r.body)
      PROVE  /\ body = r.body
             /\ \A n \in DOMAIN r.headers \ {"Content-Length"} : answer'.headers[n] = r.headers[n]
  <2>1. request.method = "GET" /\ r.status \in {200, 206, 416}
    BY <1>1
  <2>2. Send(request, r, f)
    BY DEF r, found
  <2> QED BY <1>4, <1>9, <2>1, <2>2, OnWire DEF body
<1>10. CASE answer'.status = 200
  <2>1. r = found /\ (Has(request, "range") => range.kind = "ignored")
    BY <1>4, <1>10
  <2>2. r.body \in Seq(Range(Bytes(f))) /\ IsPlain(r.body)
    BY <1>2, <2>1, WholeFile
  <2>3. body = Bytes(f) /\ answer'.headers["ETag"] = found.headers["ETag"]
    BY <1>2, <1>3, <1>9, <2>1, <2>2
  <2>4. Len(body) = len
    BY <2>3, WholeFile
  <2> QED
    BY <1>3, <1>6, <1>10, <2>1, <2>3, <2>4
<1>11. CASE answer'.status = 206
  <2>1. r = Partial(found, range) /\ Has(request, "range") /\ range.kind = "satisfiable"
    BY <1>4, <1>11
  <2>2. /\ range.start \in Nat /\ range.end \in Nat /\ range.start <= range.end /\ range.end < len
        /\ range.start..range.end = Wanted(field, len) /\ (Valid(field) \/ EndUnread(field, len))
    <3>1. range.start \in Nat /\ range.end \in Nat
      BY <1>5, <1>6, <2>1, RangePositions DEF range, field
    <3> QED BY <1>6, <2>1, <3>1
  <2> DEFINE part == PartOf(f, range.start, range.end)
             count == (range.end - range.start) + 1
  <2>3. /\ part \in Seq(Range(Bytes(f))) /\ Len(part) = count
        /\ \A i \in 1..count :
              part[i] = [of |-> f, version |-> files[f].version, at |-> (range.start + i) - 1]
    <3>1. ASSUME NEW a \in Nat, NEW b \in Nat, a <= b, b < files[f].len
          PROVE  /\ PartOf(f, a, b) \in Seq(Range(Bytes(f))) /\ Len(PartOf(f, a, b)) = (b - a) + 1
                 /\ \A i \in 1..(b - a) + 1 :
                       PartOf(f, a, b)[i] = [of |-> f, version |-> files[f].version, at |-> (a + i) - 1]
      BY ONLY files[f].len \in Nat, <3>1, PartOfFile
    <3>2. PICK a \in Nat : a = range.start
      BY <2>2
    <3>3. PICK b \in Nat : b = range.end
      BY <2>2
    <3>4. a <= b /\ b < files[f].len
      BY <2>2, <3>2, <3>3
    <3>5. part = PartOf(f, a, b) /\ count = (b - a) + 1
      BY <3>2, <3>3
    <3> HIDE DEF part, count
    <3> QED BY ONLY <3>1, <3>2, <3>4, <3>5
  <2>4. /\ r.body = part
        /\ r.headers = Joined(Joined(Field("Accept-Ranges", "bytes"),
                                     Field("Content-Range", [start |-> range.start, end |-> range.end, len |-> len])),
                              Only(found.headers, {"Content-Type", "ETag", "Last-Modified"}))
    BY <1>2, <1>5, <2>1 DEF Partial, PartOf
  <2> HIDE DEF part
  <2>5. /\ "Content-Range" \in DOMAIN r.headers
        /\ r.headers["Content-Range"] = [start |-> range.start, end |-> range.end, len |-> len]
    BY <2>4 DEF Joined, Field
  <2>6. DOMAIN part = 1..count /\ count \in Nat
    BY <2>2, <2>3
  <2>7. \A i \in 1..count : part[i].version = files[f].version /\ part[i].at = (range.start + i) - 1
                             /\ "gzip" \notin DOMAIN part[i]
    BY <2>3
  <2>8. IsPlain(part)
    BY <2>6, <2>7 DEF IsPlain
  <2>9. body = part /\ named = [start |-> range.start, end |-> range.end, len |-> len]
    BY <1>9, <2>3, <2>4, <2>5, <2>8 DEF named
  <2>10. at = range.start..range.end
    <3>1. at = {(range.start + i) - 1 : i \in 1..count}
      BY <2>6, <2>7, <2>9 DEF at
    <3>2. \A k \in range.start..range.end : \E i \in 1..count : k = (range.start + i) - 1
      <4> TAKE k \in range.start..range.end
      <4>1. (k - range.start) + 1 \in 1..count /\ k = (range.start + ((k - range.start) + 1)) - 1
        BY <2>2
      <4> QED BY <4>1
    <3>3. \A i \in 1..count : (range.start + i) - 1 \in range.start..range.end
      BY <2>2
    <3> QED BY <3>1, <3>2, <3>3
  <2>11. range.start \in at
    BY <2>2, <2>10
  <2>12. \A i, j \in DOMAIN body :
           body[i].version = body[j].version /\ (i < j => body[i].at < body[j].at)
    <3>1. /\ DOMAIN body = 1..count /\ range.start \in Nat /\ count \in Nat
          /\ \A i \in 1..count : body[i].version = files[f].version /\ body[i].at = (range.start + i) - 1
      BY <2>2, <2>6, <2>7, <2>9
    <3> HIDE DEF count
    <3> QED BY ONLY <3>1
  <2>13. named.start = range.start /\ named.end = range.end /\ named.len = len
    BY <2>9
  <2> QED
    BY <1>11, <2>2, <2>10, <2>11, <2>12, <2>13
<1>12. CASE answer'.status = 416
  <2>1. r = NotSatisfiable(found) /\ Has(request, "range") /\ range.kind = "unsatisfiable"
    BY <1>4, <1>12
  <2>2. (Valid(field) \/ EndUnread(field, len)) /\ Wanted(field, len) = {}
    BY <1>6, <2>1
  <2>3. /\ r.body = <<>>
        /\ r.headers = Joined(<<>>, Field("Content-Range", [start |-> Empty, end |-> Empty, len |-> len]))
    BY <1>5, <2>1, PlainResponse, HeaderAdded DEF NotSatisfiable, Response
  <2>4. /\ "Content-Range" \in DOMAIN r.headers
        /\ r.headers["Content-Range"] = [start |-> Empty, end |-> Empty, len |-> len]
    BY <2>3 DEF Joined, Field
  <2>5. r.body \in Seq({}) /\ IsPlain(r.body)
    BY <2>3 DEF IsPlain
  <2>6. body = <<>> /\ named.len = len
    BY <1>9, <2>3, <2>4, <2>5 DEF named
  <2>7. at = {} /\ DOMAIN body = {}
    BY <2>6 DEF at
  <2> QED
    BY <1>12, <2>2, <2>6, <2>7
<1> QED
  BY <1>10, <1>11, <1>12

\* An answer that is made of no file is of no concern here either.
LEMMA NoFileNoPart ==
    ASSUME answer' = NoAnswer \/ answer'.file = <<>>
    PROVE  PartsAreParts'
<1>1. NoAnswer.status \notin {200, 206, 416}
  BY DEF NoAnswer
<1> QED
  BY <1>1, Zenon DEF PartsAreParts, AsAsked

\* What a step does to the request in hand.
LEMMA RequestInHand ==
    ASSUME RootInv, [Next]_vars
    PROVE  \/ job' = NoJob
           \/ job # NoJob /\ job'.request = job.request
           \/ \E request \in Requests : job'.request = Sent(request)
<1> USE DEF RootInv
<1>1. ASSUME NEW request \in Requests, Allow(request) PROVE job'.request = Sent(request)
  BY <1>1 DEF Allow, NoJob
<1>2. ASSUME NEW request \in Requests, Deny(request) PROVE job' = NoJob
  BY <1>2 DEF Deny, Ready
<1>3. ASSUME NEW r, Answer(r) PROVE job' = NoJob
  BY <1>3 DEF Answer, Send
<1>4. CASE dispatch
  <2>1. CASE \E r : Answer(r)
    BY <1>3, <2>1
  <2>2. CASE job' = IF job.request.method \in {"GET", "HEAD"}
                    THEN [job EXCEPT !.stage = "stat",
                                     !.left = candidate_paths(RequestPath(job.request.target))]
                    ELSE [job EXCEPT !.stage = "discover"]
    BY <1>4, <2>2 DEF dispatch, JobShape, NoJob
  <2> QED
    BY <1>4, <2>1, <2>2, Zenon DEF dispatch
<1>5. CASE Stat
  BY <1>5 DEF Stat, JobShape, NoJob
<1>6. CASE Read
  <2>1. CASE \E response, file : Send(job.request, response, file)
    BY <2>1 DEF Send
  <2>2. CASE job' = [job EXCEPT !.stage = "stat", !.left = Tail(@)]
    BY <1>6, <2>2 DEF Read, JobShape, NoJob
  <2> QED
    BY <1>6, <2>1, <2>2, Zenon DEF Read
<1>7. CASE Miss
  BY <1>7 DEF Miss, JobShape, NoJob
<1>8. CASE Discover
  <2>1. CASE \E r : Answer(r)
    BY <1>3, <2>1
  <2>2. CASE job' = [job EXCEPT !.stage = "probe",
                                !.left = candidate_paths(RequestPath(job.request.target))]
    BY <1>8, <2>2 DEF Discover, JobShape, NoJob
  <2> QED
    BY <1>8, <2>1, <2>2, Zenon DEF Discover
<1>9. CASE Probe
  BY <1>3, <1>9 DEF Probe, JobShape, NoJob
<1>10. CASE Deliver \/ Tick
  BY <1>10 DEF Deliver, Tick
<1>11. ASSUME NEW f \in Files, Unlink(f) PROVE job' = NoJob \/ (job # NoJob /\ job'.request = job.request)
  <2>1. job' = [job EXCEPT !.quiet = (job = NoJob)]
    BY <1>11 DEF Unlink
  <2>2. job'.request = job.request
    BY <2>1 DEF JobShape
  <2>3. ASSUME job = NoJob PROVE job' = NoJob
    <3>1. (job = NoJob) = TRUE
      BY <2>3, Zenon
    <3>2. job' = [NoJob EXCEPT !.quiet = TRUE]
      BY <2>1, <2>3, <3>1
    <3> QED BY <3>2, IdleStays
  <2> QED BY <2>2, <2>3
<1>12. ASSUME NEW f \in Files, NEW len \in Lengths[f], Write(f, len)
       PROVE  job' = NoJob \/ (job # NoJob /\ job'.request = job.request)
  <2>1. job' = [job EXCEPT !.seen = IF job = NoJob THEN {} ELSE @ \cup {made + 1},
                           !.quiet = (job = NoJob)]
    BY <1>12 DEF Write
  <2>2. job'.request = job.request
    BY <2>1 DEF JobShape
  <2>3. ASSUME job = NoJob PROVE job' = NoJob
    <3>1. (job = NoJob) = TRUE
      BY <2>3, Zenon
    <3>2. job' = [NoJob EXCEPT !.seen = {}, !.quiet = TRUE]
      BY <2>1, <2>3, <3>1
    <3> QED BY <3>2, IdleStays
  <2> QED BY <2>2, <2>3
<1>13. CASE UNCHANGED vars
  BY <1>13 DEF vars
<1> QED
  BY <1>1, <1>2, <1>4, <1>5, <1>6, <1>7, <1>8, <1>9, <1>10, <1>11, <1>12, <1>13, Zenon DEF Next

LEMMA PartsStep == RootInv /\ HonestInv /\ PartsInv /\ [Next]_vars => PartsInv'
<1> SUFFICES ASSUME RootInv, HonestInv, PartsInv, [Next]_vars PROVE PartsInv'
  OBVIOUS
<1>1. RangeInHand'
  BY RequestInHand, SentRange DEF PartsInv, RangeInHand
<1>2. ASSUME Read PROVE PartsAreParts'
  <2> DEFINE file == Canonical(Root \o Head(job.left))
             found == file_response(Head(job.left), Bytes(file), job.mtime)
  <2>1. /\ job.stage = "read" /\ job # NoJob /\ job.mtime \in Nat
        /\ file \in Files /\ files[file].len \in Nat
    BY <1>2, TypeParts, BoundsAssumption DEF Read, HonestInv, JobTypes, StatOfFile, WorldTypes, NoJob
  <2>2. CASE Send(job.request, Evaluate(job.request, found), file)
    BY <2>1, <2>2, ReadParts DEF PartsInv, RangeInHand
  <2>3. CASE Silently
    BY <2>3, NoFileNoPart DEF Silently
  <2> QED
    BY <1>2, <2>2, <2>3, Zenon DEF Read
<1>3. ASSUME NEW r, Answer(r) PROVE PartsAreParts'
  BY <1>3, SentFile, NoFileNoPart DEF Answer
<1>4. ASSUME UNCHANGED answer PROVE PartsAreParts'
  BY <1>4, Zenon DEF PartsInv, PartsAreParts
<1>5. ASSUME Silently PROVE PartsAreParts'
  BY <1>5, NoFileNoPart DEF Silently
<1>6. ASSUME NEW request \in Requests, Deny(request) PROVE PartsAreParts'
  BY <1>6, NoFileNoPart DEF Deny, Given
<1>7. ASSUME NEW request \in Requests, Allow(request) PROVE PartsAreParts'
  BY <1>5, <1>7 DEF Allow
<1>8. ASSUME dispatch \/ Stat \/ Miss \/ Discover \/ Probe \/ Deliver \/ Tick PROVE PartsAreParts'
  BY <1>3, <1>5, <1>8, Zenon DEF dispatch, Stat, Miss, Discover, Probe, Deliver, Tick
<1>9. ASSUME NEW f \in Files, Unlink(f) \/ \E len \in Lengths[f] : Write(f, len) PROVE PartsAreParts'
  BY <1>9, NoFileNoPart DEF Unlink, Write
<1>10. PartsAreParts'
  BY <1>2, <1>4, <1>6, <1>7, <1>8, <1>9, Zenon DEF Next, vars
<1> QED
  BY <1>1, <1>10 DEF PartsInv

\* For files of any length and any Range field, whatever is written meanwhile,
\* the part that apply_range cuts out is the one asked for, of one version,
\* with its positions in Content-Range, also behind compression.
THEOREM PartsTheorem == Spec => []PartsAreParts
<1>1. Init => PartsInv
  BY DEF Init, PartsInv, RangeInHand, PartsAreParts, AsAsked, NoAnswer
<1>2. PartsInv => PartsAreParts
  BY DEF PartsInv
<1> QED
  BY <1>1, <1>2, PartsStep, HonestInvariant, InitRoot, NextRoot, PTL DEF Spec
-----------------------------------------------------------------------------
(* Allow fields. *)

\* A path at which a file is served, and the methods discovery lists for one.
Serves(path) ==
    \E i \in DOMAIN candidate_paths(path) :
        Resolves(candidate_paths(path)[i], follow, Present)
Listed(path) ==
    IF allowed_methods(path) # {} THEN allow_header_value(allowed_methods(path))
    ELSE {"GET", "HEAD", "OPTIONS"}

\* What the stages before have found out about the routes.
RoutesTried ==
    LET path == RequestPath(job.request.target)
    IN  /\ job.stage \in {"stat", "read", "discover", "probe"} =>
              ~Dispatched(job.request.method, path)
        /\ job.stage \in {"stat", "read"} => job.request.method \in {"GET", "HEAD"}
        /\ job.stage = "probe" => allowed_methods(path) = {}

\* ... and about files: while none changes, the candidates before those left
\* are missing, and all of them once a GET or HEAD has gone on to discovery.
FilesTried ==
    job.quiet =>
        /\ job.stage \in {"stat", "read", "probe"} =>
              \A i \in 1..(Len(Candidates(job)) - Len(job.left)) :
                  ~Resolves(Candidates(job)[i], follow, Present)
        /\ job.stage \in {"discover", "probe"} /\ job.request.method \in {"GET", "HEAD"} =>
              ~Serves(RequestPath(job.request.target))

\* An Allow field that the client still believes is what discovery lists now,
\* and no file has changed since the request in hand began.
PromiseKept ==
    promised # NoPromise =>
        /\ job.quiet
        /\ promised.allow = Listed(promised.path)
        /\ allowed_methods(promised.path) = {} => Serves(promised.path)

AllowInv == RoutesTried /\ FilesTried /\ PromiseKept /\ AllowAgrees

LEMMA NothingMoved ==
    ASSUME UNCHANGED <<files, follow>>
    PROVE  /\ Present' = Present /\ follow' = follow
           /\ \A path : Serves(path)' <=> Serves(path)
<1>1. Present' = Present
  BY DEF Present
<1>2. \A path : Serves(path)' <=> Serves(path)
  BY <1>1 DEF Serves
<1> QED
  BY <1>1, <1>2

\* A path is shadowed if routes and files both know it.
LEMMA ShadowedMeans ==
    ASSUME NEW path
    PROVE  Shadowed(path) <=> allowed_methods(path) # {} /\ Serves(path)
  BY DEF Shadowed, Serves

\* What the router does not answer is not in the list of a path with routes,
\* unless it is OPTIONS, and what it answers is.
LEMMA RoutesListed ==
    ASSUME NEW method, NEW path
    PROVE  /\ Dispatched(method, path) => allowed_methods(path) # {} /\ method \in Listed(path)
           /\ allowed_methods(path) # {} /\ ~Dispatched(method, path) /\ method # "OPTIONS"
                => method \notin Listed(path)
<1>1. Dispatched(method, path) =>
        \E m \in allowed_methods(path) : m = method \/ (method = "HEAD" /\ m = "GET")
  BY DEF Dispatched, Answering, allowed_methods, method_matches
<1>2. \A m \in allowed_methods(path) :
        m = method \/ (method = "HEAD" /\ m = "GET") => Dispatched(method, path)
  BY DEF Dispatched, Answering, allowed_methods, method_matches
<1> QED
  BY <1>1, <1>2 DEF Listed, allow_header_value

LEMMA OptionsListed == \A path : "OPTIONS" \in Listed(path)
  BY DEF Listed, allow_header_value

\* The Allow field of a 405 survives compression and the way to the wire.
LEMMA FieldsSent ==
    ASSUME NEW request, NEW r, IsResponse(r), NEW file, Send(request, r, file),
           Has(r, "Allow"), r.status = 405
    PROVE  answer'.headers["Allow"] = r.headers["Allow"]
<1> DEFINE w == post_process(request, r)
<1>1. w.status = r.status /\ "Allow" \in DOMAIN w.headers /\ w.headers["Allow"] = r.headers["Allow"]
  BY PostProcessed DEF Has
<1>2. answer' = Given(request, w, file, job.seen, job.quiet)
  BY DEF Send
<1> HIDE DEF w
<1>3. ~IsEmptyBody(w.status)
  BY <1>1 DEF IsEmptyBody
<1>4. answer'.headers = Joined(Field("Content-Length", Len(w.body)), w.headers)
  BY <1>2, <1>3 DEF Given, Serialize
<1> QED
  BY <1>1, <1>4 DEF Joined, Field

\* An answer agrees with the promise that was made before.
LEMMA SentAgrees ==
    ASSUME UNCHANGED <<files, follow>>,
           NEW request, NEW r, IsResponse(r), NEW file, Send(request, r, file),
           /\ promised # NoPromise /\ promised.path = RequestPath(request.target)
           /\ ~Shadowed(promised.path)
           => (r.status \in {404, 405} <=> request.method \notin promised.allow),
           r.status = 405 => Has(r, "Allow"),
           r.status = 405 /\ job.quiet => request.method \notin r.headers["Allow"]
    PROVE  AllowAgrees'
<1>1. /\ answer'.status = r.status /\ answer'.request = request
      /\ answer'.promised = promised /\ answer'.quiet = job.quiet
  BY StatusSent DEF Send, Given
<1>2. r.status = 405 => answer'.headers["Allow"] = r.headers["Allow"]
  BY FieldsSent
<1>3. Shadowed(answer.promised.path)' <=> Shadowed(answer'.promised.path)
  <2>1. Present' = Present /\ follow' = follow
    BY NothingMoved
  <2> QED BY <2>1 DEF Shadowed
<1> QED
  BY <1>1, <1>2, <1>3 DEF AllowAgrees

LEMMA IdleTried ==
    ASSUME job' = NoJob
    PROVE  RoutesTried' /\ FilesTried' /\ job'.quiet
  BY DEF RoutesTried, FilesTried, NoJob

\* The promise stays while nothing moves.
LEMMA PromiseStays ==
    ASSUME PromiseKept, UNCHANGED <<files, follow, promised>>, job.quiet => job'.quiet
    PROVE  PromiseKept'
<1>1. Present' = Present /\ follow' = follow
  BY NothingMoved
<1>2. Serves(promised.path)' <=> Serves(promised.path)
  BY <1>1 DEF Serves
<1> QED
  BY <1>2 DEF PromiseKept

\* A step of the job in hand that ends in no answer.
LEMMA SilentAllow ==
    ASSUME AllowInv, UNCHANGED <<files, follow, promised>>, answer' = NoAnswer,
           job.quiet => job'.quiet, RoutesTried', FilesTried'
    PROVE  AllowInv'
<1>1. AllowAgrees'
  BY DEF AllowAgrees
<1> QED
  BY <1>1, PromiseStays DEF AllowInv

\* An answer that is made of no file.
LEMMA AnswerAllow ==
    ASSUME AllowInv, UNCHANGED <<files, follow>>, NEW r, IsResponse(r), Answer(r),
           LET request == job.request
               path == RequestPath(request.target)
           IN  /\ Has(r, "Allow") /\ request.target # Asterisk =>
                    /\ r.headers["Allow"] = Listed(path)
                    /\ allowed_methods(path) = {} => Serves(path)
               /\ promised # NoPromise /\ promised.path = path /\ ~Shadowed(path)
                    => (r.status \in {404, 405} <=> request.method \notin Listed(path))
               /\ r.status = 405 => Has(r, "Allow")
               /\ r.status = 405 /\ job.quiet => request.method \notin r.headers["Allow"]
    PROVE  AllowInv'
<1> DEFINE path == RequestPath(job.request.target)
<1>1. Send(job.request, r, <<>>) /\ promised' = Noted(job.request, r)
  BY DEF Answer
<1>2. AllowAgrees'
  BY <1>1, SentAgrees DEF AllowInv, PromiseKept
<1>3. job' = NoJob
  BY <1>1 DEF Send
<1>4. RoutesTried' /\ FilesTried' /\ job'.quiet
  BY <1>3, IdleTried
<1>5. PromiseKept'
  <2>1. CASE Has(r, "Allow") /\ job.request.target # Asterisk
    <3>1. promised' = [path |-> path, allow |-> r.headers["Allow"]]
      BY <1>1, <2>1 DEF Noted
    <3>2. promised'.path = path /\ promised'.allow = Listed(path)
      BY <2>1, <3>1
    <3>3. Present' = Present /\ follow' = follow
      BY NothingMoved
    <3>4. allowed_methods(path) = {} => Serves(promised.path)'
      BY <2>1, <3>2, <3>3 DEF Serves
    <3> QED
      BY <1>4, <3>2, <3>4 DEF PromiseKept
  <2>2. CASE ~(Has(r, "Allow") /\ job.request.target # Asterisk)
    BY <1>1, <1>4, <2>2, PromiseStays DEF Noted, AllowInv
  <2> QED BY <2>1, <2>2
<1> QED
  BY <1>2, <1>4, <1>5 DEF AllowInv

LEMMA DiscoveryAllow ==
    ASSUME NEW request, NEW allow
    PROVE  LET r == Discovery(request, allow)
           IN  /\ IsResponse(r) /\ Has(r, "Allow") /\ r.headers["Allow"] = allow
               /\ r.status = IF request.method = "OPTIONS" THEN 200 ELSE 405
<1>1. /\ IsResponse(Response(200)) /\ Response(200).status = 200 /\ Response(200).headers = <<>>
      /\ IsResponse(Text(405)) /\ Text(405).status = 405 /\ Text(405).headers = Field("Content-Type", "text/plain")
  BY PlainResponse DEF Response, Text, Typed
<1>2. \A f : "Allow" \notin DOMAIN f => /\ "Allow" \in DOMAIN Joined(f, Field("Allow", allow))
                                         /\ Joined(f, Field("Allow", allow))["Allow"] = allow
  BY DEF Joined, Field
<1>3. "Allow" \notin DOMAIN <<>> /\ "Allow" \notin DOMAIN Field("Content-Type", "text/plain")
  BY DEF Field
<1> QED
  BY <1>1, <1>2, <1>3, HeaderAdded DEF Discovery, Has

LEMMA HandlerNoAllow ==
    ASSUME NEW handler, NEW request
    PROVE  ~Has(Handle(handler, request), "Allow")
<1>1. /\ \A s : Text(s).headers = Field("Content-Type", "text/plain")
      /\ \A s : Json(s).headers = Field("Content-Type", "application/json")
  BY DEF Text, Json, Typed
<1>2. \A s : IsResponse(Text(s)) /\ IsResponse(Json(s))
  BY PlainResponse
<1>3. \A t : "Allow" \notin DOMAIN Field("Content-Type", t)
             /\ "Allow" \notin DOMAIN Joined(Field("Content-Type", t), Field("Accept-Query", "form"))
  BY DEF Field, Joined
<1>4. ~Has(search(request), "Allow")
  BY <1>1, <1>2, <1>3, HeaderAdded DEF search, Has
<1>5. ~Has(health, "Allow")
  BY <1>1, <1>3 DEF health, Has
<1> QED
  BY <1>4, <1>5 DEF Handle

\* The candidates before those left are missing.
MissedBefore(left) ==
    \A i \in 1..(Len(Candidates(job)) - Len(left)) :
        ~Resolves(Candidates(job)[i], follow, Present)

LEMMA TriedOneMore ==
    ASSUME RootInv, HonestInv, job.stage \in {"stat", "read", "probe"}, job.left # <<>>,
           MissedBefore(job.left), ~Resolves(Head(job.left), follow, Present)
    PROVE  MissedBefore(Tail(job.left))
<1> DEFINE s == job.left
           t == Candidates(job)
           S == Range(t)
<1>1. s \in Seq(S) /\ s # <<>> /\ t \in Seq(S) /\ IsSuffix(s, t)
  BY CandidatesAreListed, TypeParts DEF RootInv, LeftToTry, Candidates, HonestInv, JobTypes
<1>2. \A i \in 1..(Len(t) - Len(s)) : ~Resolves(t[i], follow, Present)
  BY DEF MissedBefore
<1>3. ~Resolves(Head(s), follow, Present)
  OBVIOUS
<1> HIDE DEF s, t, S
<1>4. Len(s) \in Nat /\ Len(t) \in Nat /\ Len(s) > 0 /\ Len(s) <= Len(t) /\ Len(Tail(s)) = Len(s) - 1
  BY <1>1, SuffixMeans
<1>5. Head(s) = t[(Len(t) - Len(s)) + 1]
  <2>1. \A i \in 1..Len(s) : s[(Len(s) - i) + 1] = t[(Len(t) - i) + 1]
    BY <1>1, SuffixMeans
  <2> DEFINE n == Len(s)
  <2>2. n \in 1..n /\ (n - n) + 1 = 1
    BY <1>4
  <2>3. s[(n - n) + 1] = t[(Len(t) - n) + 1]
    <3> HIDE DEF n
    <3>1. \A i \in 1..n : s[(n - i) + 1] = t[(Len(t) - i) + 1]
      BY <2>1 DEF n
    <3> QED BY <2>2, <3>1
  <2> QED BY <1>1, <2>2, <2>3
<1>6. \A i \in 1..(Len(t) - Len(Tail(s))) : i \in 1..(Len(t) - Len(s)) \/ i = (Len(t) - Len(s)) + 1
  BY <1>4
<1> QED
  BY <1>2, <1>3, <1>5, <1>6 DEF MissedBefore, s, t

LEMMA TriedAll ==
    ASSUME job.left = <<>>, MissedBefore(job.left)
    PROVE  ~Serves(RequestPath(job.request.target))
<1> DEFINE t == Candidates(job)
<1>1. t \in Seq(Range(t))
  BY CandidatesAreListed DEF Candidates
<1>2. DOMAIN t = 1..(Len(t) - Len(job.left))
  <2> HIDE DEF t
  <2> QED BY <1>1
<1> QED
  BY <1>2 DEF Serves, MissedBefore, Candidates

LEMMA TriedNone == MissedBefore(Candidates(job))
<1> DEFINE t == Candidates(job)
<1>1. t \in Seq(Range(t))
  BY CandidatesAreListed DEF Candidates
<1>2. 1..(Len(t) - Len(t)) = {}
  <2> HIDE DEF t
  <2> QED BY <1>1
<1> QED
  BY <1>2 DEF MissedBefore

\* The next state's view of what was tried, when nothing moves.
LEMMA TriedNext ==
    ASSUME UNCHANGED <<files, follow>>, job'.request = job.request, job.quiet = job'.quiet,
           job.quiet /\ job'.stage \in {"stat", "read", "probe"} => MissedBefore(job'.left),
           job.quiet /\ job'.stage \in {"discover", "probe"} /\ job.request.method \in {"GET", "HEAD"} =>
               ~Serves(RequestPath(job.request.target))
    PROVE  FilesTried'
<1>1. Present' = Present /\ follow' = follow
  BY NothingMoved
<1>2. Candidates(job)' = Candidates(job)
  BY DEF Candidates
<1>3. Serves(RequestPath(job.request.target))' <=> Serves(RequestPath(job.request.target))
  BY <1>1 DEF Serves
<1> QED
  BY <1>1, <1>2, <1>3 DEF FilesTried, MissedBefore

LEMMA TriedNow ==
    ASSUME FilesTried, job.quiet
    PROVE  /\ job.stage \in {"stat", "read", "probe"} => MissedBefore(job.left)
           /\ job.stage \in {"discover", "probe"} /\ job.request.method \in {"GET", "HEAD"} =>
                 ~Serves(RequestPath(job.request.target))
  BY DEF FilesTried, MissedBefore

LEMMA AllowInit == Init => AllowInv
  BY DEF Init, AllowInv, RoutesTried, FilesTried, PromiseKept, AllowAgrees, NoJob

\* A step of the world, that changes a file.
LEMMA FilesMoved ==
    ASSUME RootInv, AllowInv, promised' = NoPromise, answer' = NoAnswer, follow' = follow,
           NEW seen, job' = [job EXCEPT !.seen = seen, !.quiet = (job = NoJob)],
           job = NoJob => seen = {}
    PROVE  AllowInv'
<1>1. CASE job = NoJob
  <2>1. (job = NoJob) = TRUE
    BY <1>1, Zenon
  <2>2. job' = NoJob
    BY <1>1, <2>1, IdleStays
  <2> QED
    BY <2>2, IdleTried DEF AllowInv, PromiseKept, AllowAgrees
<1>2. CASE job # NoJob
  <2>1. /\ job'.stage = job.stage /\ job'.request = job.request /\ ~job'.quiet
    BY <1>2 DEF RootInv, JobShape
  <2>2. RoutesTried'
    BY <2>1 DEF AllowInv, RoutesTried
  <2> QED
    BY <2>1, <2>2 DEF AllowInv, FilesTried, PromiseKept, AllowAgrees
<1> QED
  BY <1>1, <1>2

LEMMA AllowStep == RootInv /\ HonestInv /\ AllowInv /\ [Next]_vars => AllowInv'
<1> SUFFICES ASSUME RootInv, HonestInv, AllowInv, [Next]_vars PROVE AllowInv'
  OBVIOUS
<1> DEFINE request == job.request
           path == RequestPath(request.target)
<1> USE DEF RootInv, AllowInv
<1>1. ASSUME NEW r \in Requests, Deny(r) PROVE AllowInv'
  <2>1. answer'.status = 429 /\ UNCHANGED <<files, follow, job, promised>>
    BY <1>1 DEF Deny, Given, Serialize, WithHeader, Text, Typed
  <2>2. AllowAgrees'
    BY <2>1 DEF AllowAgrees
  <2>3. RoutesTried' /\ FilesTried'
    <3>1. Present' = Present /\ follow' = follow
      BY <2>1, NothingMoved
    <3> QED
      BY <2>1, <3>1 DEF RoutesTried, FilesTried, Serves, Candidates
  <2> QED
    BY <2>1, <2>2, <2>3, PromiseStays
<1>2. ASSUME NEW r \in Requests, Allow(r) PROVE AllowInv'
  <2>1. /\ job'.stage = "dispatch" /\ job'.quiet
        /\ answer' = NoAnswer /\ UNCHANGED <<files, follow, promised>>
    BY <1>2 DEF Allow, NoJob, Silently
  <2> QED
    BY <2>1, SilentAllow DEF RoutesTried, FilesTried
<1>3. CASE dispatch
  <2>1. CASE /\ request.method = "OPTIONS" /\ request.target = Asterisk
             /\ Answer(WithHeader(Response(200), "Allow",
                           allow_header_value(registered_methods \cup {"GET"})))
    <3> DEFINE r == WithHeader(Response(200), "Allow", allow_header_value(registered_methods \cup {"GET"}))
    <3>1. IsResponse(r) /\ r.status = 200
      BY PlainResponse, HeaderAdded
    <3> HIDE DEF r
    <3> QED
      BY <1>3, <2>1, <3>1, OptionsListed, AnswerAllow DEF dispatch, r
  <2>2. CASE Dispatched(request.method, path) /\ Answer(Handle(HandlerOf(request.method, path), request))
    <3> DEFINE r == Handle(HandlerOf(request.method, path), request)
    <3>1. IsResponse(r) /\ r.status \in {200, 400, 415} /\ ~Has(r, "Allow")
      BY HandlerResponse, HandlerNoAllow
    <3>2. request.method \in Listed(path)
      BY <2>2, RoutesListed
    <3> HIDE DEF r
    <3> QED
      BY <1>3, <2>2, <3>1, <3>2, AnswerAllow DEF dispatch, r
  <2>3. CASE /\ ~Dispatched(request.method, path)
             /\ job' = IF request.method \in {"GET", "HEAD"}
                       THEN [job EXCEPT !.stage = "stat", !.left = candidate_paths(path)]
                       ELSE [job EXCEPT !.stage = "discover"]
             /\ Silently
    <3>1. /\ job'.request = job.request /\ job'.quiet = job.quiet
          /\ IF request.method \in {"GET", "HEAD"}
             THEN job'.stage = "stat" /\ job'.left = Candidates(job)
             ELSE job'.stage = "discover"
          /\ UNCHANGED <<files, follow, promised>> /\ answer' = NoAnswer
      BY <1>3, <2>3 DEF dispatch, Silently, JobShape, Candidates
    <3>2. RoutesTried'
      BY <2>3, <3>1 DEF RoutesTried
    <3>3. FilesTried'
      BY <3>1, TriedNone, TriedNext
    <3> QED
      BY <3>1, <3>2, <3>3, SilentAllow
  <2> QED
    BY <1>3, <2>1, <2>2, <2>3, Zenon DEF dispatch
<1>4. CASE Stat
  <2>1. /\ job.stage = "stat" /\ job.left # <<>>
        /\ job'.request = job.request /\ job'.quiet = job.quiet
        /\ UNCHANGED <<files, follow, promised>> /\ answer' = NoAnswer
        /\ IF Resolves(Head(job.left), follow, Present)
           THEN job'.stage = "read" /\ job'.left = job.left
           ELSE job'.stage = "stat" /\ job'.left = Tail(job.left)
    BY <1>4 DEF Stat, Silently, JobShape
  <2>2. RoutesTried'
    BY <2>1 DEF RoutesTried
  <2>3. FilesTried'
    BY <2>1, TriedNow, TriedOneMore, TriedNext
  <2> QED
    BY <2>1, <2>2, <2>3, SilentAllow
<1>5. CASE Read
  <2> DEFINE file == Canonical(Root \o Head(job.left))
             found == file_response(Head(job.left), Bytes(file), job.mtime)
             r == Evaluate(request, found)
  <2>1. job.stage = "read" /\ job.left # <<>> /\ UNCHANGED <<files, follow>>
    BY <1>5 DEF Read, LookedUp
  <2>2. CASE /\ file \in Present /\ Send(request, r, file)
             /\ promised' = IF copy' = copy THEN promised ELSE NoPromise
    <3>1. IsResponse(r) /\ r.status \in {200, 206, 304, 416}
      BY Evaluated
    <3>2. Resolves(Head(job.left), follow, Present)
      BY <2>1, <2>2 DEF Resolves, LookedUp
    <3>3. Serves(path)
      <4>1. Head(job.left) \in Range(Candidates(job))
        BY <2>1, TailLeft DEF LeftToTry
      <4> QED
        BY <3>2, <4>1 DEF Serves, Range, Candidates
    <3>4. request.method \in {"GET", "HEAD"}
      BY <2>1 DEF RoutesTried
    <3>5. ~Shadowed(path) => request.method \in Listed(path)
      BY <3>3, <3>4, ShadowedMeans DEF Listed
    <3>6. AllowAgrees'
      <4> HIDE DEF r
      <4> QED
        BY <2>1, <2>2, <3>1, <3>5, SentAgrees DEF PromiseKept
    <3>7. RoutesTried' /\ FilesTried' /\ job'.quiet
      BY <2>2, IdleTried DEF Send
    <3>8. PromiseKept'
      <4>1. CASE promised' = promised
        BY <2>1, <3>7, <4>1, PromiseStays
      <4>2. CASE promised' = NoPromise
        BY <4>2 DEF PromiseKept
      <4> QED
        BY <2>2, <4>1, <4>2
    <3> QED
      BY <3>6, <3>7, <3>8
  <2>3. CASE /\ file \notin Present
             /\ job' = [job EXCEPT !.stage = "stat", !.left = Tail(@)]
             /\ Silently
    <3>1. /\ job'.request = job.request /\ job'.quiet = job.quiet
          /\ job'.stage = "stat" /\ job'.left = Tail(job.left)
          /\ UNCHANGED promised /\ answer' = NoAnswer
      BY <2>3 DEF Silently, JobShape
    <3>2. ~Resolves(Head(job.left), follow, Present)
      BY <2>3 DEF Resolves
    <3>3. RoutesTried'
      BY <2>1, <3>1 DEF RoutesTried
    <3>4. FilesTried'
      BY <2>1, <3>1, <3>2, TriedNow, TriedOneMore, TriedNext
    <3> QED
      BY <2>1, <3>1, <3>3, <3>4, SilentAllow
  <2> QED
    BY <1>5, <2>2, <2>3, Zenon DEF Read
<1>6. CASE Miss
  <2>1. /\ job.stage = "stat" /\ job.left = <<>>
        /\ job'.request = job.request /\ job'.quiet = job.quiet /\ job'.stage = "discover"
        /\ UNCHANGED <<files, follow, promised>> /\ answer' = NoAnswer
    BY <1>6 DEF Miss, Silently, JobShape
  <2>2. RoutesTried'
    BY <2>1 DEF RoutesTried
  <2>3. FilesTried'
    BY <2>1, TriedNow, TriedAll, TriedNext
  <2> QED
    BY <2>1, <2>2, <2>3, SilentAllow
<1>7. CASE Discover
  <2>1. job.stage = "discover" /\ UNCHANGED <<files, follow>> /\ ~Dispatched(request.method, path)
    BY <1>7 DEF Discover, RoutesTried
  <2>2. CASE /\ allowed_methods(path) # {}
             /\ Answer(Discovery(request, allow_header_value(allowed_methods(path))))
    <3> DEFINE r == Discovery(request, allow_header_value(allowed_methods(path)))
    <3>1. /\ IsResponse(r) /\ Has(r, "Allow") /\ r.headers["Allow"] = Listed(path)
          /\ r.status = IF request.method = "OPTIONS" THEN 200 ELSE 405
      BY <2>2, DiscoveryAllow DEF Listed
    <3>2. request.method \in Listed(path) <=> request.method = "OPTIONS"
      BY <2>1, <2>2, OptionsListed, RoutesListed
    <3> HIDE DEF r
    <3> QED
      BY <2>1, <2>2, <3>1, <3>2, AnswerAllow DEF r
  <2>3. CASE /\ allowed_methods(path) = {}
             /\ job' = [job EXCEPT !.stage = "probe", !.left = candidate_paths(path)]
             /\ Silently
    <3>1. /\ job'.request = job.request /\ job'.quiet = job.quiet
          /\ job'.stage = "probe" /\ job'.left = Candidates(job)
          /\ UNCHANGED promised /\ answer' = NoAnswer
      BY <2>3 DEF Silently, JobShape, Candidates
    <3>2. RoutesTried'
      BY <2>1, <2>3, <3>1 DEF RoutesTried
    <3>3. FilesTried'
      BY <2>1, <3>1, TriedNone, TriedNow, TriedNext
    <3> QED
      BY <2>1, <3>1, <3>2, <3>3, SilentAllow
  <2> QED
    BY <1>7, <2>2, <2>3, Zenon DEF Discover
<1>8. CASE Probe
  <2>1. /\ job.stage = "probe" /\ UNCHANGED <<files, follow>>
        /\ allowed_methods(path) = {} /\ ~Dispatched(request.method, path)
    BY <1>8 DEF Probe, RoutesTried
  <2>2. CASE job.left = <<>> /\ Answer(Text(404))
    <3> DEFINE r == Text(404)
    <3>1. IsResponse(r) /\ r.status = 404 /\ ~Has(r, "Allow")
      BY PlainResponse DEF Text, Typed, Field, Has
    <3>2. ~(promised # NoPromise /\ promised.path = path)
      BY <2>1, <2>2, TriedNow, TriedAll DEF PromiseKept
    <3> HIDE DEF r
    <3> QED
      BY <2>1, <2>2, <3>1, <3>2, AnswerAllow DEF r
  <2>3. CASE /\ job.left # <<>> /\ Resolves(Head(job.left), follow, Present)
             /\ Answer(Discovery(request, {"GET", "HEAD", "OPTIONS"}))
    <3> DEFINE r == Discovery(request, {"GET", "HEAD", "OPTIONS"})
    <3>1. /\ IsResponse(r) /\ Has(r, "Allow") /\ r.headers["Allow"] = Listed(path)
          /\ r.status = IF request.method = "OPTIONS" THEN 200 ELSE 405
      BY <2>1, DiscoveryAllow DEF Listed
    <3>2. Serves(path)
      <4>1. Head(job.left) \in Range(Candidates(job))
        BY <2>1, <2>3, TailLeft DEF LeftToTry
      <4> QED
        BY <2>3, <4>1 DEF Serves, Range, Candidates
    <3>3. job.quiet => (request.method \in Listed(path) <=> request.method = "OPTIONS")
      BY <2>1, <3>2, TriedNow DEF Listed
    <3>4. promised # NoPromise => job.quiet
      BY DEF PromiseKept
    <3> HIDE DEF r
    <3> QED
      BY <2>1, <2>3, <3>1, <3>2, <3>3, <3>4, AnswerAllow DEF r
  <2>4. CASE /\ job.left # <<>> /\ ~Resolves(Head(job.left), follow, Present)
             /\ job' = [job EXCEPT !.left = Tail(@)]
             /\ Silently
    <3>1. /\ job'.request = job.request /\ job'.quiet = job.quiet
          /\ job'.stage = "probe" /\ job'.left = Tail(job.left)
          /\ UNCHANGED promised /\ answer' = NoAnswer
      BY <2>1, <2>4 DEF Silently, JobShape
    <3>2. RoutesTried'
      BY <2>1, <3>1 DEF RoutesTried
    <3>3. FilesTried'
      BY <2>1, <2>4, <3>1, TriedNow, TriedOneMore, TriedNext
    <3> QED
      BY <2>1, <3>1, <3>2, <3>3, SilentAllow
  <2> QED
    BY <1>8, <2>2, <2>3, <2>4, Zenon DEF Probe
<1>9. CASE Deliver \/ Tick \/ UNCHANGED vars
  <2>1. UNCHANGED <<files, follow, job, promised>> /\ (answer' = NoAnswer \/ answer' = answer)
    BY <1>9 DEF Deliver, Tick, Silently, vars
  <2>2. Present' = Present /\ follow' = follow
    BY <2>1, NothingMoved
  <2>3. RoutesTried' /\ FilesTried'
    BY <2>1, <2>2 DEF RoutesTried, FilesTried, Serves, Candidates
  <2>4. AllowAgrees'
    BY <2>1, <2>2 DEF AllowAgrees, Shadowed
  <2> QED
    BY <2>1, <2>3, <2>4, PromiseStays
<1>10. ASSUME NEW f \in Files, Unlink(f) PROVE AllowInv'
  <2>1. job' = [job EXCEPT !.seen = job.seen, !.quiet = (job = NoJob)]
    BY <1>10 DEF Unlink, JobShape
  <2>2. job = NoJob => job.seen = {}
    BY DEF NoJob
  <2> QED
    BY <1>10, <2>1, <2>2, FilesMoved DEF Unlink
<1>11. ASSUME NEW f \in Files, NEW len \in Lengths[f], Write(f, len) PROVE AllowInv'
  <2> DEFINE seen == IF job = NoJob THEN {} ELSE job.seen \cup {made + 1}
  <2>1. job' = [job EXCEPT !.seen = seen, !.quiet = (job = NoJob)]
    BY <1>11 DEF Write
  <2>2. job = NoJob => seen = {}
    OBVIOUS
  <2> HIDE DEF seen
  <2> QED
    BY <1>11, <2>1, <2>2, FilesMoved DEF Write
<1> QED
  BY <1>1, <1>2, <1>3, <1>4, <1>5, <1>6, <1>7, <1>8, <1>9, <1>10, <1>11, Zenon DEF Next

\* For all routes, files, links and index files, the Allow field of a 405 or
\* an OPTIONS answer is true: while no file changes, dispatch refuses with
\* 404 or 405 exactly the methods not listed, unless a file shadows the
\* route, and a 405 given while no file changed does not list the method it
\* refuses.
THEOREM AllowTheorem == Spec => []AllowAgrees
<1>1. AllowInv => AllowAgrees
  BY DEF AllowInv
<1> QED
  BY <1>1, AllowInit, AllowStep, HonestInvariant, InitRoot, NextRoot, PTL DEF Spec
=============================================================================
