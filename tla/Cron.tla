-------------------------------- MODULE Cron --------------------------------
(***************************************************************************)
(* Cron expressions (rustlavel-queue, cron.rs) over a civil calendar        *)
(* (time.rs).  The calendar's sizes are constants: the code's are 60        *)
(* seconds, 60 minutes, 24 hours, 7 days, 12 months, and leap years every 4 *)
(* years but for the centuries that are no multiple of 400.                 *)
(***************************************************************************)
EXTENDS Integers, Sequences

CONSTANTS
    Minute, MinutesPerHour, HoursPerDay, DaysPerWeek,
    MonthLengths,                       \* of the months of an ordinary year
    LeapMonth,                          \* the one a leap year makes a day longer
    LeapYears, CenturyYears, EraYears,  \* 4, 100 and 400
    FirstYear,     \* the year day 0 begins
    FirstWeekday,  \* the weekday of day 0
    LimitDays,     \* how far next_after looks
    None

ASSUME CalendarConstants ==
    /\ {Minute, MinutesPerHour, HoursPerDay, DaysPerWeek, LeapYears, CenturyYears, EraYears} \subseteq Nat \ {0}
    /\ MonthLengths \in Seq(Nat \ {0}) /\ LeapMonth \in DOMAIN MonthLengths
    /\ EraYears % CenturyYears = 0 /\ CenturyYears % LeapYears = 0
    /\ FirstYear \in Nat /\ FirstWeekday \in 0 .. DaysPerWeek - 1
    /\ LimitDays \in Nat
    /\ None \notin Int

-----------------------------------------------------------------------------
\* The calendar.
Hour == Minute * MinutesPerHour
Day  == Hour * HoursPerDay

StartOfMinute(t) == t - (t % Minute)
StartOfDay(t)    == t - (t % Day)

Leap(year) == year % LeapYears = 0 /\ (year % CenturyYears # 0 \/ year % EraYears = 0)

MonthsPerYear == Len(MonthLengths)

\* The months of one era, after which the calendar repeats.
MonthDays ==
    [k \in 1 .. EraYears * MonthsPerYear |->
        LET year  == FirstYear + ((k - 1) \div MonthsPerYear)
            month == ((k - 1) % MonthsPerYear) + 1
        IN  MonthLengths[month] + (IF month = LeapMonth /\ Leap(year) THEN 1 ELSE 0)]

DaysBefore[k \in 1 .. EraYears * MonthsPerYear + 1] ==
    IF k = 1 THEN 0 ELSE DaysBefore[k - 1] + MonthDays[k - 1]

CycleDays == DaysBefore[EraYears * MonthsPerYear + 1]

\* civil_from_days: the date of the day numbered n, but for its year.
Date(n) ==
    LET d == n % CycleDays
        k == CHOOSE k \in DOMAIN MonthDays : DaysBefore[k] <= d /\ d < DaysBefore[k + 1]
    IN  [month |-> ((k - 1) % MonthsPerYear) + 1, day |-> d - DaysBefore[k] + 1]

FromUnix(t) ==
    LET date == Date(t \div Day)
    IN  [month   |-> date.month,
         day     |-> date.day,
         hour    |-> (t % Day) \div Hour,
         minute  |-> (t % Hour) \div Minute,
         weekday |-> ((t \div Day) + FirstWeekday) % DaysPerWeek]

\* What next_after's limit of four years is enough for: the days it looks through have
\* a whole week of every month.  A leap day it need not have: eight years pass without
\* one around a century.
ASSUME AmpleLimit ==
    \A n \in 0 .. CycleDays - 1, m \in 1 .. MonthsPerYear :
        \E d \in 0 .. LimitDays - 1 - DaysPerWeek :
            \A j \in 0 .. DaysPerWeek - 1 : Date(n + d + j).month = m

-----------------------------------------------------------------------------
(***************************************************************************)
(* A field is a set of parts, one for each element of its list: "*" has no  *)
(* from, a number has no to, and what has no "/" has no step.               *)
(***************************************************************************)
Star == {[from |-> None, to |-> None, step |-> None]}

Low(part, min) == IF part.from = None THEN min ELSE part.from

High(part, max) ==
    IF part.from = None \/ (part.to = None /\ part.step # None) THEN max
    ELSE IF part.to = None THEN part.from ELSE part.to

\* A range is not the wrong way round and the ends are in bounds; "from/step" has no end
\* of its own, so from beyond the field it selects nothing.
PartParses(part, min, max) ==
    /\ part.step # 0
    /\ part.to # None => part.from <= part.to
    /\ min <= Low(part, min) /\ High(part, max) <= max

ParsePart(part, min, max) ==
    LET step == IF part.step = None THEN 1 ELSE part.step
    IN  {v \in Low(part, min) .. High(part, max) : (v - Low(part, min)) % step = 0}

ParseField(parts, min, max) == UNION {ParsePart(part, min, max) : part \in parts}

\* Both spellings of Sunday: the last number of the field is 0 again.
ParseWeekday(parts) == {v % DaysPerWeek : v \in ParseField(parts, 0, DaysPerWeek)}

LongestMonth == CHOOSE n \in {MonthDays[k] : k \in DOMAIN MonthDays} :
                    \A k \in DOMAIN MonthDays : MonthDays[k] <= n

\* An expression is five fields; parse reports the parts that are out of range.
Parses(text) ==
    /\ \A part \in text.minute : PartParses(part, 0, MinutesPerHour - 1)
    /\ \A part \in text.hour : PartParses(part, 0, HoursPerDay - 1)
    /\ \A part \in text.day : PartParses(part, 1, LongestMonth)
    /\ \A part \in text.month : PartParses(part, 1, MonthsPerYear)
    /\ \A part \in text.weekday : PartParses(part, 0, DaysPerWeek)

Parse(text) ==
    [minute  |-> ParseField(text.minute, 0, MinutesPerHour - 1),
     hour    |-> ParseField(text.hour, 0, HoursPerDay - 1),
     day     |-> ParseField(text.day, 1, LongestMonth),
     month   |-> ParseField(text.month, 1, MonthsPerYear),
     weekday |-> ParseWeekday(text.weekday),
     domRestricted |-> text.day # Star,
     dowRestricted |-> text.weekday # Star]

-----------------------------------------------------------------------------
\* date_matches: two narrowed day fields are alternatives, not conditions.
DateMatches(cron, at) ==
    /\ at.month \in cron.month
    /\ \/ ~cron.domRestricted /\ ~cron.dowRestricted
       \/ cron.domRestricted /\ at.day \in cron.day
       \/ cron.dowRestricted /\ at.weekday \in cron.weekday

Matches(cron, t) ==
    LET at == FromUnix(t)
    IN  DateMatches(cron, at) /\ at.hour \in cron.hour /\ at.minute \in cron.minute

\* Mutant: the rest of the day is skipped to the same time of the next day.
NextAfterKeepsTime(cron, after) ==
    LET first == StartOfMinute(after) + Minute
        Search[candidate \in Nat] ==
            LET at == FromUnix(candidate)
            IN  IF candidate >= first + LimitDays * Day THEN None
                ELSE IF ~DateMatches(cron, at) THEN Search[candidate + Day]
                ELSE IF at.hour \notin cron.hour
                     THEN Search[StartOfDay(candidate) + (at.hour + 1) * Hour]
                ELSE IF at.minute \in cron.minute THEN candidate
                ELSE Search[candidate + Minute]
    IN  Search[first]

\* next_after: the search jumps over days and hours that cannot match.
NextAfter(cron, after) ==
    LET first == StartOfMinute(after) + Minute
        Search[candidate \in Nat] ==
            LET at == FromUnix(candidate)
            IN  IF candidate >= first + LimitDays * Day THEN None
                ELSE IF ~DateMatches(cron, at) THEN Search[StartOfDay(candidate) + Day]
                ELSE IF at.hour \notin cron.hour
                     THEN Search[StartOfDay(candidate) + (at.hour + 1) * Hour]
                ELSE IF at.minute \in cron.minute THEN candidate
                ELSE Search[candidate + Minute]
    IN  Search[first]
=============================================================================
