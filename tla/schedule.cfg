SPECIFICATION Spec
CONSTANTS
    report = report
    prune = prune
    Null = Null
    None = None
    Workers = {w1}
    Jobs = {report, prune}
    Events <- MCEvents
    Exclusive = {prune}
    Dispatches = {report}
    Schedules <- MCSchedules
    Starts = {63}
    Lifetime = 3
    MaxRuns = 2
    MaxTries = 2
    RetryAfter = 1
    BackoffCap = 2
    MaxId = 2
    MaxClears = 1
    Minute = 2
    MinutesPerHour = 2
    HoursPerDay = 2
    DaysPerWeek = 3
    MonthLengths <- MCMonthLengths
    LeapMonth = 2
    LeapYears = 2
    CenturyYears = 4
    EraYears = 8
    FirstYear = 1
    FirstWeekday = 1
    LimitDays = 30
INVARIANTS FlagMeansRunning EveryMinuteTickedOnce ListedNextRuns
PROPERTY KeepsContract
