SPECIFICATION Spec
CONSTANTS
    None = None
    WorkingDays = 2600
    DayMinutes = 480
    PerAbsence = 150
    NoRadius = NoRadius
    Distances = {0, 150}
    WeekdayOfZero = 3
    LastDate = 118
    MaxIrregular = 1
    MonthStart <- MCMonthStart
    Scenarios <- MCScenarios
    Ladder <- MCLadder
INVARIANTS
    ClockIsFollowed
    PaidOnceAtTheSalary
CHECK_DEADLOCK FALSE
