SPECIFICATION Spec
CONSTANTS
    MinuteTicks = 2
    HourMinutes = 2
    DayHours = 6
    MIN_BOOKING_HOURS = 1
    MAX_BOOKING_HOURS = 3
    SESSION_START_HOUR = 2
    SESSION_END_HOUR = 5
    Days = 2
    Offsets <- MCOffsets
INVARIANTS
    SameDayVerdictExact
    OverlapsExact
    BillsEveryHour
CHECK_DEADLOCK FALSE
