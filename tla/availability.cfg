SPECIFICATION FairSpec
CONSTANTS
    MinuteTicks = 1
    HourMinutes = 2
    DayHours = 6
    MIN_BOOKING_HOURS = 1
    MAX_BOOKING_HOURS = 3
    SESSION_START_HOUR = 2
    SESSION_END_HOUR = 5
    q1 = q1
    q2 = q2
    b1 = b1
    b2 = b2
    b3 = b3
    s1 = s1
    s2 = s2
    NoTable = NoTable
    Readers <- MCReaders
    Bookings <- MCBookings
    SlotOf <- MCSlots
    SeatsOf <- MCSeatsOf
    Seats <- MCSeats
    Dates = {0}
INVARIANTS
    TypeOK
    CountsAgreeWithConflicts
    AvailableIsBookable
    BookableIsShown
    NoKeyError
PROPERTIES
    CacheConverges
    DeactivatedHallForgotten
