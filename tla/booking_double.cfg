SPECIFICATION Spec
CONSTANTS
    MinuteTicks = 1
    HourMinutes = 2
    DayHours = 5
    MIN_BOOKING_HOURS = 1
    MAX_BOOKING_HOURS = 3
    SESSION_START_HOUR = 1
    SESSION_END_HOUR = 4
    r1 = r1
    r2 = r2
    r3 = r3
    u1 = u1
    u2 = u2
    h1 = h1
    h2 = h2
    s1 = s1
    s2 = s2
    s3 = s3
    NoInput = NoInput
    NoOne = NoOne
    Requests <- MCRequests2
    Users <- MCUsers
    Halls <- MCHalls
    Seats <- MCSeats
    HallOf <- MCHallOf
    Inputs <- OneSeat
    ManagedHalls = {}
    ManagedSeats = {}
INVARIANT NoDoubleBooking
