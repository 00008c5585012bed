SPECIFICATION FairSpec
CONSTANTS
    b1 = b1
    NoOffset = NoOffset
    Bookings <- MCBookings
    ApiRetries = 2
    MaxApiStarts = 1
    MAX_RETRIES = 2
    MaxAssignments = 2
    MaxEvents = 3
INVARIANTS
    TypeOK
    LossExplained
    OncePerAssignment
    LastMailTrue
    OneProducer
PROPERTIES
    UpWorkerDrains
    StartupsEnd
\* Once every bound is reached the system may stop.
CHECK_DEADLOCK FALSE
