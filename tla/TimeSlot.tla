------------------------------ MODULE TimeSlot ------------------------------
(***************************************************************************)
(* The time arithmetic of a booking: the datetimes a client sends, the     *)
(* check of a requested slot (validate_time_slot), the overlap condition   *)
(* of the conflict query (check_seat_conflicts), the hours a booking is    *)
(* billed for, and the hour that names its Redis lock.                     *)
(*                                                                         *)
(* A datetime is an instant and the UTC offset it was written with, both   *)
(* in ticks.  A tick is the part of a minute the code never looks at (its  *)
(* seconds), so a minute lasts MinuteTicks of them.  The calendar is a     *)
(* parameter: TLC uses shorter hours and days than the real 60 and 24.     *)
(***************************************************************************)
EXTENDS Integers

CONSTANTS
    MinuteTicks,         \* ticks in a minute
    HourMinutes,         \* minutes in an hour
    DayHours,            \* hours in a day
    MIN_BOOKING_HOURS,   \* the settings of app/config.py
    MAX_BOOKING_HOURS,
    SESSION_START_HOUR,
    SESSION_END_HOUR

ASSUME CalendarAssumption ==
    /\ MinuteTicks \in Nat \ {0}
    /\ HourMinutes \in Nat \ {0}
    /\ DayHours \in Nat \ {0}
    /\ MIN_BOOKING_HOURS \in Nat /\ MAX_BOOKING_HOURS \in Nat
    /\ SESSION_START_HOUR \in 0 .. DayHours - 1
    /\ SESSION_END_HOUR \in SESSION_START_HOUR + 1 .. DayHours - 1

HourTicks == MinuteTicks * HourMinutes

(***************************************************************************)
(* datetime.hour, .minute and .date() read the wall clock of the offset;   *)
(* comparisons and differences of datetimes use the instant.               *)
(***************************************************************************)
DateTime == [utc : Int, offset : Int]
Slot == [start : DateTime, end : DateTime]

Wall(t) == t.utc + t.offset
Minute(t) == (Wall(t) \div MinuteTicks) % HourMinutes
WallHour(t) == Wall(t) \div HourTicks     \* the date and the hour, as one number
Hour(t) == WallHour(t) % DayHours
Date(t) == WallHour(t) \div DayHours

Duration(slot) == slot.end.utc - slot.start.utc

\* The condition under which validate_time_slot returns instead of raising
\* InvalidTimeSlotError.  It reads no seconds, and the dates only through the
\* duration.
ExclusiveSessionEnd(slot) ==
    /\ slot.end.utc > slot.start.utc
    /\ Duration(slot) >= MIN_BOOKING_HOURS * HourTicks
    /\ Duration(slot) <= MAX_BOOKING_HOURS * HourTicks
    /\ Minute(slot.start) = 0 /\ Minute(slot.end) = 0
    /\ Hour(slot.start) >= SESSION_START_HOUR
    /\ Hour(slot.end) < SESSION_END_HOUR          \* mutant: off by one

ValidTimeSlot(slot) ==
    /\ slot.end.utc > slot.start.utc
    /\ Duration(slot) >= MIN_BOOKING_HOURS * HourTicks
    /\ Duration(slot) <= MAX_BOOKING_HOURS * HourTicks
    /\ Minute(slot.start) = 0 /\ Minute(slot.end) = 0
    /\ Hour(slot.start) >= SESSION_START_HOUR
    /\ Hour(slot.end) <= SESSION_END_HOUR

\* Booking.start_time < end_time AND Booking.end_time > start_time.
OverlapsInclusive(a, b) ==                        \* mutant: <= for <
    /\ a.start.utc <= b.end.utc
    /\ a.end.utc >= b.start.utc

Overlaps(a, b) ==
    /\ a.start.utc < b.end.utc
    /\ a.end.utc > b.start.utc

\* int((end_time - start_time).total_seconds() / 3600), the factor of the
\* hall's hourly rate in the price.
ClockHoursBilled(slot) == Hour(slot.end) - Hour(slot.start)   \* mutant: reads the clock

BilledHours(slot) == Duration(slot) \div HourTicks
=============================================================================
