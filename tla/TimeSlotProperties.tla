------------------------ MODULE TimeSlotProperties ------------------------
(***************************************************************************)
(* The time arithmetic evaluated on every slot of a calendar, one slot per *)
(* state, against references written without minutes, overlap conditions   *)
(* or divisions of a duration.                                             *)
(***************************************************************************)
EXTENDS TimeSlot, FiniteSets

CONSTANTS Days,     \* number of days of the calendar
          Offsets   \* UTC offsets (ticks) a client may write

\* An offset is less than a day, in either direction.
ASSUME RequestAssumption ==
    /\ Days \in Nat
    /\ \A o \in Offsets : o \in 1 - DayHours * HourTicks .. DayHours * HourTicks - 1

VARIABLES slot,     \* the requested slot
          verdict   \* "pending", then what validate_time_slot decided

Horizon == Days * DayHours * HourTicks
DateTimes(offset) == {[utc |-> i, offset |-> offset] : i \in 0 .. Horizon - 1}

Init ==
    /\ \E o \in Offsets, p \in Offsets :
           slot \in [start : DateTimes(o), end : DateTimes(p)]
    /\ verdict = "pending"

Validate ==
    /\ verdict = "pending"
    /\ verdict' = IF ValidTimeSlot(slot) THEN "accepted" ELSE "rejected"
    /\ UNCHANGED slot

Spec == Init /\ [][Validate]_<<slot, verdict>>

-----------------------------------------------------------------------------
Ticks(s) == s.start.utc .. s.end.utc - 1
WholeMinutes(s) == \A t \in {s.start, s.end} : Wall(t) % MinuteTicks = 0

\* A slot that the session timetable offers: MIN..MAX consecutive hours of one
\* day between the opening and the closing hour, at least one.
InTimetable(s) ==
    \E day \in -1 .. Days, from \in SESSION_START_HOUR .. SESSION_END_HOUR,
       len \in MIN_BOOKING_HOURS .. MAX_BOOKING_HOURS :
        /\ len > 0 /\ from + len <= SESSION_END_HOUR
        /\ Wall(s.start) = (day * DayHours + from) * HourTicks
        /\ Wall(s.end) = (day * DayHours + from + len) * HourTicks

\* Slots of the first day, on every tick, that a slot is compared with.
Bookable == {s \in [start : DateTimes(0), end : DateTimes(0)] :
                 /\ s.start.utc \in 0 .. 2 * HourTicks
                 /\ s.end.utc \in s.start.utc + 1 .. 3 * HourTicks}

\* The hours that the slot occupies on the clock it starts by.
OccupiedHours(s) == {(t + s.start.offset) \div HourTicks : t \in Ticks(s)}

\* For a slot given in whole minutes, with one UTC offset and on one date,
\* validate_time_slot accepts exactly the slots of the session timetable: both
\* boundaries of the day and of the duration are where they should be.
SameDayVerdictExact ==
    (/\ verdict # "pending" /\ WholeMinutes(slot)
     /\ slot.start.offset = slot.end.offset
     /\ Date(slot.start) = Date(slot.end))
        => (verdict = "accepted" <=> InTimetable(slot))

\* The overlap condition of the conflict query finds an accepted slot and a
\* booked one in conflict exactly when they share an instant: bookings that meet
\* end to end do not collide, and no shared instant is missed.
OverlapsExact ==
    verdict = "accepted" =>
        \A b \in Bookable :
            Overlaps(b, slot) <=> Ticks(b) \cap Ticks(slot) # {}

\* An accepted slot in whole minutes is billed for each hour it occupies, also
\* when it runs past midnight and when its ends carry offsets that differ by whole
\* hours.  With offsets half an hour apart each end is on the full hour of its own
\* clock, and the half hour between them is not billed.
BillsEveryHour ==
    (/\ verdict = "accepted" /\ WholeMinutes(slot)
     /\ (slot.end.offset - slot.start.offset) % HourTicks = 0)
        => BilledHours(slot) = Cardinality(OccupiedHours(slot))

-----------------------------------------------------------------------------
\* "Booking cannot end after {SESSION_END_HOUR}:00": an accepted slot ends on
\* the day it starts, not later than the closing hour.
EndsByClosingHour ==
    verdict = "accepted" =>
        Wall(slot.end) <= (Date(slot.start) * DayHours + SESSION_END_HOUR) * HourTicks
=============================================================================
