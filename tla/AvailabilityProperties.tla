----------------------- MODULE AvailabilityProperties -----------------------
(***************************************************************************)
(* What the availability answers must say.                                 *)
(***************************************************************************)
EXTENDS Availability

Confirmed == {b \in Bookings : status[b] = "confirmed"}

\* A request for one hour of the session, and the seats it cannot have.
HourSlot(d, hour) == [start |-> [utc |-> At(d, hour), offset |-> 0],
                      end |-> [utc |-> At(d, hour + 1), offset |-> 0]]
Taken(d, hour) ==
    UNION {SeatsOf[b] : b \in {b \in Confirmed : Overlaps(SlotOf[b], HourSlot(d, hour))}}

\* A booking in UTC, on the full hour, within one date.
Plain(slot) ==
    /\ slot.start.offset = 0 /\ slot.end.offset = 0
    /\ slot.start.utc % HourTicks = 0 /\ slot.end.utc % HourTicks = 0
    /\ Date(slot.start) = Date(slot.end)

AllPlain == \A b \in Confirmed : Plain(SlotOf[b])

\* What an uninterrupted computation would answer now.
Current(d) == Table(Cardinality(ActiveSeats), d)

\* If all bookings are plain, the seats counted as booked in an hour are exactly
\* those that the conflict query of create_booking would refuse for that hour:
\* _calculate_slots and check_seat_conflicts agree, though one goes by clock
\* hours and the other by instants.
CountsAgreeWithConflicts ==
    AllPlain =>
        \A d \in Dates, hour \in SessionHours : BookedSeats(d, hour) = Taken(d, hour)

\* booked_seats_by_hour has a list for every hour that is added to: no KeyError,
\* whatever slots were accepted, also over midnight or with an offset.
NoKeyError ==
    \A d \in Dates : \A b \in Listed(d) : HoursOf(SlotOf[b]) \subseteq SessionHours

\* If all bookings are plain, an hour shown as available has a seat that can be
\* booked, in spite of seats that were deactivated while booked.
AvailableIsBookable ==
    AllPlain =>
        \A d \in Dates, hour \in SessionHours :
            Current(d)[hour].available => ActiveSeats \ Taken(d, hour) # {}

\* The other way round, an hour with a seat that can be booked is shown as available,
\* if no booked seat was deactivated: also when two bookings have one seat, as they
\* may by way of the race in create_booking, it is counted once.
BookableIsShown ==
    (AllPlain /\ \A b \in Confirmed : SeatsOf[b] \subseteq ActiveSeats) =>
        \A d \in Dates, hour \in SessionHours :
            ActiveSeats \ Taken(d, hour) # {} => Current(d)[hour].available

\* The cache forgets: once bookings and seats no longer change, what it shows is
\* what a computation would give, although no change invalidates it, readers
\* that started before a change store late, and the three reads are not atomic.
CacheConverges ==
    \A d \in Dates : <>[](cache[d] = NoTable \/ cache[d] = Current(d))

\* A hall that stays deactivated is no longer shown.
DeactivatedHallForgotten ==
    <>[](~ hallActive) => \A d \in Dates : <>[](cache[d] = NoTable)
=============================================================================
