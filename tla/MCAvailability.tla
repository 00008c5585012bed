--------------------------- MODULE MCAvailability ---------------------------
(***************************************************************************)
(* Small instances of the availability answers: hours of two ticks, days   *)
(* of six hours and a session from hour 2 to 5.                            *)
(***************************************************************************)
EXTENDS AvailabilityProperties, TLC

CONSTANTS q1, q2, b1, b2, b3, s1, s2

Interval(from, to, offset) ==
    [start |-> [utc |-> from * HourTicks, offset |-> offset],
     end |-> [utc |-> to * HourTicks, offset |-> offset]]

\* Two bookings of one seat that overlap in hour 3 of day 0, and one over midnight,
\* written with an offset.
MCSlots == (b1 :> Interval(2, 4, 0)) @@ (b2 :> Interval(3, 5, 0))
               @@ (b3 :> Interval(0, 3, 5 * HourTicks))

MCSeatsOf == (b1 :> {s1}) @@ (b2 :> {s1}) @@ (b3 :> {s2})
MCReaders == {q1, q2}
MCBookings == {b1, b2, b3}
MCSeats == {s1, s2}
=============================================================================
