------------------------------ MODULE MCBooking ------------------------------
(***************************************************************************)
(* Small instances of the booking handlers.  Hours of two ticks, sessions  *)
(* from hour 1 to hour 4.                                                  *)
(***************************************************************************)
EXTENDS BookingProperties, TLC

CONSTANTS r1, r2, r3, u1, u2, h1, h2, s1, s2, s3

Interval(from, to) ==
    [start |-> [utc |-> from * HourTicks, offset |-> 0],
     end |-> [utc |-> to * HourTicks, offset |-> 0]]

Book(user, hall, seats, from, to) ==
    [op |-> "create", user |-> user, hall |-> hall, seats |-> seats,
     slot |-> Interval(from, to)]

CancelBy(user) ==
    {[op |-> "cancel", user |-> user, booking |-> r] : r \in Requests}

MCRequests2 == {r1, r2}
MCRequests3 == {r1, r2, r3}
MCUsers == {u1, u2}
MCHalls == {h1, h2}
MCSeats == {s1, s2, s3}
MCHallOf == (s1 :> h1) @@ (s2 :> h1) @@ (s3 :> h2)

\* One seat, one slot: everybody wants the same.
OneSeat == {Book(u1, h1, <<s1>>, 1, 2)}

\* Overlapping slots of two seats and their cancellation, and requests to refuse:
\* a repeated seat, a seat of another hall, a slot outside the session.
Mixed ==
    {Book(u1, h1, <<s1>>, 1, 3), Book(u1, h1, <<s1, s2>>, 2, 4)} \cup CancelBy(u1)
        \cup {Book(u1, h1, <<s1, s1>>, 1, 2), Book(u1, h1, <<s3>>, 1, 2),
              Book(u1, h1, <<s2>>, 0, 2)}

\* One booking and the cancellations of its owner and of a stranger.
Cancellations == OneSeat \cup CancelBy(u1) \cup CancelBy(u2)

RequestSymmetry == Permutations(Requests)
=============================================================================
