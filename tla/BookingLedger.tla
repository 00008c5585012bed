---------------------------- MODULE BookingLedger ----------------------------
(***************************************************************************)
(* What the booking service promises about one booking at a time, without  *)
(* requests, locks, transactions or crashes: a booking becomes visible     *)
(* only after its creation was announced on the event topic, it is         *)
(* cancelled only after the cancellation was announced, a cancellation is  *)
(* announced only for a booking that is visible, and a cancelled booking   *)
(* stays cancelled.  An announcement may remain without a booking: nothing *)
(* here takes it back.                                                     *)
(***************************************************************************)
CONSTANT Bookings

VARIABLES status,      \* status[b]: what the database shows of booking b
          announced    \* the events <<type, b>> on the topic

vars == <<status, announced>>

Init ==
    /\ status = [b \in Bookings |-> "absent"]
    /\ announced = {}

AnnounceAgain(b) ==               \* mutant: also when the row is there
    /\ announced' = announced \cup {<<"booking_created", b>>}
    /\ UNCHANGED status

AnnounceCreated(b) ==
    /\ status[b] = "absent"
    /\ announced' = announced \cup {<<"booking_created", b>>}
    /\ UNCHANGED status

Confirm(b) ==
    /\ status[b] = "absent"
    /\ <<"booking_created", b>> \in announced
    /\ status' = [status EXCEPT ![b] = "confirmed"]
    /\ UNCHANGED announced

AnnounceCancelled(b) ==
    /\ status[b] # "absent"
    /\ announced' = announced \cup {<<"booking_cancelled", b>>}
    /\ UNCHANGED status

Cancel(b) ==
    /\ status[b] = "confirmed"
    /\ <<"booking_cancelled", b>> \in announced
    /\ status' = [status EXCEPT ![b] = "cancelled"]
    /\ UNCHANGED announced

Next ==
    \E b \in Bookings :
        \/ AnnounceCreated(b)
        \/ Confirm(b)
        \/ AnnounceCancelled(b)
        \/ Cancel(b)

Spec == Init /\ [][Next]_vars
=============================================================================
