-------------------------- MODULE BookingProperties --------------------------
(***************************************************************************)
(* What the booking handlers must, and what the repository says they do.   *)
(***************************************************************************)
EXTENDS Booking

InCriticalSection(r) == pc[r] \in CriticalSection

\* The Redis lock excludes: two requests are between SET and release under one
\* key only if the TTL has taken the lock from one of them.  A holder whose lock
\* expired never frees the lock of its successor (LOCK_RELEASE_SCRIPT), a lost
\* reply or a crash never lets a second holder in early.
MutexUnlessExpired ==
    \A r, q \in Requests :
        (/\ r # q
         /\ InCriticalSection(r) /\ InCriticalSection(q)
         /\ LockKey(input[r]) = LockKey(input[q]))
            => r \in expired \/ q \in expired

\* Double bookings come from one place only.  If two confirmed bookings share a
\* seat at the same time, neither was committed when the other re-checked for
\* conflicts: a request never books over a booking that was visible to it, in
\* spite of the awaits between its first check, its lock and its commit, and of
\* cancellations in between.
SeenNeverDoubleBooked ==
    \A a, b \in Requests :
        (/\ booking[a] = "confirmed" /\ booking[b] = "confirmed"
         /\ Collide(input[a], input[b]))
            => a \notin saw[b]

\* A stored booking lists each seat once (BookingSeat has no unique constraint),
\* its seats belong to its hall, and none of them had been deactivated when the
\* request arrived.
StoredSeatsSound ==
    \A r \in Requests :
        booking[r] # "absent" =>
            LET seats == input[r].seats IN
                /\ \A i, j \in DOMAIN seats : seats[i] = seats[j] => i = j
                /\ \A s \in SeatSet(input[r]) :
                       HallOf[s] = input[r].hall /\ s \notin retired[r]

\* Only three accidents leave a slot blocked until its key expires: the reply to
\* SET was lost, no release reached Redis, or the process died; and the request
\* then failed.  On every other way out, with a booking, with a conflict found
\* under the lock, with a failed flush or send, the finally clause frees the key,
\* however many holders, expiries and successors there were.
OrphansExplained ==
    \A k \in LockKeys, r \in Requests :
        lock[k] = r =>
            IF k \in orphaned THEN pc[r] = "failed" ELSE InCriticalSection(r)

\* The service keeps the ledger: nothing is committed that was not announced on
\* the topic before, a cancellation is announced only for a committed booking,
\* and a cancelled booking stays so, whatever fails, crashes or races.
Announced == {<<topic[i].type, topic[i].booking>> : i \in DOMAIN topic}

Ledger == INSTANCE BookingLedger WITH
    Bookings <- Requests, status <- booking, announced <- Announced

KeepsLedger == Ledger!Spec

\* Every request that the process starts ends, also the cancellations that wait
\* for the row lock of another cancellation, and also if that one fails.
RequestsEnd ==
    \A r \in Requests : pc[r] # "idle" ~> pc[r] \in Finished

-----------------------------------------------------------------------------
(***************************************************************************)
(* Claims of the repository that the code does not meet.                   *)
(***************************************************************************)

\* README: the distributed lock prevents race conditions in booking: no two
\* confirmed bookings share a seat at the same time.
NoDoubleBooking ==
    \A a, b \in Requests :
        (/\ a # b
         /\ booking[a] = "confirmed" /\ booking[b] = "confirmed")
            => ~ Collide(input[a], input[b])

\* tests/test_booking_service.py, test_cancel_booking_already_cancelled: a
\* booking is cancelled once, a second request is told "already cancelled".
CancelledOnce ==
    \A r, q \in Requests :
        (/\ pc[r] = "done" /\ pc[q] = "done"
         /\ input[r].op = "cancel" /\ input[q].op = "cancel"
         /\ input[r].booking = input[q].booking)
            => r = q
=============================================================================
