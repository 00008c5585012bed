------------------------------- MODULE Booking -------------------------------
(***************************************************************************)
(* The requests that change bookings, POST /bookings (create_booking) and  *)
(* DELETE /bookings/{id} (cancel_booking), running concurrently in one API *)
(* process.  One action is one stretch of a handler between two awaits     *)
(* that other parties can tell apart: a statement on PostgreSQL, a command *)
(* on Redis, a send on Kafka, the commit of get_db.                        *)
(*                                                                         *)
(*   PostgreSQL  isolation is the default, READ COMMITTED: every SELECT    *)
(*               reads what is committed when it runs; rows a transaction  *)
(*               wrote are its own until it commits; a row it updated is   *)
(*               locked until it ends.                                     *)
(*   Redis       SET NX EX and the compare-and-delete script are atomic;   *)
(*               a key with EX disappears at some later time.              *)
(*   Kafka       the topic is an append-only sequence.                     *)
(*                                                                         *)
(* A request handles one booking, so the id of a booking is the request    *)
(* that creates it and the lock token is the request that takes the lock.  *)
(***************************************************************************)
EXTENDS TimeSlot, Sequences, FiniteSets

CONSTANTS
    Requests,       \* HTTP requests
    Users, Halls, Seats,
    HallOf,         \* the hall each seat belongs to
    Inputs,         \* the bodies a request may carry
    ManagedHalls,   \* the halls and seats that administrators switch while
    ManagedSeats,   \*   the requests run
    NoInput, NoOne

CreateInput == [op : {"create"}, user : Users, hall : Halls,
                seats : Seq(Seats), slot : Slot]
CancelInput == [op : {"cancel"}, user : Users, booking : Requests]

ASSUME InputAssumption ==
    /\ \A in \in Inputs : in \in CreateInput \/ in \in CancelInput
    /\ NoInput \notin Inputs

ASSUME NoOneAssumption == NoOne \notin Requests

ASSUME HallAssumption ==
    /\ HallOf \in [Seats -> Halls]
    /\ ManagedHalls \subseteq Halls
    /\ ManagedSeats \subseteq Seats

VARIABLES
    pc,             \* pc[r]: the await at which request r stands
    input,          \* input[r]: its body
    booking,        \* booking[b]: the committed status of the row of booking b
    activeHalls,    \* the committed is_active flags of halls and seats
    activeSeats,
    lock,           \* lock[k]: the token stored under Redis key k
    topic,          \* the events of the topic booking-events
    expired,        \* history: requests whose lock was removed by its TTL
    saw,            \* history: bookings committed when r re-checked conflicts
    retired,        \* history: seats that were inactive when r was received
    orphaned        \* history: keys that no release reached, left to their TTL

data == <<booking, activeHalls, activeSeats>>
history == <<expired, saw, retired, orphaned>>
vars == <<pc, input, booking, activeHalls, activeSeats, lock, topic,
          expired, saw, retired, orphaned>>

-----------------------------------------------------------------------------
SeatSet(in) == {in.seats[i] : i \in DOMAIN in.seats}

\* f"lock:hall:{hall_id}:{date}:{hour}" of the start as the client wrote it.
LockKey(in) == <<in.hall, WallHour(in.slot.start)>>
LockKeys == {LockKey(in) : in \in {i \in Inputs : i.op = "create"}}

Event(r) ==
    IF input[r].op = "create"
    THEN [type |-> "booking_created", booking |-> r]
    ELSE [type |-> "booking_cancelled", booking |-> input[r].booking]

Status == {"absent", "confirmed", "cancelled"}
CreateSteps == {"hall", "seats", "conflicts", "lock", "recheck", "send", "release",
                "unwind"}
CancelSteps == {"find", "update", "notify"}
Finished == {"done", "failed"}
Steps == {"idle", "commit"} \cup CreateSteps \cup CancelSteps \cup Finished
CriticalSection == {"recheck", "send", "release", "unwind"}   \* lock to release

TypeOK ==
    /\ pc \in [Requests -> Steps]
    /\ input \in [Requests -> Inputs \cup {NoInput}]
    /\ booking \in [Requests -> Status]
    /\ activeHalls \subseteq Halls
    /\ activeSeats \subseteq Seats
    /\ lock \in [LockKeys -> Requests \cup {NoOne}]
    /\ topic \in Seq([type : {"booking_created", "booking_cancelled"},
                      booking : Requests])
    /\ expired \subseteq Requests
    /\ saw \in [Requests -> SUBSET Requests]
    /\ retired \in [Requests -> SUBSET Seats]
    /\ orphaned \subseteq LockKeys

Init ==
    /\ pc = [r \in Requests |-> "idle"]
    /\ input = [r \in Requests |-> NoInput]
    /\ booking = [r \in Requests |-> "absent"]
    /\ activeHalls = Halls
    /\ activeSeats = Seats
    /\ lock = [k \in LockKeys |-> NoOne]
    /\ topic = <<>>
    /\ expired = {}
    /\ saw = [r \in Requests |-> {}]
    /\ retired = [r \in Requests |-> {}]
    /\ orphaned = {}

-----------------------------------------------------------------------------
(***************************************************************************)
(* Control of a request.                                                   *)
(***************************************************************************)
Goto(r, step) == pc' = [pc EXCEPT ![r] = step]

\* An exception leaves the handler and get_db rolls the session back.  Inside
\* the try block of create_booking the finally clause runs first.
RaiseSwallowed(r) ==              \* mutant: a failed send is logged and ignored
    Goto(r, IF pc[r] = "send" THEN "release"
            ELSE IF pc[r] = "recheck" THEN "unwind" ELSE "failed")

RaiseOutsideTry(r) ==             \* mutant: the second check stands before the try
    Goto(r, IF pc[r] = "send" THEN "unwind" ELSE "failed")

Raise(r) ==
    Goto(r, IF pc[r] \in {"recheck", "send"} THEN "unwind" ELSE "failed")

KeysOf(r) == {k \in LockKeys : lock[k] = r}

\* A call to PostgreSQL, Redis or Kafka fails without effect.
Abort(r) ==
    /\ pc[r] \notin {"idle"} \cup Finished
    /\ Raise(r)
    /\ orphaned' = IF pc[r] \in {"release", "unwind"}
                    THEN orphaned \cup KeysOf(r) ELSE orphaned
    /\ UNCHANGED <<input, data, lock, topic, expired, saw, retired>>

Receive(r) ==
    /\ pc[r] = "idle"
    /\ \E in \in Inputs :
        /\ input' = [input EXCEPT ![r] = in]
        /\ Goto(r, IF in.op = "create" THEN "hall" ELSE "find")
    /\ retired' = [retired EXCEPT ![r] = Seats \ activeSeats]
    /\ UNCHANGED <<data, lock, topic, expired, saw, orphaned>>

-----------------------------------------------------------------------------
(***************************************************************************)
(* create_booking                                                          *)
(***************************************************************************)

\* The active hall, the user, then validate_time_slot.
FindHall(r) ==
    /\ pc[r] = "hall"
    /\ IF input[r].hall \in activeHalls /\ ValidTimeSlot(input[r].slot)
       THEN Goto(r, "seats")
       ELSE Raise(r)
    /\ UNCHANGED <<input, data, lock, topic, history>>

\* The query finds each active seat of the hall once; the list must be as long.
SeatsExistAsSet(in) ==            \* mutant: compares with the set of ids
    Cardinality({s \in SeatSet(in) : HallOf[s] = in.hall /\ s \in activeSeats})
        = Cardinality(SeatSet(in))

SeatsExist(in) ==
    Cardinality({s \in SeatSet(in) : HallOf[s] = in.hall /\ s \in activeSeats})
        = Len(in.seats)

ValidateSeatsExist(r) ==
    /\ pc[r] = "seats"
    /\ IF SeatsExist(input[r]) THEN Goto(r, "conflicts") ELSE Raise(r)
    /\ UNCHANGED <<input, data, lock, topic, history>>

Collide(a, b) ==
    /\ a.hall = b.hall
    /\ SeatSet(a) \cap SeatSet(b) # {}
    /\ Overlaps(a.slot, b.slot)

HasContainingBooking(in) ==       \* mutant: misses partial overlaps
    \E b \in Requests :
        /\ booking[b] = "confirmed"
        /\ Collide(input[b], in)
        /\ input[b].slot.start.utc <= in.slot.start.utc
        /\ input[b].slot.end.utc >= in.slot.end.utc

HasConflict(in) ==
    \E b \in Requests : booking[b] = "confirmed" /\ Collide(input[b], in)

CheckSeatConflicts(r) ==
    /\ pc[r] = "conflicts"
    /\ IF HasConflict(input[r]) THEN Raise(r) ELSE Goto(r, "lock")
    /\ UNCHANGED <<input, data, lock, topic, history>>

\* SET key token NX EX.  When the reply is lost the exception is raised outside
\* the try block: the key stays until its TTL removes it.
AcquireLock(r) ==
    /\ pc[r] = "lock"
    /\ LET k == LockKey(input[r]) IN
        \/ /\ lock[k] = NoOne
           /\ lock' = [lock EXCEPT ![k] = r]
           /\ \/ Goto(r, "recheck") /\ UNCHANGED orphaned
              \/ Raise(r) /\ orphaned' = orphaned \cup {k}
        \/ /\ lock[k] # NoOne
           /\ Raise(r)
           /\ UNCHANGED <<lock, orphaned>>
    /\ UNCHANGED <<input, data, topic, expired, saw, retired>>

\* The second check under the lock, then the flush of the Booking and its
\* BookingSeats: rows that nobody else sees until the commit.
RecheckAndFlush(r) ==
    /\ pc[r] = "recheck"
    /\ IF HasConflict(input[r])
       THEN Raise(r) /\ UNCHANGED saw
       ELSE /\ Goto(r, "send")
            /\ saw' = [saw EXCEPT ![r] = {b \in Requests : booking[b] # "absent"}]
    /\ UNCHANGED <<input, data, lock, topic, expired, retired, orphaned>>

\* send_and_wait, from both handlers.  It may raise although the broker stored
\* the event.
SendBookingEvent(r) ==
    /\ pc[r] \in {"send", "notify"}
    /\ topic' = Append(topic, Event(r))
    /\ \/ Goto(r, IF pc[r] = "send" THEN "release" ELSE "commit")
       \/ Raise(r)
    /\ UNCHANGED <<input, data, lock, history>>

PlainDelete(k, r) ==              \* mutant: DELETE without comparing the token
    [lock EXCEPT ![k] = NoOne]

CompareAndDelete(k, r) ==
    IF lock[k] = r THEN [lock EXCEPT ![k] = NoOne] ELSE lock

\* The finally clause, on the way out with a booking or with an exception.
\* get_db commits only after it.
ReleaseLock(r) ==
    /\ pc[r] \in {"release", "unwind"}
    /\ lock' = CompareAndDelete(LockKey(input[r]), r)
    /\ \/ Goto(r, IF pc[r] = "release" THEN "commit" ELSE "failed")
       \/ Raise(r)
    /\ UNCHANGED <<input, data, topic, history>>

-----------------------------------------------------------------------------
(***************************************************************************)
(* cancel_booking                                                          *)
(***************************************************************************)
FindBooking(r) ==
    /\ pc[r] = "find"
    /\ LET b == input[r].booking IN
        IF booking[b] = "confirmed" /\ input[b].user = input[r].user
        THEN Goto(r, "update")
        ELSE Raise(r)
    /\ UNCHANGED <<input, data, lock, topic, history>>

\* Request r has updated the row of booking b in a transaction that is open.
LeakedSession(r, b) ==            \* mutant: no rollback when the handler raises
    /\ input[r] # NoInput
    /\ input[r].op = "cancel" /\ input[r].booking = b
    /\ pc[r] \in {"notify", "commit", "failed"}

HoldsRow(r, b) ==
    /\ input[r] # NoInput
    /\ input[r].op = "cancel" /\ input[r].booking = b
    /\ pc[r] \in {"notify", "commit"}

\* The UPDATE of the row waits for a transaction that holds it, then goes on:
\* its WHERE clause names the id only.
UpdateStatus(r) ==
    /\ pc[r] = "update"
    /\ \A q \in Requests : ~ HoldsRow(q, input[r].booking)
    /\ Goto(r, "notify")
    /\ UNCHANGED <<input, data, lock, topic, history>>

-----------------------------------------------------------------------------
(***************************************************************************)
(* get_db commits the session.  The acknowledgement may be lost: the rows  *)
(* are there and the request fails.                                        *)
(***************************************************************************)
MisspelledStatus(r) ==            \* mutant: the column takes any string
    IF input[r].op = "create"
    THEN [booking EXCEPT ![r] = "confirmed"]
    ELSE [booking EXCEPT ![input[r].booking] = "canceled"]

Written(r) ==
    IF input[r].op = "create"
    THEN [booking EXCEPT ![r] = "confirmed"]
    ELSE [booking EXCEPT ![input[r].booking] = "cancelled"]

CommitSession(r) ==
    /\ pc[r] = "commit"
    /\ booking' = Written(r)
    /\ Goto(r, "done") \/ Raise(r)
    /\ UNCHANGED <<input, activeHalls, activeSeats, lock, topic, history>>

-----------------------------------------------------------------------------
(***************************************************************************)
(* The environment.                                                        *)
(***************************************************************************)
Expire(k) ==
    /\ lock[k] # NoOne
    /\ lock' = [lock EXCEPT ![k] = NoOne]
    /\ expired' = expired \cup {lock[k]}
    /\ orphaned' = orphaned \ {k}
    /\ UNCHANGED <<pc, input, data, topic, saw, retired>>

\* The API process dies with every request in flight: no finally clause runs,
\* PostgreSQL rolls the open transactions back, Redis keeps the locks.
Crash ==
    /\ \E r \in Requests : pc[r] \notin {"idle"} \cup Finished
    /\ pc' = [r \in Requests |->
                 IF pc[r] \in {"idle"} \cup Finished THEN pc[r] ELSE "failed"]
    /\ orphaned' = orphaned \cup
           UNION {KeysOf(r) : r \in {q \in Requests : pc[q] \in CriticalSection}}
    /\ UNCHANGED <<input, data, lock, topic, expired, saw, retired>>

\* delete_hall and update_hall commit a hall's is_active flag.
SetHallActive(h) ==
    /\ \/ activeHalls' = activeHalls \ {h}
       \/ activeHalls' = activeHalls \cup {h}
    /\ UNCHANGED <<pc, input, booking, activeSeats, lock, topic, history>>

\* delete_seat commits the seat's is_active flag; no operation sets it again.
DeleteSeat(s) ==
    /\ activeSeats' = activeSeats \ {s}
    /\ UNCHANGED <<pc, input, booking, activeHalls, lock, topic, history>>

\* Every request has ended: the bounded set of requests is used up.
AllFinished ==
    /\ \A r \in Requests : pc[r] \in Finished
    /\ UNCHANGED vars

-----------------------------------------------------------------------------
Create(r) ==
    \/ FindHall(r) \/ ValidateSeatsExist(r) \/ CheckSeatConflicts(r)
    \/ AcquireLock(r) \/ RecheckAndFlush(r) \/ ReleaseLock(r)

Cancel(r) == FindBooking(r) \/ UpdateStatus(r)

Handle(r) == Create(r) \/ Cancel(r) \/ SendBookingEvent(r) \/ CommitSession(r)

Next ==
    \/ \E r \in Requests : Receive(r) \/ Handle(r) \/ Abort(r)
    \/ \E k \in LockKeys : Expire(k)
    \/ Crash
    \/ \E h \in ManagedHalls : SetHallActive(h)
    \/ \E s \in ManagedSeats : DeleteSeat(s)
    \/ AllFinished

Spec == Init /\ [][Next]_vars

\* The event loop resumes a handler whose await has completed, and every call
\* ends with an answer or an exception.  Clients, administrators, failures and
\* the expiry of keys owe nothing.
Fairness == \A r \in Requests : WF_vars(Handle(r))

FairSpec == Spec /\ Fairness
=============================================================================
