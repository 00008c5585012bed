---------------------------- MODULE Availability ----------------------------
(***************************************************************************)
(* GET /bookings/halls/{id}/availability for one hall: get_available_slots *)
(* with its cache in Redis and _calculate_slots, running against the       *)
(* changes that other requests commit meanwhile.                           *)
(*                                                                         *)
(* The hall, its seats and its bookings are read by three statements, each *)
(* of which sees what is committed when it runs (READ COMMITTED).  Stored  *)
(* times come back in UTC, and the session bounds of the query, datetimes  *)
(* without an offset, are UTC as well: the containers run in UTC.          *)
(***************************************************************************)
EXTENDS TimeSlot, FiniteSets

CONSTANTS
    Readers,        \* clients that ask, again and again
    Bookings,       \* bookings of the hall that may get committed
    SlotOf,         \* the slot of each, as create_booking accepted it
    SeatsOf,        \* and its seats
    Seats,
    Dates,          \* the dates that are asked for
    NoTable         \* a missing cache entry or result

ASSUME BookingAssumption ==
    /\ SlotOf \in [Bookings -> {s \in Slot : ValidTimeSlot(s)}]
    /\ SeatsOf \in [Bookings -> SUBSET Seats]
    /\ IsFiniteSet(Seats)
    /\ Dates \subseteq Nat

VARIABLES
    pc,             \* pc[q]: the await at which reader q stands
    date,           \* date[q]: the date it asked for
    total,          \* total[q]: the number of seats it counted
    computed,       \* computed[q]: the table it computed
    cache,          \* cache[d]: the table under the Redis key of date d
    status,         \* the committed rows: bookings,
    seat,           \*   seats,
    hallActive      \*   and the hall

rows == <<status, seat, hallActive>>
vars == <<pc, date, total, computed, cache, rows>>

-----------------------------------------------------------------------------
(***************************************************************************)
(* _calculate_slots                                                        *)
(***************************************************************************)
SessionHours == SESSION_START_HOUR .. SESSION_END_HOUR - 1

\* datetime.combine(date, hour:00)
At(d, hour) == (d * DayHours + hour) * HourTicks

InUTC(t) == [t EXCEPT !.offset = 0]

StartsOnDate(d, slot) ==          \* mutant: selects by the date alone
    Date(InUTC(slot.start)) = d

InSession(d, slot) ==
    /\ slot.start.utc >= At(d, SESSION_START_HOUR)
    /\ slot.end.utc <= At(d, SESSION_END_HOUR)

Listed(d) == {b \in Bookings : status[b] = "confirmed" /\ InSession(d, SlotOf[b])}

\* range(start_time.hour, end_time.hour)
HoursThrough(slot) ==             \* mutant: the end hour is included
    Hour(InUTC(slot.start)) .. Hour(InUTC(slot.end))

HoursOf(slot) == Hour(InUTC(slot.start)) .. Hour(InUTC(slot.end)) - 1

BookedSeats(d, hour) ==
    UNION {SeatsOf[b] : b \in {b \in Listed(d) : hour \in HoursOf(SlotOf[b])}}

LastSeatKept(n, d) ==             \* mutant: >= for >
    [hour \in SessionHours |->
        LET booked == Cardinality(BookedSeats(d, hour)) IN
            [available |-> n - booked >= 0, total_seats |-> n,
             free_seats |-> n - booked, booked_seats |-> booked]]

SeatCountedTwice(n, d) ==         \* mutant: a list in place of the set
    [hour \in SessionHours |->
        LET booked == Cardinality(UNION {{b} \X SeatsOf[b] :
                          b \in {b \in Listed(d) : hour \in HoursOf(SlotOf[b])}})
        IN  [available |-> n - booked > 0, total_seats |-> n,
             free_seats |-> n - booked, booked_seats |-> booked]]

Table(n, d) ==
    [hour \in SessionHours |->
        LET booked == Cardinality(BookedSeats(d, hour)) IN
            [available |-> n - booked > 0, total_seats |-> n,
             free_seats |-> n - booked, booked_seats |-> booked]]

ActiveSeats == {s \in Seats : seat[s] = "active"}

-----------------------------------------------------------------------------
TimeSlotResponse == [available : BOOLEAN, total_seats : Nat,
                     free_seats : Int, booked_seats : Nat]
Tables == [SessionHours -> TimeSlotResponse]

TypeOK ==
    /\ pc \in [Readers -> {"idle", "cache", "hall", "seats", "bookings", "store"}]
    /\ date \in [Readers -> Dates]
    /\ total \in [Readers -> Nat]
    /\ computed \in [Readers -> Tables \cup {NoTable}]
    /\ \A q \in Readers : IF pc[q] = "store" THEN computed[q] \in Tables
                                             ELSE computed[q] = NoTable
    /\ cache \in [Dates -> Tables \cup {NoTable}]
    /\ status \in [Bookings -> {"absent", "confirmed", "cancelled"}]
    /\ seat \in [Seats -> {"absent", "active", "inactive"}]
    /\ hallActive \in BOOLEAN

Init ==
    /\ pc = [q \in Readers |-> "idle"]
    /\ date \in [Readers -> Dates]
    /\ total = [q \in Readers |-> 0]
    /\ computed = [q \in Readers |-> NoTable]
    /\ cache = [d \in Dates |-> NoTable]
    /\ status = [b \in Bookings |-> "absent"]
    /\ seat \in [Seats -> {"absent", "active"}]
    /\ hallActive = TRUE

-----------------------------------------------------------------------------
(***************************************************************************)
(* get_available_slots                                                     *)
(***************************************************************************)
Goto(q, step) == pc' = [pc EXCEPT ![q] = step]

\* The answer leaves, or an exception does; the locals of the handler are gone.
End(q) ==
    /\ Goto(q, "idle")
    /\ total' = [total EXCEPT ![q] = 0]
    /\ computed' = [computed EXCEPT ![q] = NoTable]

Ask(q) ==
    /\ pc[q] = "idle"
    /\ \E d \in Dates : date' = [date EXCEPT ![q] = d]
    /\ Goto(q, "cache")
    /\ UNCHANGED <<total, computed, cache, rows>>

\* GET: a hit is answered as it is.
ReadCache(q) ==
    /\ pc[q] = "cache"
    /\ \/ cache[date[q]] = NoTable /\ Goto(q, "hall") /\ UNCHANGED <<total, computed>>
       \/ cache[date[q]] # NoTable /\ End(q)
    /\ UNCHANGED <<date, cache, rows>>

FindAnyHall(q) ==                 \* mutant: is_active is not in the query
    /\ pc[q] = "hall"
    /\ Goto(q, "seats")
    /\ UNCHANGED <<date, total, computed, cache, rows>>

FindHall(q) ==
    /\ pc[q] = "hall"
    /\ \/ hallActive /\ Goto(q, "seats") /\ UNCHANGED <<total, computed>>
       \/ ~ hallActive /\ End(q)
    /\ UNCHANGED <<date, cache, rows>>

CountSeats(q) ==
    /\ pc[q] = "seats"
    /\ total' = [total EXCEPT ![q] = Cardinality(ActiveSeats)]
    /\ Goto(q, "bookings")
    /\ UNCHANGED <<date, computed, cache, rows>>

StoreBeforeCompute(q) ==          \* mutant: the table is not computed yet
    /\ pc[q] = "bookings"
    /\ Goto(q, "store")
    /\ UNCHANGED <<date, total, computed, cache, rows>>

ReadBookings(q) ==
    /\ pc[q] = "bookings"
    /\ computed' = [computed EXCEPT ![q] = Table(total[q], date[q])]
    /\ Goto(q, "store")
    /\ UNCHANGED <<date, total, cache, rows>>

\* SETEX; if its reply is lost the client gets an error, and the entry is there.
StoreCache(q) ==
    /\ pc[q] = "store"
    /\ cache' = [cache EXCEPT ![date[q]] = computed[q]]
    /\ End(q)
    /\ UNCHANGED <<date, rows>>

\* A call to PostgreSQL or Redis fails, or the process dies.
Fail(q) ==
    /\ pc[q] # "idle"
    /\ End(q)
    /\ UNCHANGED <<date, cache, rows>>

SetWithoutTTL(d) ==               \* mutant: SET in place of SETEX
    FALSE /\ UNCHANGED vars

ExpireEntry(d) ==
    /\ cache[d] # NoTable
    /\ cache' = [cache EXCEPT ![d] = NoTable]
    /\ UNCHANGED <<pc, date, total, computed, rows>>

-----------------------------------------------------------------------------
(***************************************************************************)
(* What other requests commit.  None of them touches the cache.  Bookings  *)
(* may collide (see Booking), and a seat may be deactivated between its    *)
(* validation and the commit of a booking.                                 *)
(***************************************************************************)
ChangeBooking(b) ==
    /\ \/ /\ status[b] = "absent" /\ \A s \in SeatsOf[b] : seat[s] # "absent"
          /\ status' = [status EXCEPT ![b] = "confirmed"]
       \/ status[b] = "confirmed" /\ status' = [status EXCEPT ![b] = "cancelled"]
    /\ UNCHANGED <<pc, date, total, computed, cache, seat, hallActive>>

\* create_seat and delete_seat.
ChangeSeat(s) ==
    /\ \/ seat[s] = "absent" /\ seat' = [seat EXCEPT ![s] = "active"]
       \/ seat[s] = "active" /\ seat' = [seat EXCEPT ![s] = "inactive"]
    /\ UNCHANGED <<pc, date, total, computed, cache, status, hallActive>>

SetHallActive ==
    /\ hallActive' \in BOOLEAN
    /\ UNCHANGED <<pc, date, total, computed, cache, status, seat>>

-----------------------------------------------------------------------------
Answer(q) ==
    ReadCache(q) \/ FindHall(q) \/ CountSeats(q) \/ ReadBookings(q) \/ StoreCache(q)

Next ==
    \/ \E q \in Readers : Ask(q) \/ Answer(q) \/ Fail(q)
    \/ \E d \in Dates : ExpireEntry(d)
    \/ \E b \in Bookings : ChangeBooking(b)
    \/ \E s \in Seats : ChangeSeat(s)
    \/ SetHallActive

Spec == Init /\ [][Next]_vars

\* The event loop resumes a handler whose await has completed, and Redis removes
\* an entry written with SETEX.
Fairness ==
    /\ \A q \in Readers : WF_vars(Answer(q))
    /\ \A d \in Dates : WF_vars(ExpireEntry(d))

FairSpec == Spec /\ Fairness
=============================================================================
