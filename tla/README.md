# Specification of the Booking API Service

TLA+ modules, TLC runs and TLAPS proofs for the cinema-hall booking service in
`src/`: a FastAPI application on PostgreSQL, Redis and Kafka, and an e-mail
worker. Paths below are relative to the repository.

## 1. The system

| part | code | state | operations |
|---|---|---|---|
| Booking requests | `app/services/booking_service.py`, `app/routers/bookings.py` | rows `bookings`, `booking_seats` | `create_booking`, `cancel_booking` |
| Slots and prices | `booking_service.py` 72-100, 141-142, 203 | none | `validate_time_slot`, overlap test, billed hours |
| Lock | `booking_service.py` 29-39, 190-198, 247 | Redis keys `lock:hall:…` | SET NX EX, compare-and-delete |
| Sessions | `app/db.py` | one transaction per request | `get_db`: commit after the handler, rollback on an exception |
| Event producer | `app/kafka.py` | producer, topic `booking-events` | `init_kafka`, `send_booking_event` |
| Availability | `booking_service.py` 340-420 | Redis keys `slots:hall:…`, TTL 300 s | `get_available_slots` |
| Halls and seats | `app/routers/halls.py`, `app/services/seat_service.py` | rows `halls`, `seats` | create, update, deactivate, bulk create |
| E-mail worker | `app/worker.py`, `app/services/notification_service.py` | consumer offsets | `run_worker`, `process_event`, `send_email` |
| Accounts | `app/services/auth_service.py`, `user_service.py`, `app/core/dependencies.py`, `app/scripts/create_admin.py` | rows `users`, JWTs | sign-up, log-in, role and activity checks, PATCH |
| Start-up, health | `app/main.py`, `app/kafka.py`, `app/redis.py` | module globals | `lifespan`, `health_check` |
| Pagination | `app/schemas/common.py` and the list queries | none | count, page |

How they interact: a request runs in one coroutine of one uvicorn process. It
shares with the others the tables (READ COMMITTED, one session per request), the
Redis keys and the topic. Its transaction commits in `get_db`, after the handler
has returned, and so after the lock has been released and the event sent. The
worker reads the topic in another process and shares nothing else.

What is hard: everything between two awaits of `create_booking` and
`cancel_booking` (other requests, a TTL, a lost reply, a crash); work that is
visible outside (lock, event) before the transaction commits; caches nobody
invalidates; events lost or delivered twice; the calendar boundaries of a slot.
`PROJECT.json` lists each of these under `hazards` at its line.

What makes the parts correct:

- bookings: no seat is sold twice; a request never overrides what it could see;
  a cancelled booking stays cancelled; nothing becomes visible unannounced;
- lock: one holder per key; a holder never frees the lock of another; no way out
  of the handler leaves a key behind, except by the accidents that must;
- slots: exactly the slots of the session timetable, each hour paid once;
- availability: an answer that was true at some moment, and not too old;
- catalogue: positions in a hall are unique, a bulk creation is all or nothing;
- worker: every announced booking is mailed, at most as often as it must be;
- accounts: e-mails are unique, the database row (not the token) decides.

## 2. Modules

| module | models |
|---|---|
| `TimeSlot` | datetimes with UTC offsets, `validate_time_slot`, overlap, billed hours, the hour that names a lock |
| `TimeSlotProperties`, `MCTimeSlot` | every slot of a calendar, against references written without minutes or divisions; its instance |
| `CalendarLemmas`, `TimeSlotProofs` | `div` and `%` with a symbolic calendar; theorems |
| `Booking` | the two handlers with lock, transaction, event, failures, crash; administrators switching halls and seats |
| `BookingLedger` | abstract: what the service promises about one booking, without requests, locks or failures |
| `BookingProperties` | the properties of `Booking`, the refinement mapping to `BookingLedger`, and claims of the repository that fail |
| `MCBooking` | small instances for TLC |
| `BookingProofs` | theorems |
| `Availability` | the availability answers of one hall: cache, the three reads, what others commit meanwhile |
| `AvailabilityProperties`, `MCAvailability`, `AvailabilityProofs` | its properties, instances and theorems |
| `Patch` | what a PATCH writes: the fields whose value differs from the row as it was loaded |
| `Catalog` | administrators who create, patch and delete halls, insert seats and grids, delete seats; the unique index and row locks |
| `Accounts` | login, sign-up, the PATCH of a user, `create_admin`; tokens, the unique e-mail, row locks, deadlocks |
| `CatalogProperties`, `AccountsProperties`, `MC…`, `CatalogProofs`, `AccountsProofs` | their properties, instances and theorems |
| `Startup` | the life of the API process: `lifespan` and the retries of `init_kafka` |
| `Worker` | the e-mail worker: connection retries, position, automatic commits, rejoins of its group, mails, stops and kills |
| `Pipeline` | composes `Startup`, `BookingLedger` (the requests) and `Worker`: from a booking to the mails about it |
| `PipelineProperties`, `MCPipeline`, `PipelineProofs` | its properties, instance and theorems |
| `Listing` | a client who walks a paginated list while rows are inserted and committed |
| `ListingProperties`, `MCListing`, `ListingProofs` | its properties, instance and theorems |

`Booking` implements `BookingLedger` (run `booking`, theorem `ImplementsLedger`);
`Pipeline` uses the ledger in place of the requests, so what it shows holds of
every order of announcements and commits that the handlers can produce.

### Booking

`pc[r]` is the await at which a request stands; an action is the stretch from
that await to the next one that another party can tell apart.

| action | code |
|---|---|
| `Receive` | the router calls the handler |
| `FindHall` | 174-186: active hall, user, `validate_time_slot` |
| `ValidateSeatsExist` | 187 (103-122) |
| `CheckSeatConflicts` | 188 (125-158) |
| `AcquireLock` | 190-198: `SET NX EX`; a reply may be lost after Redis has set the key |
| `RecheckAndFlush` | 200-229: second check, rows flushed into the open transaction |
| `SendBookingEvent` | 231-242 and 278-286: `send_and_wait`; it may raise although the broker stored the event |
| `ReleaseLock` | 246-247: the finally clause, on success ("release") and after an exception ("unwind") |
| `FindBooking`, `UpdateStatus` | 255-272, 274-276: an unlocked read, then an UPDATE that waits for a row lock and names only the id |
| `CommitSession` | `get_db`: the rows become visible; the acknowledgement may be lost |
| `Abort` | any call to PostgreSQL, Redis or Kafka fails: `get_db` rolls back |
| `Expire`, `Crash` | the TTL of a key; the process dies with all requests in flight, Redis keeps its keys |
| `SetHallActive`, `DeleteSeat` | the flags administrators commit meanwhile |

The id of a booking is the request that creates it, and the lock token is the
request that takes the lock: `uuid4` and the primary key do not collide. Rows
of an open transaction are implied by `pc` and the input (`Written`, `HoldsRow`),
since nobody else sees them. `expired`, `saw`, `retired` and `orphaned`
are history variables; no action reads them. `orphaned` names the keys whose
holder was cut off from them: the reply to SET was lost, the release did not
reach Redis, the process died.

Abstracted: the price, e-mails and names in events, error texts, the response,
authentication (a request comes with its user). A retry inside the Kafka client
may append an event twice; the ledger looks at the set of events, and the
worker of `Pipeline` delivers them more than once.

### Availability

It extends `TimeSlot` and is independent of `Booking`: to the readers the other
requests are rows that get committed. `BookingAssumption` lets in any slots that
`validate_time_slot` accepts, also over midnight or with a UTC offset, and
bookings that collide, as `Booking` shows they may.

| action | code |
|---|---|
| `Ask` | the router calls `get_available_slots` |
| `ReadCache` | 346-350: a hit is the answer |
| `FindHall` | 364-369: active hall, or 404 |
| `CountSeats` | 371-374: active seats |
| `ReadBookings` | 376-420: confirmed bookings between the session bounds, and the table |
| `StoreCache` | 354-356: `SETEX` and the answer |
| `Fail` | a call fails or the process dies; the locals are gone |
| `ExpireEntry` | `CACHE_TTL` |
| `ChangeBooking`, `ChangeSeat`, `SetHallActive` | commits of bookings, cancellations and administrators |

An answer holds a table per hour: available, total, free and booked seats. Stored
times come back from PostgreSQL in UTC, whatever offset they were written with
(`InUTC`), and the session bounds of the query carry no offset: the containers
run in UTC.

### Catalog and Accounts

Both have one transaction per request at READ COMMITTED, one action per
statement. `pc[r]` is the statement that comes next. What an open transaction
has written is derived from `pc`, `input` and `loaded` (`Written`, `Inserted`,
`NewUser`), and so is what it holds (`HoldsPosition`, `HoldsRow`, `HoldsEmail`).

| action | code |
|---|---|
| `Catalog!Receive` | the endpoints of `routers/halls.py` and `routers/seats.py` |
| `FindHall` | `get_hall_or_raise`, the SELECT of `update_hall`, `delete_hall`: active or not |
| `LoadSeat` | `seat_service.py` 63-68 |
| `InsertHall` | `halls.py` 90-99 |
| `InsertSeat` | `seat_service.py` 30, 52: one row of a flush; it waits for an open transaction that has written the position, and fails on a committed one |
| `Update` | `halls.py` 126-130, 159-160, `seat_service.py` 69-70; NOT NULL refuses an explicit null, an UPDATE waits for the row |
| `Commit`, `Fail` | `get_db`; an exception, or the death of the process |
| `Accounts!Login` | `authenticate_user`, `create_token`: one SELECT |
| `Accounts!Receive` | `signup`, `update_user`, `create_admin` |
| `Authenticate` | `get_current_user`, `get_current_admin`: the row of the token's user |
| `LoadUser` | `user_service.py` 31-34; the session's identity map keeps the administrator's own row as it was read at authentication |
| `CheckEmail` | `auth_service.py` 16-20, `create_admin.py` 14-17 |
| `EnterEmail` | the unique index on `users.email`, at the INSERT or after the UPDATE |
| `Update` | `user_service.py` 36-39, `create_admin.py` 18-20 |
| `BreakDeadlock` | PostgreSQL aborts one transaction of a circle of waits |

SQLAlchemy writes only fields whose assigned value differs from the loaded one
(`Patch`). So a request may commit without an UPDATE although another one has
changed the row since: `NoLostPatch` says that each field ends with a value
somebody asked for, not with the value of the last to commit. In particular
`create_admin` may print "updated to admin role" for a user whose demotion has
committed between its SELECT and its COMMIT, and the demotion stands.

A grid is a sequence of positions, row by row (`Earlier` is the order of the two
loops, `GridAssumption` says that every grid follows it). Two grids that overlap
wait for each other's positions, a deletion or a patch for a row. `NoWaitCircle`
says that these waits never close a circle, so that PostgreSQL has no deadlock to
break here and `Catalog`, unlike `Accounts`, needs no action for one;
`RequestsEnd` is what follows from it under fairness.

Abstracted: names and capacities (behind `hourly_rate`), passwords, the
authentication of catalogue requests. Reads (`list_halls`, `get_hall`,
`list_seats`, `get_user`) are single statements that change nothing.

### Startup, Worker, Pipeline

| action | code |
|---|---|
| `StartApi`, `CreateProducer`, `ProducerStarts`, `ProducerFails` | `main.py` 46-48, `kafka.py` 22-42 |
| `CreateTables` | `main.py` 50, after which requests are served |
| `ApiEnds` | `main.py` 70-72, a crash, or an exception that `init_kafka` does not catch |
| `Start`, `ConsumerStart`, `ConsumerStartFails` | `worker.py` 41-66 |
| `Receive`, `ProcessEvent` | 76-81 and `notification_service.py`: a mail, a mail whose reply is lost, or a logged failure |
| `AutoCommit` | external: the background task of AIOKafkaConsumer |
| `Rejoin` | external: the consumer loses its session or is rebalanced, and goes on in the same process |
| `Stop`, `Kill` | 82-84 on an interrupt; the death of the process |
| `Publish`, `Serve` | `send_booking_event`, which the Kafka client may repeat; a step of the ledger while the API serves |

The consumer runs with its library's defaults, which the code does not override:
automatic commits of the position; the end of the topic as the start of a group
that has committed nothing; the session timeout and rebalances of a group member.
A member whose session is lost rejoins inside the running process. It tries to
commit its position first; if that fails, reading goes on at the last committed
offset (`ResumeAt`), and events are handed out, and mailed, a second time without
a restart. Without any commit it goes on at the end and skips what it had not read.
A record in work stays in work: `handed` is that record, with the assignment
(start or rejoin) it was handed out under, so the position may be on either side
of it. `assignments`, `missed`, `failed` and `cut` are history. docker-compose
restarts neither process by itself, so a restart is an operator's; starts and
rejoins together are bounded by `MaxAssignments`.

### Listing

`Insert` gives a row its key (`users.id` from a sequence, `bookings.created_at`
from `now()`), `Commit` makes it visible; the two orders differ. `Begin`, `Count`
and `ReadPage` are a client who reads page 1 to `pages`, each response one count
and one page, two statements. `Orders` is the set of orders PostgreSQL may
return: bookings of one `created_at` come in any.

## 3. Runs

The runs of `MCBooking` use hours of two ticks and days of five hours, with
sessions from hour 1 to 4 and slots of one to three hours: enough for slots that
overlap partly, meet end to end, share or do not share a start hour, and fall
outside the session. Requests are interchangeable, so safety runs use symmetry;
the run with liveness does not.

| run | question | bounds | result |
|---|---|---|---|
| `timeslot` | slot check, overlap and billing against references | 2 days of 6 hours of 4 ticks, offsets of an hour on both sides of UTC and of half an hour, all pairs of instants | holds |
| `booking` | types; one holder per key unless a TTL ran out; nothing booked over a visible booking; stored seat lists are sound; a key outlives its request only by an accident; refinement of the ledger | 3 requests, overlapping and unsound ones, cancellations, 3 seats in 2 halls, one seat and one hall switched off | holds |
| `booking_progress` | requests end | 3 requests, owners and strangers, fairness | holds |
| `booking_double` | README: the lock prevents races in booking | 2 requests | violated |
| `booking_cancel_twice` | test: the second cancellation is told so | 3 requests | violated |
| `timeslot_overnight` | "Booking cannot end after 23:00" | as `timeslot` | violated |
| `availability` | types; the table agrees with the conflict query, both ways; no KeyError; the cache converges and forgets a deactivated hall | 2 readers, 3 bookings (two of one seat that overlap, one over midnight in another offset), 2 seats, 1 date, fairness | holds |
| `pipeline` | loss is explained; mailed once per assignment; the last mail is true; one producer; the worker drains; retries end | 1 booking, 3 events, 2 assignments (a start and a restart, or a start and a rejoin), 1 start of the API, 2 attempts each, fairness | holds |
| `catalog` | unique positions; all or nothing; no lost patch; seats never return; no circle of waits; requests end | 3 requests, a hall with a seat, 2 x 2 positions, fairness | holds |
| `catalog_hall` | docs of DELETE: the seats are deactivated too | as `catalog` | violated |
| `accounts` | unique e-mails; no lost patch; authority ends with the row; requests end | 3 requests, an administrator and a user who log in, 3 e-mails, fairness | holds |
| `listing` | pages exact; a quiet walk exact; no row missed | 4 rows, pages of 1 to 3 | holds |

Three requests are what the interesting cases need: a holder whose lock expired,
its successor, and a third one let in by the release of the first; or a booking
and two cancellations. The theorems below hold for any number.

`availability` needs two readers, so that one stores a table older than the one it
replaces, two bookings of one seat, which `Booking` shows to be possible, and one
that leaves the UTC date. Cache entries of different dates do not touch each
other, so one date does; the theorems hold for any set.

`pipeline` needs three events for a booking that is announced, announced as
cancelled, and one of the two sent twice, and two assignments for a redelivery
by a restart or by a rejoin. A third one only repeats what the second did to the
mails of the first; the theorems cover any number. Events of different bookings
share nothing but the partition, whose order the three events show. `catalog` and `accounts` need three requests: two
that meet and a third that changes what they loaded or takes what they release.
`listing` needs four rows for a page boundary that moves past a whole page.

`timeslot` evaluates operators, one slot per state; it stops when the slot has
been judged, so it does not check deadlock. In `Booking` a step is always
possible until every request of the bounded set has ended (`AllFinished`).

### Fairness

`FairSpec` of `Booking` assumes weak fairness of each request's handler. The event
loop resumes a coroutine whose await has completed; each call to PostgreSQL,
Redis or Kafka ends with an answer or an exception. An UPDATE that waits for a
row is enabled when the other transaction ends, and PostgreSQL then goes on with
it. Clients, administrators, failures, crashes and the expiry of keys are not
assumed to happen: that a key left behind does disappear is Redis's part, and the
specification claims only when one may be left (`OrphansExplained`).

`Availability` assumes weak fairness of each reader's handler and of the expiry
of each cache entry. A later `SETEX` starts the TTL anew, but only a reader that
has missed the entry writes it, so an entry that is there is written again at
most once per reader in flight and does expire. In `CacheConverges` bookings and
seats change finitely often (each has a life of three states); the hall may be
switched on and off for ever.

`Catalog` and `Accounts` assume weak fairness of each request that has begun: a
statement ends, one that waits goes on when the other transaction has ended (it
is enabled then), and a circle of waits is broken. `Pipeline` assumes it of
`lifespan` and of `run_worker` only, whose awaits complete with a result or an
exception; automatic commits, rejoins, restarts and requests are free, so
`UpWorkerDrains` has the condition that the worker stays up, and rests on the
bound `MaxAssignments`: a worker that rejoins for ever without a commit may read
the same events for ever.

### What fails

The double booking has three independent ways in: the lock is released before
the commit (`booking_double`), its key names only the hour the slot starts at, so
that slots 10-12 and 11-12 of a seat take different keys, and its TTL of 10 s is
shorter than a Kafka send may take (`MutexUnlessExpired` has to except it).
`SeenNeverDoubleBooked` says that nothing else leads there: of two bookings that
collide, neither was committed when the other one made its second check.

The event is sent before the commit: a booking that is rolled back afterwards
leaves a `booking_created` event, though the booking flow of the README (143-144)
saves first. The ledger allows such events; `KeepsLedger` shows that only the
other direction holds, no row without its event.

The availability answer goes by clock hours of one UTC date, the conflict check
by instants. `CountsAgreeWithConflicts` shows that they agree for bookings on
full hours within a UTC date. Bookings that leave it, over midnight or by their
offset, are not counted, so that an hour is shown as available that nobody can
book. Seats deactivated after they were booked are subtracted from the active
ones, which only ever hides free seats: `AvailableIsBookable` holds with them,
`BookableIsShown` needs the condition that booked seats are active.

`delete_hall` is said to deactivate the seats of the hall and does not
(`catalog_hall`). While the hall is inactive nobody can book them; when it is
switched on again they are all back.

A lock key that no finally clause removes blocks its hour until the TTL ends.
`OrphansExplained` shows the three ways there: the reply to SET is lost (the
command stands before the try), the release does not reach Redis, the process
dies. The request has failed in each of them; one that answers with a booking, or
that finds a conflict under the lock, leaves nothing behind.

The worker loses an event in three ways, and `LossExplained` shows that there is
no fourth: its mail failed and is not tried again, the process ended with it in
work, or the group had committed nothing when a start or a rejoin went on at the
end of the topic. It mails an event twice after a restart, and also without one,
after a rejoin whose commit failed; `OncePerAssignment` shows that nothing else
repeats a mail and that a committed event is not repeated.

`validate_time_slot` compares only the clock hour of the end with the closing
hour (`timeslot_overnight`), and it reads no seconds: a slot from 10:00:30 passes
although the error text asks for the full hour. The model has ticks below the
minute for this; properties that need whole minutes name `WholeMinutes` or
`Plain` as a condition. Each end of a slot is checked by its own clock, so with
offsets half an hour apart (from 10:00+05:30 to 07:00+00:00, two and a half hours)
both are on the full hour and the half hour is not billed; `BillsEveryHour`
excepts this, and holds for offsets that differ by whole hours.

## 4. Proofs

`TimeSlotProofs` proves, under the assumptions of `TimeSlot` and
`RequestAssumption` (an offset is less than a day), for every calendar and every
setting of the limits:

| theorem | statement |
|---|---|
| `ConflictsAreSharedInstants` | `Spec => []OverlapsExact` |
| `TimetableAndNothingElse` | `Spec => []SameDayVerdictExact` |
| `EveryHourBilled` | `Spec => []BillsEveryHour` |

The invariant is only that a verdict other than "pending" is that of
`ValidTimeSlot` (`Requested`). The rest is arithmetic. A clock that shows minute 0
in a whole minute stands on a multiple of the hour (`MinuteZero`, `OnFullHour`),
so that an accepted slot of one date starts and ends on hours of the session
and its length is a number of hours (`FullHoursApart`); conversely the
slots of the timetable pass each test of the code. For the bill, the clock hours
of the ticks of a slot of n whole hours are an interval of n (`HoursOfTicks`,
`WholeHoursOccupied`), whose cardinality `FS_Interval` gives. `CalendarLemmas` has
what these and `AvailabilityProofs` need of `div` and `%` when the divisor is a
constant without a value: the provers know no more than
`ProductMonotone` and `HourBounds` tell them.

`BookingProofs` proves, for every value of the constants that meets the
assumptions of `TimeSlot` and `Booking`:

| theorem | statement |
|---|---|
| `TypeCorrect` | `Spec => []TypeOK` |
| `MutualExclusion` | `Spec => []MutexUnlessExpired` |
| `NoVisibleDoubleBooking` | `Spec => []SeenNeverDoubleBooked` |
| `ImplementsLedger` | `Spec => KeepsLedger` (`Ledger!Spec` under the mapping) |
| `LocksLeftExplained` | `Spec => []OrphansExplained` |
| `StoredSeatLists` | `Spec => []StoredSeatsSound` |

None of the properties is inductive. The strengthening is built in layers, each
proved from the ones before:

1. `Typed` adds to `TypeOK` that a request past "idle" has a body from `Inputs`
   and stands at a step of its own handler;
2. `HoldsLock`: a request between SET and release owns its key unless it expired.
   `NoOneAssumption` is needed: a free key is no request's token;
3. `LockExplained`: a stored token is that of a request with this key, an orphan's
   request has failed, any other token's request is at work, and a free key is no
   orphan. The first part is why one compare-and-delete frees all a request holds;
4. `Stored`: a row exists only if its request has ended (the commit is the last
   step), and a cancellation past its lookup writes to a row that exists;
5. `Seen`: whatever a request saw at its second check either does not collide
   with it or is cancelled, for ever. It needs `Stored`: the input of a stored
   booking does not change any more, and no commit revives a cancelled row;
6. `EventSent`: past the send the event is on the topic. With 4 it gives the
   step simulation of the ledger; a second cancellation of a cancelled row is a
   stutter there;
7. `ValidatedSeatsSound`, from `SeatsExistMeansSound`: if as many active seats of
   the hall are found as the list is long, the list has no repetition. This is
   a fact about cardinalities (`FS_Surjection`, `FS_Subset`), and seats that are
   active now were active when the request came in (`RetiredInactive`).

`AvailabilityProofs` proves, under the assumptions of `TimeSlot` and
`BookingAssumption`:

| theorem | statement |
|---|---|
| `TypeCorrect` | `Spec => []TypeOK` |
| `TableCoversBookings` | `Spec => []NoKeyError` |
| `TableAgreesWithConflicts` | `Spec => []CountsAgreeWithConflicts` |
| `AvailableHourHasSeat` | `Spec => []AvailableIsBookable` |
| `FreeSeatIsShown` | `Spec => []BookableIsShown` |

`TypeOK` is inductive. The other four hold in every state with any set of
confirmed bookings: they are about `_calculate_slots`, not about the order of
steps. Their core is the arithmetic of `div` and `%` with a symbolic calendar
(`CalendarLemmas`): a slot between the session bounds
of a date has clock hours of the session (`ListedHours`), and a plain slot is
counted in an hour exactly if it shares an instant with it
(`CountedIffOverlaps`). `FreeSeat` and `MoreThanTaken`
add the cardinalities.

`PipelineProofs` proves, under the assumptions of `Startup`, `Worker`, `Pipeline`
and `BookingLedger`:

| theorem | statement |
|---|---|
| `TypeCorrect` | `Spec => []TypeOK` |
| `RetriesLeaveOneProducer` | `Spec => []OneProducer` |
| `LossesExplained` | `Spec => []LossExplained` |
| `MailedOncePerAssignment` | `Spec => []OncePerAssignment` |
| `LastMailsTrue` | `Spec => []LastMailTrue` |

`Typed` adds to `TypeOK` that the number of producers that were not stopped follows
from the global (`ProducerCounted`). `LossExplained` is inductive with it: each
step that moves the position or the commit accounts for the events it passes.
`MailedOnce` adds that the mails of the present assignment are about offsets it has
read past, and that the event in work was mailed under earlier assignments only;
`CommitNeverAhead` is the other half of the property. The last theorem needs two facts that no single property states:
`EventOrder` (no creation is announced after a cancellation of that booking,
repeated sends included; it comes from the ledger) and `LastMailed` (of the events
of a smooth booking the worker is done with, none is later than the last mail
about it), which survives a restart or a rejoin because the committed offset is
not ahead of the position (`CommittedBehind`): a redelivery goes through the later
events again. What a rejoin skips while a record is in work is missed
(`SkippedMissed`), so that the mail about that record is still the last one due.

`CatalogProofs` and `AccountsProofs` prove, under `CatalogAssumption` with
`GridAssumption`, and `AccountsAssumption`, for any number of requests:

| theorem | statement |
|---|---|
| `Catalog…!TypeCorrect` | `Spec => []TypeOK` |
| `PositionsUnique` | `Spec => []UniquePositions` |
| `GridsWhole` | `Spec => []AllOrNothing` |
| `SeatsStayAway` | `Spec => SeatsNeverReturn` |
| `Catalog…!NoPatchIsLost` | `Spec => []NoLostPatch` |
| `WaitsEnd` | `Spec => []NoWaitCircle` |
| `Accounts…!TypeCorrect` | `Spec => []TypeOK` |
| `EmailsUnique` | `Spec => []UniqueEmails` |
| `AuthorityEndsWithRow` | `Spec => AuthorityEnds` |
| `Accounts…!NoPatchIsLost` | `Spec => []NoLostPatch` |
| `DeadlockVictims` | `Spec => []VictimsChangeEmail` |

Both have the same layers. `Typed` is `TypeOK` with, for each request, where it may
stand with what (`Stands`). Uniqueness is strengthened to the rows that open
transactions have written and nobody sees (`PositionsFree`, `EmailsFree`): they
collide with no committed row and with each other neither, because an insertion
waits for the holders of its position or e-mail. `AllOrNothing` and
`SeatsNeverReturn` follow from what a commit makes of the seats (`CommittedSeats`).
`NoLostPatch` is about the end and needs `NothingLost` on the way: the same for
every state, and that a request which has loaded a row knows the first value of
each field nobody has changed. The second part is what a commit that issues no
UPDATE for a field leans on: if nobody has asked for that field, the loaded value
is the stored one. `AuthorityEnds` needs no more than `Typed`: past its check a
request holds a token, and the check reads the row.

`WaitsEnd` shows why the catalogue has no deadlock. Only an insertion both waits
and is waited for: an UPDATE that has its row goes straight to its commit. An
insertion that waits holds the positions before its next one, so what it waits
for, if that is waiting too, stands at a later position (`WaitsForLater`).
`Earlier` is a strict order (`EarlierIsOrder`), and a finite set of requests has
one with the last position (`Foremost`), which waits for nobody in the set.

Accounts do have deadlocks, between patches that give users each other's e-mail.
`VictimsChangeEmail` (defined beside its proof, checked by TLC on the instance of
`accounts`) says that nothing else ends as their victim: in a minimal circle every
transaction is waited for (`CircleMembersBlock`), one that waits and is waited for
has written its row and enters an e-mail (`WaitingBlocker`), and a row is written
with a new e-mail by a PATCH only. Sign-ups and `create_admin`, whose waits come
before they hold anything, are never aborted.

`ListingProofs` proves, under `ListingAssumption` (finitely many rows, page sizes
above 0):

| theorem | statement |
|---|---|
| `ListingTyped` | `Spec => []TypeOK` |
| `PagesOfEveryCount` | `Spec => []PagesExact` |
| `QuietWalkShowsAll` | `Spec => []QuietWalkExact` |
| `WalkLosesNothing` | `Spec => []NothingMissed` |

The last two speak of a walk that is over; the invariant (`ListingInv`, checked by
TLC before it was proved) says how far a walk has come. Its measure is the rank
of a row, the number of visible rows that are not behind it (`Rank`). Without ties
a row stands in whatever order PostgreSQL returns at its rank (`PlaceIsRank`:
an injection between finite sets of one size is onto), so a page shows
the ranks between its offset and the next (`PageIsRanks`), and the sequences are
gone from the argument. A commit never lowers the rank of another row
(`RankGrows`): a row of the beginning has been shown or has a rank beyond the
pages read (`StillToCome`), and in a quiet walk each visible row up to the offset
has been shown once (`QuietSoFar`). The walk ends at the last page of a count;
that no row lies behind it needs the count to be current (`CountCurrent`), which is
where a commit between the two statements of a response comes in.
`KeysBounded` gives the greatest key that `LastKey` chooses.

Every safety property that a passing run checks is a theorem now. What stays
with TLC are the liveness properties (`RequestsEnd`, `CacheConverges`,
`DeactivatedHallForgotten`, `UpWorkerDrains`, `StartupsEnd`): they need fairness
and ENABLED, which this prover does not handle. The properties of the violation
runs are false. `AutoCommit`, `Rejoin`, deadlock detection and the unique index are
models of library code, and the theorems hold of them as modelled.

## 5. Plan

The components that change shared state are modelled (section 6 lists the rest).
What is left:

1. the steps behind liveness that are safety: a measure for `RequestsEnd` of
   `Catalog` (each step of a handler leaves fewer statements to run; together with
   `NoWaitCircle` it says why grids of any size end), and of `Booking`, where a wait
   for a row has length one;
2. the request of a booking with the identity checks of `Accounts` in front: the
   two are not composed, a booking request comes with its user.

## 6. Not modelled

`health_check` (`main.py` 189-232): it reads and answers, and no state depends on
it. Its Kafka part tests a name imported before `init_kafka` assigns the global,
so it is always None and always answers "ok"; there is nothing to explore. Reads
of one row. Password hashing and JWT encoding (library cryptography), slowapi's
limiter (it refuses requests before a handler runs), field declarations and error
texts, schema creation, Docker and CI. Whether the response is sent before or
after the commit of `get_db` depends on the FastAPI version, which the
requirements do not pin; the model has no response step.

## 7. Running

    tlc -workers 2 -config timeslot.cfg MCTimeSlot
    tlc -workers 2 -config booking.cfg MCBooking
    tlc -workers 2 -config availability.cfg MCAvailability
    tlc -workers 2 -config pipeline.cfg MCPipeline
    tlc -workers 2 -config catalog.cfg MCCatalog
    tlc -workers 2 -config accounts.cfg MCAccounts
    tlc -workers 2 -config listing.cfg MCListing
    tlapm BookingProofs.tla
    tlapm AvailabilityProofs.tla
    tlapm PipelineProofs.tla
    tlapm CatalogProofs.tla
    tlapm AccountsProofs.tla
    tlapm CalendarLemmas.tla
    tlapm TimeSlotProofs.tla
    tlapm ListingProofs.tla
