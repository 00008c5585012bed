------------------------- MODULE AvailabilityProofs -------------------------
(***************************************************************************)
(* Theorems about the availability answers, for every calendar, every set  *)
(* of bookings that create_booking may have accepted, and every state.     *)
(***************************************************************************)
EXTENDS AvailabilityProperties, CalendarLemmas, FiniteSetTheorems, TLAPS

(***************************************************************************)
(* No KeyError.                                                            *)
(***************************************************************************)

\* A slot between the session bounds of a date starts and ends at clock hours of
\* the session.
LEMMA ListedHours ==
    ASSUME NEW slot \in Slot, NEW d \in Int, InSession(d, slot),
           slot.start.utc < slot.end.utc
    PROVE  HoursOf(slot) \subseteq SessionHours
<1> DEFINE a == slot.start.utc \div HourTicks
           e == slot.end.utc \div HourTicks
           S == SESSION_START_HOUR
           E == SESSION_END_HOUR
<1>1. /\ slot.start.utc \in Int /\ slot.end.utc \in Int /\ d * DayHours \in Int
      /\ slot.start.utc >= (d * DayHours + S) * HourTicks
      /\ slot.end.utc <= (d * DayHours + E) * HourTicks
      /\ slot.start.utc < (d * DayHours + E) * HourTicks
      /\ slot.end.utc >= (d * DayHours + S) * HourTicks
  <2>1. /\ slot.start.utc \in Int /\ slot.end.utc \in Int /\ d * DayHours \in Int
        /\ (d * DayHours + S) * HourTicks \in Int
        /\ (d * DayHours + E) * HourTicks \in Int
    BY Calendar DEF Slot, DateTime
  <2>2. /\ slot.start.utc >= (d * DayHours + S) * HourTicks
        /\ slot.end.utc <= (d * DayHours + E) * HourTicks
    BY DEF InSession, At
  <2> QED BY <2>1, <2>2
<1>2. /\ a \in Int /\ d * DayHours + S <= a /\ a < d * DayHours + E
      /\ e \in Int /\ d * DayHours + S <= e /\ e <= d * DayHours + E
  <2>1. d * DayHours + S \in Int /\ d * DayHours + E \in Int
    BY <1>1, Calendar
  <2>2. a \in Int /\ d * DayHours + S <= a
    BY <1>1, <2>1, Calendar, HourBounds
  <2>3. a < d * DayHours + E
    BY <1>1, <2>1, Calendar, HourBounds
  <2>4. e \in Int /\ d * DayHours + S <= e
    BY <1>1, <2>1, Calendar, HourBounds
  <2>5. e <= d * DayHours + E
    BY <1>1, <2>1, Calendar, HourBounds
  <2> QED BY <2>2, <2>3, <2>4, <2>5
<1>3. Hour(InUTC(slot.start)) = a % DayHours /\ Hour(InUTC(slot.end)) = e % DayHours
  BY <1>1 DEF Hour, WallHour, Wall, InUTC, Slot, DateTime
<1>4. a % DayHours = a - d * DayHours
  <2>1. a - d * DayHours \in 0 .. DayHours - 1 /\ a = d * DayHours + (a - d * DayHours)
    BY <1>1, <1>2, Calendar
  <2> QED BY <2>1, Calendar, HourOfDay
<1>5. e % DayHours = e - d * DayHours
  <2>1. e - d * DayHours \in 0 .. DayHours - 1 /\ e = d * DayHours + (e - d * DayHours)
    BY <1>1, <1>2, Calendar
  <2> QED BY <2>1, Calendar, HourOfDay
<1>6. HoursOf(slot) = (a - d * DayHours) .. (e - d * DayHours) - 1
  BY <1>3, <1>4, <1>5 DEF HoursOf
<1>7. /\ a - d * DayHours \in Int /\ e - d * DayHours \in Int
      /\ S <= a - d * DayHours /\ (e - d * DayHours) - 1 <= E - 1
  BY <1>1, <1>2, Calendar
<1>8. \A i, j \in Int : (S <= i /\ j <= E - 1) => i .. j \subseteq S .. E - 1
  BY Calendar
<1>9. (e - d * DayHours) - 1 \in Int
  BY <1>7
<1> QED BY <1>6, <1>7, <1>8, <1>9 DEF SessionHours

\* Whatever slots validate_time_slot accepted (over midnight, with an offset, some
\* seconds past the hour), _calculate_slots adds to hours of its table only.
THEOREM TableCoversBookings == Spec => []NoKeyError
<1>1. NoKeyError
  <2>1. ASSUME NEW d \in Dates, NEW b \in Listed(d)
        PROVE  HoursOf(SlotOf[b]) \subseteq SessionHours
    <3>1. /\ SlotOf[b] \in Slot /\ ValidTimeSlot(SlotOf[b]) /\ d \in Int
          /\ InSession(d, SlotOf[b])
      BY <2>1, BookingAssumption DEF Listed
    <3>2. SlotOf[b].start.utc < SlotOf[b].end.utc
      BY <3>1 DEF ValidTimeSlot, Slot, DateTime
    <3> QED BY <3>1, <3>2, ListedHours
  <2> QED BY <2>1 DEF NoKeyError
<1> QED BY <1>1, PTL

-----------------------------------------------------------------------------
(***************************************************************************)
(* The table and the conflict query agree.                                 *)
(***************************************************************************)

\* A plain slot is listed under a date and counted in an hour of it exactly when
\* it shares an instant with that hour.
LEMMA CountedIffOverlaps ==
    ASSUME NEW slot \in Slot, ValidTimeSlot(slot), Plain(slot),
           NEW d \in Int, NEW hour \in SessionHours
    PROVE  (InSession(d, slot) /\ hour \in HoursOf(slot))
               <=> Overlaps(slot, HourSlot(d, hour))
<1> DEFINE A == slot.start.utc \div HourTicks
           Z == slot.end.utc \div HourTicks
           D == A \div DayHours
           a == A % DayHours
           z == Z % DayHours
           S == SESSION_START_HOUR
           E == SESSION_END_HOUR
<1>1. /\ slot.start.utc \in Int /\ slot.end.utc \in Int
      /\ slot.start.offset = 0 /\ slot.end.offset = 0
      /\ slot.start.utc % HourTicks = 0 /\ slot.end.utc % HourTicks = 0
  BY DEF Plain, Slot, DateTime
<1>2. /\ A \in Int /\ slot.start.utc = A * HourTicks
      /\ Z \in Int /\ slot.end.utc = Z * HourTicks
  BY <1>1, Calendar, FullHour
<1>3. /\ Hour(slot.start) = a /\ Hour(slot.end) = z
      /\ Hour(InUTC(slot.start)) = a /\ Hour(InUTC(slot.end)) = z
      /\ Date(slot.start) = D /\ Date(slot.end) = Z \div DayHours
  BY <1>1 DEF Hour, Date, WallHour, Wall, InUTC, Slot, DateTime
<1>4. Z \div DayHours = D
  BY <1>3 DEF Plain
<1>5. /\ D \in Int /\ D * DayHours \in Int /\ a \in Int /\ z \in Int
      /\ A = D * DayHours + a /\ 0 <= a /\ a < DayHours
      /\ Z = D * DayHours + z /\ 0 <= z /\ z < DayHours
  BY <1>2, <1>4, Calendar
<1>6. S <= a /\ z <= E
  BY <1>3, <1>5, Calendar DEF ValidTimeSlot
<1>7. A < Z
  <2>1. A * HourTicks < Z * HourTicks
    BY <1>1, <1>2 DEF ValidTimeSlot
  <2> QED BY <1>2, <2>1, Calendar, ProductMonotone
<1>8. /\ d * DayHours \in Int /\ hour \in Int /\ S <= hour /\ hour < E
      /\ hour >= 0 /\ hour + 1 <= DayHours
  BY Calendar DEF SessionHours
<1>9. HoursOf(slot) = a .. z - 1
  BY <1>3 DEF HoursOf
<1>10. InSession(d, slot) <=> /\ d * DayHours + S <= A
                              /\ Z <= d * DayHours + E
  <2>1. /\ (d * DayHours + S) * HourTicks <= A * HourTicks <=> d * DayHours + S <= A
        /\ Z * HourTicks <= (d * DayHours + E) * HourTicks <=> Z <= d * DayHours + E
    BY <1>2, <1>8, Calendar, ProductMonotone
  <2>2. /\ A * HourTicks \in Int /\ (d * DayHours + S) * HourTicks \in Int
    BY <1>2, <1>8, Calendar
  <2> QED BY <1>2, <2>1, <2>2 DEF InSession, At
<1>11. Overlaps(slot, HourSlot(d, hour)) <=> /\ A < d * DayHours + hour + 1
                                             /\ d * DayHours + hour < Z
  <2>1. /\ A * HourTicks < (d * DayHours + hour + 1) * HourTicks
                <=> A < d * DayHours + hour + 1
        /\ (d * DayHours + hour) * HourTicks < Z * HourTicks
                <=> d * DayHours + hour < Z
    BY <1>2, <1>8, Calendar, ProductMonotone
  <2>2. /\ Z * HourTicks \in Int /\ (d * DayHours + hour) * HourTicks \in Int
        /\ d * DayHours + (hour + 1) = d * DayHours + hour + 1
    BY <1>2, <1>8, Calendar
  <2> QED BY <1>2, <2>1, <2>2 DEF Overlaps, HourSlot, At
<1> DEFINE p == d * DayHours
           P == D * DayHours
<1>12. p \in Int /\ P \in Int /\ (D = d => P = p)
  BY <1>5, <1>8
<1>13. D = d \/ p + DayHours <= P \/ P + DayHours <= p
  <2>1. \A i, j \in Int : i + 1 <= j => i * DayHours + DayHours <= j * DayHours
    <3>1. ASSUME NEW i \in Int, NEW j \in Int, i + 1 <= j
          PROVE  i * DayHours + DayHours <= j * DayHours
      <4>1. i + 1 \in Int
        OBVIOUS
      <4>2. (i + 1) * DayHours <= j * DayHours
        BY <3>1, <4>1, Calendar, ProductMonotone
      <4>3. (i + 1) * DayHours = i * DayHours + DayHours
        BY Calendar
      <4> QED BY <4>2, <4>3
    <3> QED BY <3>1
  <2>2. D = d \/ d + 1 <= D \/ D + 1 <= d
    BY <1>5
  <2> HIDE DEF D
  <2> QED BY <1>5, <2>1, <2>2 DEF p, P
<1>14. (p + S <= A /\ Z <= p + E /\ hour \in a .. z - 1)
           <=> (A < p + hour + 1 /\ p + hour < Z)
  <2> HIDE DEF A, Z, D, a, z, p, P
  <2> QED BY <1>2, <1>5, <1>6, <1>7, <1>8, <1>12, <1>13, Calendar DEF p, P
<1> QED BY <1>9, <1>10, <1>11, <1>14

LEMMA CountsAgree == CountsAgreeWithConflicts
<1>1. ASSUME AllPlain, NEW d \in Dates, NEW hour \in SessionHours
      PROVE  BookedSeats(d, hour) = Taken(d, hour)
  <2>1. \A b \in Confirmed :
            (InSession(d, SlotOf[b]) /\ hour \in HoursOf(SlotOf[b]))
                <=> Overlaps(SlotOf[b], HourSlot(d, hour))
    <3>1. ASSUME NEW b \in Confirmed
          PROVE  (InSession(d, SlotOf[b]) /\ hour \in HoursOf(SlotOf[b]))
                     <=> Overlaps(SlotOf[b], HourSlot(d, hour))
      <4>1. SlotOf[b] \in Slot /\ ValidTimeSlot(SlotOf[b]) /\ Plain(SlotOf[b])
            /\ d \in Int
        BY <1>1, BookingAssumption DEF AllPlain, Confirmed
      <4> QED BY <4>1, CountedIffOverlaps
    <3> QED BY <3>1
  <2>2. {b \in Listed(d) : hour \in HoursOf(SlotOf[b])}
            = {b \in Confirmed : Overlaps(SlotOf[b], HourSlot(d, hour))}
    BY <2>1 DEF Listed, Confirmed
  <2> QED BY <2>2 DEF BookedSeats, Taken
<1> QED BY <1>1 DEF CountsAgreeWithConflicts

\* If all bookings are plain, the seats counted in an hour are exactly those that
\* check_seat_conflicts would refuse for that hour.
THEOREM TableAgreesWithConflicts == Spec => []CountsAgreeWithConflicts
BY CountsAgree, PTL

-----------------------------------------------------------------------------
(***************************************************************************)
(* Free seats.                                                             *)
(***************************************************************************)

\* A positive number of free seats names a seat, however many of the booked seats
\* are among the active ones.
LEMMA FreeSeat ==
    ASSUME NEW A, NEW T, IsFiniteSet(T), Cardinality(A) - Cardinality(T) > 0,
           IsFiniteSet(A)
    PROVE  A \ T # {}
<1>1. Cardinality(A) \in Nat /\ Cardinality(T) \in Nat
  BY FS_CardinalityType
<1>2. ASSUME A \subseteq T
      PROVE  FALSE
  <2>1. Cardinality(A) <= Cardinality(T)
    BY <1>2, FS_Subset
  <2> QED BY <1>1, <2>1
<1> QED BY <1>2

LEMMA SeatsCounted ==
    ASSUME NEW d \in Dates, NEW hour \in SessionHours
    PROVE  /\ IsFiniteSet(ActiveSeats) /\ IsFiniteSet(BookedSeats(d, hour))
           /\ Cardinality(ActiveSeats) \in Nat
           /\ Cardinality(BookedSeats(d, hour)) \in Nat
<1>1. ActiveSeats \in SUBSET Seats
  BY DEF ActiveSeats
<1>2. BookedSeats(d, hour) \in SUBSET Seats
  BY BookingAssumption DEF BookedSeats, Listed
<1>3. IsFiniteSet(ActiveSeats) /\ IsFiniteSet(BookedSeats(d, hour))
  BY <1>1, <1>2, BookingAssumption, FS_Subset
<1> QED BY <1>3, FS_CardinalityType

\* If all bookings are plain, an hour shown as available has an active seat that no
\* overlapping booking takes.
THEOREM AvailableHourHasSeat == Spec => []AvailableIsBookable
<1>1. CountsAgreeWithConflicts
  BY CountsAgree
<1>2. AvailableIsBookable
  <2>1. ASSUME AllPlain, NEW d \in Dates, NEW hour \in SessionHours,
               Current(d)[hour].available
        PROVE  ActiveSeats \ Taken(d, hour) # {}
    <3>1. BookedSeats(d, hour) = Taken(d, hour)
      BY <1>1, <2>1 DEF CountsAgreeWithConflicts
    <3>2. Cardinality(ActiveSeats) - Cardinality(BookedSeats(d, hour)) > 0
      BY <2>1 DEF Current, Table
    <3> QED BY <3>1, <3>2, SeatsCounted, FreeSeat
  <2> QED BY <2>1 DEF AvailableIsBookable
<1> QED BY <1>2, PTL

LEMMA MoreThanTaken ==
    ASSUME NEW S, IsFiniteSet(S), NEW T, T \subseteq S, S \ T # {}
    PROVE  Cardinality(S) - Cardinality(T) > 0
<1>1. /\ IsFiniteSet(T) /\ Cardinality(T) <= Cardinality(S)
      /\ Cardinality(T) = Cardinality(S) => S = T
  BY FS_Subset
<1>2. Cardinality(S) \in Nat /\ Cardinality(T) \in Nat
  BY <1>1, FS_CardinalityType
<1> QED BY <1>1, <1>2

\* The other way round, while booked seats are active: an hour with a seat that can be
\* booked is shown as available.
THEOREM FreeSeatIsShown == Spec => []BookableIsShown
<1>1. BookableIsShown
  <2>1. ASSUME AllPlain, \A b \in Confirmed : SeatsOf[b] \subseteq ActiveSeats,
               NEW d \in Dates, NEW hour \in SessionHours, ActiveSeats \ Taken(d, hour) # {}
        PROVE  Current(d)[hour].available
    <3>1. BookedSeats(d, hour) = Taken(d, hour)
      BY <2>1, CountsAgree DEF CountsAgreeWithConflicts
    <3>2. BookedSeats(d, hour) \subseteq ActiveSeats
      BY <2>1 DEF BookedSeats, Listed, Confirmed
    <3>3. Cardinality(ActiveSeats) - Cardinality(BookedSeats(d, hour)) > 0
      BY <2>1, <3>1, <3>2, SeatsCounted, MoreThanTaken
    <3> QED BY <3>3 DEF Current, Table
  <2> QED BY <2>1 DEF BookableIsShown
<1> QED BY <1>1, PTL

-----------------------------------------------------------------------------
(***************************************************************************)
(* Types.                                                                  *)
(***************************************************************************)
LEMMA TableTyped ==
    ASSUME NEW n \in Nat, NEW d \in Dates
    PROVE  Table(n, d) \in Tables
<1>1. ASSUME NEW hour \in SessionHours
      PROVE  Table(n, d)[hour] \in TimeSlotResponse
  <2> DEFINE k == Cardinality(BookedSeats(d, hour))
  <2>1. k \in Nat
    BY SeatsCounted
  <2>2. Table(n, d)[hour] = [available |-> n - k > 0, total_seats |-> n,
                             free_seats |-> n - k, booked_seats |-> k]
    BY DEF Table
  <2> HIDE DEF k
  <2>3. (n - k > 0) \in BOOLEAN /\ n - k \in Int
    BY <2>1
  <2> QED BY <2>1, <2>2, <2>3 DEF TimeSlotResponse
<1> QED BY <1>1 DEF Table, Tables

LEMMA TypeNext ==
    ASSUME TypeOK, [Next]_vars
    PROVE  TypeOK'
<1> USE DEF TypeOK, rows, Goto, End
<1>1. ASSUME NEW q \in Readers, Ask(q)
      PROVE  TypeOK'
  BY <1>1 DEF Ask
<1>2. ASSUME NEW q \in Readers, ReadCache(q) \/ FindHall(q)
      PROVE  TypeOK'
  BY <1>2 DEF ReadCache, FindHall
<1>3. ASSUME NEW q \in Readers, CountSeats(q)
      PROVE  TypeOK'
  <2>1. Cardinality(ActiveSeats) \in Nat
    BY BookingAssumption, FS_Subset, FS_CardinalityType DEF ActiveSeats
  <2> QED BY <1>3, <2>1 DEF CountSeats
<1>4. ASSUME NEW q \in Readers, ReadBookings(q)
      PROVE  TypeOK'
  <2>1. Table(total[q], date[q]) \in Tables
    BY TableTyped
  <2> QED BY <1>4, <2>1 DEF ReadBookings
<1>5. ASSUME NEW q \in Readers, StoreCache(q)
      PROVE  TypeOK'
  BY <1>5 DEF StoreCache
<1>6. ASSUME NEW q \in Readers, Fail(q)
      PROVE  TypeOK'
  BY <1>6 DEF Fail
<1>7. ASSUME NEW d \in Dates, ExpireEntry(d)
      PROVE  TypeOK'
  BY <1>7 DEF ExpireEntry
<1>8. ASSUME NEW b \in Bookings, ChangeBooking(b)
      PROVE  TypeOK'
  BY <1>8 DEF ChangeBooking
<1>9. ASSUME NEW s \in Seats, ChangeSeat(s)
      PROVE  TypeOK'
  BY <1>9 DEF ChangeSeat
<1>10. CASE SetHallActive
  BY <1>10 DEF SetHallActive
<1>11. CASE UNCHANGED vars
  BY <1>11 DEF vars
<1> QED BY <1>1, <1>2, <1>3, <1>4, <1>5, <1>6, <1>7, <1>8, <1>9, <1>10, <1>11
        DEF Next, Answer

\* A reader stores only a table it has computed, every cache entry is a whole
\* table, and no failure leaves a table behind in a handler.
THEOREM TypeCorrect == Spec => []TypeOK
<1>1. Init => TypeOK
  BY DEF Init, TypeOK
<1>2. TypeOK /\ [Next]_vars => TypeOK'
  BY TypeNext
<1> QED BY <1>1, <1>2, PTL DEF Spec
=============================================================================
