--------------------------- MODULE TimeSlotProofs ---------------------------
(***************************************************************************)
(* Theorems about the check, the overlap and the price of a requested      *)
(* slot, for every calendar, every setting of the session and every offset.*)
(***************************************************************************)
EXTENDS TimeSlotProperties, CalendarLemmas, FiniteSetTheorems

vars == <<slot, verdict>>

(***************************************************************************)
(* The requested slot does not change, and the verdict is that of          *)
(* validate_time_slot.                                                     *)
(***************************************************************************)
Requested ==
    /\ slot \in Slot
    /\ slot.start.offset \in Offsets /\ slot.end.offset \in Offsets
    /\ slot.start.utc \in 0 .. Horizon - 1 /\ slot.end.utc \in 0 .. Horizon - 1
    /\ verdict \in {"pending", "accepted", "rejected"}
    /\ verdict = "accepted" => ValidTimeSlot(slot)
    /\ verdict = "rejected" => ~ ValidTimeSlot(slot)

LEMMA HorizonInt == Horizon \in Int
<1>1. \A m, n \in Int : m * n \in Int
  OBVIOUS
<1> QED BY <1>1, Calendar, RequestAssumption DEF Horizon

LEMMA OffsetsInt ==
    ASSUME NEW o \in Offsets
    PROVE  o \in Int /\ 1 - DayHours * HourTicks <= o /\ o <= DayHours * HourTicks - 1
<1>1. \A m, n \in Int : m * n \in Int
  OBVIOUS
<1>2. DayHours * HourTicks \in Int
  BY <1>1, Calendar
<1> QED BY <1>2, RequestAssumption

LEMMA RequestedAlways == Spec => []Requested
<1>1. Init => Requested
  <2> SUFFICES ASSUME NEW o \in Offsets, NEW p \in Offsets,
                      slot \in [start : DateTimes(o), end : DateTimes(p)],
                      verdict = "pending"
               PROVE  Requested
    BY DEF Init
  <2>1. \A q \in Offsets : \A t \in DateTimes(q) :
            t \in DateTime /\ t.offset \in Offsets /\ t.utc \in 0 .. Horizon - 1
    BY OffsetsInt, HorizonInt DEF DateTimes, DateTime
  <2>2. slot.start \in DateTimes(o) /\ slot.end \in DateTimes(p)
        /\ slot = [start |-> slot.start, end |-> slot.end]
    OBVIOUS
  <2> QED BY <2>1, <2>2 DEF Requested, Slot
<1>2. Requested /\ [Validate]_vars => Requested'
  BY DEF Requested, Validate, vars, ValidTimeSlot, Duration, Minute, Hour, WallHour, Wall
<1> QED BY <1>1, <1>2, PTL DEF Spec, vars

-----------------------------------------------------------------------------
(***************************************************************************)
(* The conflict query.                                                     *)
(***************************************************************************)

\* The overlap condition is the existence of a common instant, for any two slots
\* that last.
LEMMA OverlapIsSharedInstant ==
    ASSUME NEW a \in Slot, NEW b \in Slot,
           a.start.utc < a.end.utc, b.start.utc < b.end.utc
    PROVE  Overlaps(a, b) <=> Ticks(a) \cap Ticks(b) # {}
<1>1. /\ a.start.utc \in Int /\ a.end.utc \in Int
      /\ b.start.utc \in Int /\ b.end.utc \in Int
  BY DEF Slot, DateTime
<1>2. ASSUME Overlaps(a, b)
      PROVE  Ticks(a) \cap Ticks(b) # {}
  <2>1. CASE a.start.utc <= b.start.utc
    BY <1>1, <1>2, <2>1, b.start.utc \in Ticks(a) \cap Ticks(b) DEF Overlaps, Ticks
  <2>2. CASE b.start.utc <= a.start.utc
    BY <1>1, <1>2, <2>2, a.start.utc \in Ticks(a) \cap Ticks(b) DEF Overlaps, Ticks
  <2> QED BY <1>1, <2>1, <2>2
<1>3. ASSUME NEW t \in Ticks(a) \cap Ticks(b)
      PROVE  Overlaps(a, b)
  BY <1>1, <1>3 DEF Overlaps, Ticks
<1> QED BY <1>2, <1>3

\* Two bookings conflict exactly when they share an instant.
THEOREM ConflictsAreSharedInstants == Spec => []OverlapsExact
<1>1. Requested => OverlapsExact
  <2> SUFFICES ASSUME Requested, verdict = "accepted", NEW b \in Bookable
               PROVE  Overlaps(b, slot) <=> Ticks(b) \cap Ticks(slot) # {}
    BY DEF OverlapsExact
  <2>1. slot \in Slot /\ slot.start.utc < slot.end.utc
    BY DEF Requested, ValidTimeSlot, Slot, DateTime
  <2>2. b \in Slot /\ b.start.utc < b.end.utc
    <3>1. \A t \in DateTimes(0) : t \in DateTime
      BY HorizonInt DEF DateTimes, DateTime
    <3>2. /\ b.start \in DateTimes(0) /\ b.end \in DateTimes(0)
          /\ b = [start |-> b.start, end |-> b.end]
          /\ b.end.utc \in b.start.utc + 1 .. 3 * HourTicks
      BY DEF Bookable
    <3>3. b \in Slot
      BY <3>1, <3>2 DEF Slot
    <3>4. b.start.utc \in Int /\ b.end.utc \in Int /\ 3 * HourTicks \in Int
      BY <3>3, Calendar DEF Slot, DateTime
    <3> QED BY <3>2, <3>3, <3>4
  <2> QED BY <2>1, <2>2, OverlapIsSharedInstant
<1> QED BY <1>1, RequestedAlways, PTL

-----------------------------------------------------------------------------
(***************************************************************************)
(* Full hours.                                                             *)
(***************************************************************************)

\* A time in whole minutes whose minute is 0 is on the full hour of its clock.
LEMMA MinuteZero ==
    ASSUME NEW t \in DateTime, Wall(t) % MinuteTicks = 0, Minute(t) = 0
    PROVE  WallHour(t) \in Int /\ Wall(t) = WallHour(t) * HourTicks
<1> DEFINE w == Wall(t)
           q == w \div MinuteTicks
<1>1. w \in Int /\ MinuteTicks \in Nat \ {0} /\ HourMinutes \in Nat \ {0}
  BY CalendarAssumption DEF Wall, DateTime
<1>2. q \in Int /\ w = q * MinuteTicks
  BY <1>1, FullHour
<1>3. PICK h \in Int : h = q \div HourMinutes /\ q = h * HourMinutes
  BY <1>1, <1>2, FullHour DEF Minute
<1>4. w = h * HourTicks
  <2>1. \A i, m, n \in Int : (i * n) * m = i * (m * n)
    OBVIOUS
  <2> QED BY <1>1, <1>2, <1>3, <2>1 DEF HourTicks
<1>5. h <= WallHour(t) /\ WallHour(t) <= h /\ WallHour(t) \in Int
  <2>1. h * HourTicks <= w /\ w <= h * HourTicks
    BY <1>1, <1>4
  <2> QED BY <1>1, <1>3, <2>1, Calendar, HourBounds DEF WallHour
<1>6. WallHour(t) = h
  BY <1>3, <1>5
<1> QED BY <1>3, <1>4, <1>6

\* The full hour h of a clock: its minute is 0 and its number is h.
LEMMA OnFullHour ==
    ASSUME NEW t \in DateTime, NEW h \in Int, Wall(t) = h * HourTicks
    PROVE  Minute(t) = 0 /\ WallHour(t) = h
<1> DEFINE w == Wall(t)
<1>1. w \in Int /\ MinuteTicks \in Nat \ {0} /\ HourMinutes \in Nat \ {0}
  BY CalendarAssumption DEF Wall, DateTime
<1>2. \A i, m, n \in Int : i * (m * n) = (i * n) * m
  OBVIOUS
<1>3. h * HourMinutes \in Int /\ w = (h * HourMinutes) * MinuteTicks
  BY <1>1, <1>2 DEF HourTicks
<1>4. w \div MinuteTicks = h * HourMinutes
  <2>1. /\ w \div MinuteTicks \in Int
        /\ h * HourMinutes <= w \div MinuteTicks
        /\ w \div MinuteTicks <= h * HourMinutes
    <3>1. (h * HourMinutes) * MinuteTicks <= w /\ w <= (h * HourMinutes) * MinuteTicks
      BY <1>1, <1>3
    <3> QED BY <1>1, <1>3, <3>1, HourBounds
  <2> QED BY <1>3, <2>1
<1>5. (h * HourMinutes) % HourMinutes = 0
  <2>1. 0 \in 0 .. HourMinutes - 1 /\ h * HourMinutes + 0 = h * HourMinutes
    BY <1>1, <1>3
  <2> QED BY <1>1, <2>1, HourOfDay
<1>6. WallHour(t) = h
  <2>1. h * HourTicks <= w /\ w <= h * HourTicks
    BY <1>1
  <2>2. w \div HourTicks \in Int /\ h <= w \div HourTicks /\ w \div HourTicks <= h
    BY <1>1, <2>1, Calendar, HourBounds
  <2> QED BY <2>2 DEF WallHour
<1> QED BY <1>4, <1>5, <1>6 DEF Minute

\* The difference of two full hours, compared with a number of hours.
LEMMA FullHoursApart ==
    ASSUME NEW a \in Int, NEW b \in Int, NEW n \in Int
    PROVE  /\ b * HourTicks - a * HourTicks = (b - a) * HourTicks
           /\ (b - a) * HourTicks >= n * HourTicks <=> b - a >= n
           /\ (b - a) * HourTicks <= n * HourTicks <=> b - a <= n
           /\ (b - a) * HourTicks > 0 <=> b - a > 0
<1>1. HourTicks \in Nat \ {0} /\ b - a \in Int
  BY Calendar
<1>2. b * HourTicks - a * HourTicks = (b - a) * HourTicks
  BY <1>1
<1>3. /\ n <= b - a <=> n * HourTicks <= (b - a) * HourTicks
      /\ b - a <= n <=> (b - a) * HourTicks <= n * HourTicks
      /\ 0 < b - a <=> 0 * HourTicks < (b - a) * HourTicks
  BY <1>1, ProductMonotone
<1>4. (b - a) * HourTicks \in Int /\ n * HourTicks \in Int /\ 0 * HourTicks = 0
  BY <1>1
<1> QED BY <1>1, <1>2, <1>3, <1>4

-----------------------------------------------------------------------------
(***************************************************************************)
(* The session timetable.                                                  *)
(***************************************************************************)

\* The days that a clock of some offset can show.
LEMMA DayOfCalendar ==
    ASSUME Requested, NEW day \in Int, NEW from \in 0 .. DayHours - 1,
           Wall(slot.start) = (day * DayHours + from) * HourTicks
    PROVE  day \in -1 .. Days
<1> DEFINE D == DayHours * HourTicks
<1>1. /\ slot.start.utc \in Int /\ slot.start.offset \in Int
      /\ 0 <= slot.start.utc /\ slot.start.utc < Horizon
      /\ 1 - D <= slot.start.offset /\ slot.start.offset <= D - 1
  BY OffsetsInt, HorizonInt DEF Requested, Slot, DateTime
<1>2. D \in Nat \ {0}
  <2>1. 0 * HourTicks < DayHours * HourTicks
    BY Calendar, ProductMonotone
  <2>2. \A m, n \in Int : m * n \in Int /\ 0 * n = 0
    OBVIOUS
  <2> QED BY <2>1, <2>2, Calendar
<1>3. Horizon = Days * D /\ Days \in Int /\ Days * D \in Int
  <2>1. \A i, m, n \in Int : (i * m) * n = i * (m * n) /\ i * (m * n) \in Int
    OBVIOUS
  <2> QED BY <2>1, Calendar, RequestAssumption DEF Horizon
<1>4. (day * DayHours + from) * HourTicks = day * D + from * HourTicks
      /\ day * D \in Int /\ from * HourTicks \in Int
  <2>1. \A i, m, n, k \in Int : /\ (i * m + k) * n = i * (m * n) + k * n
                               /\ i * (m * n) \in Int /\ k * n \in Int
    OBVIOUS
  <2> QED BY <2>1, Calendar
<1>5. 0 <= from * HourTicks /\ from * HourTicks < D
  <2>1. from \in Int /\ 0 <= from /\ from < DayHours
    BY Calendar
  <2>2. 0 * HourTicks <= from * HourTicks /\ from * HourTicks < DayHours * HourTicks
    BY <2>1, Calendar, ProductMonotone
  <2>3. 0 * HourTicks = 0
    BY Calendar
  <2> QED BY <2>2, <2>3
<1>6. Wall(slot.start) = day * D + from * HourTicks
  BY <1>4
<1>7. 1 - D <= Wall(slot.start) /\ Wall(slot.start) < Days * D + D
  BY <1>1, <1>2, <1>3 DEF Wall
<1>8. (day + 1) * D = day * D + D /\ (Days + 1) * D = Days * D + D
      /\ (-1) * D = -D
  BY <1>2, <1>3
<1>9. (-1) * D < (day + 1) * D /\ day * D < (Days + 1) * D
  BY <1>2, <1>3, <1>4, <1>5, <1>6, <1>7, <1>8
<1>10. -1 < day + 1 /\ day < Days + 1
  BY <1>2, <1>3, <1>9, ProductMonotone
<1> QED BY <1>3, <1>10

\* What validate_time_slot accepts on one date is in the timetable.
LEMMA AcceptedInTimetable ==
    ASSUME Requested, ValidTimeSlot(slot), WholeMinutes(slot),
           slot.start.offset = slot.end.offset, Date(slot.start) = Date(slot.end)
    PROVE  InTimetable(slot)
<1> DEFINE a == WallHour(slot.start)
           b == WallHour(slot.end)
           day == a \div DayHours
           from == a % DayHours
           to == b % DayHours
<1>1. slot.start \in DateTime /\ slot.end \in DateTime
  BY DEF Requested, Slot
<1>2. /\ a \in Int /\ Wall(slot.start) = a * HourTicks
      /\ b \in Int /\ Wall(slot.end) = b * HourTicks
  BY <1>1, MinuteZero DEF WholeMinutes, ValidTimeSlot
<1>3. /\ Duration(slot) = (b - a) * HourTicks /\ Duration(slot) > 0
      /\ MIN_BOOKING_HOURS \in Int /\ MAX_BOOKING_HOURS \in Int
  <2>1. Duration(slot) > 0
    BY <1>1 DEF Duration, DateTime, ValidTimeSlot
  <2>2. MIN_BOOKING_HOURS \in Int /\ MAX_BOOKING_HOURS \in Int
    BY CalendarAssumption
  <2>3. Duration(slot) = b * HourTicks - a * HourTicks
    <3>1. b * HourTicks \in Int /\ a * HourTicks \in Int
      BY <1>2, Calendar
    <3> HIDE DEF a, b
    <3> QED BY <1>1, <1>2, <3>1 DEF Duration, Wall, DateTime
  <2>4. b * HourTicks - a * HourTicks = (b - a) * HourTicks
    BY <1>2, FullHoursApart
  <2> QED BY <2>1, <2>2, <2>3, <2>4
<1>4. b - a >= MIN_BOOKING_HOURS /\ b - a <= MAX_BOOKING_HOURS /\ b - a > 0
  BY <1>2, <1>3, FullHoursApart DEF ValidTimeSlot
<1>5. /\ day \in Int /\ from \in 0 .. DayHours - 1 /\ a = day * DayHours + from
      /\ to \in 0 .. DayHours - 1 /\ b = day * DayHours + to
  <2>1. b \div DayHours = day
    BY DEF Date
  <2>2. /\ day \in Int /\ from \in 0 .. DayHours - 1 /\ a = day * DayHours + from
        /\ to \in 0 .. DayHours - 1 /\ b = (b \div DayHours) * DayHours + to
    BY <1>2, Calendar, DayAndHour
  <2> HIDE DEF a, b, day, from, to
  <2> QED BY <2>1, <2>2
<1>6. from >= SESSION_START_HOUR /\ to <= SESSION_END_HOUR
  BY DEF ValidTimeSlot, Hour
<1>7. day \in -1 .. Days
  BY <1>2, <1>5, DayOfCalendar
<1>8. b - a = to - from /\ b = day * DayHours + from + (to - from)
  <2>1. day * DayHours \in Int
    BY <1>5, Calendar
  <2> QED BY <1>2, <1>5, <2>1
<1>9. /\ from \in SESSION_START_HOUR .. SESSION_END_HOUR
      /\ to - from \in MIN_BOOKING_HOURS .. MAX_BOOKING_HOURS
      /\ to - from > 0 /\ from + (to - from) <= SESSION_END_HOUR
  <2>1. from \in Int /\ to \in Int
    BY <1>5, Calendar
  <2> HIDE DEF a, b, day, from, to
  <2> QED BY <1>3, <1>4, <1>6, <1>8, <2>1, Calendar
<1>10. /\ Wall(slot.start) = (day * DayHours + from) * HourTicks
       /\ Wall(slot.end) = (day * DayHours + from + (to - from)) * HourTicks
  BY <1>2, <1>5, <1>8
<1> HIDE DEF day, from, to
<1> QED BY <1>7, <1>9, <1>10 DEF InTimetable

\* What the timetable offers validate_time_slot accepts.
LEMMA TimetableAccepted ==
    ASSUME Requested, InTimetable(slot), slot.start.offset = slot.end.offset
    PROVE  ValidTimeSlot(slot)
<1>1. PICK day \in -1 .. Days, from \in SESSION_START_HOUR .. SESSION_END_HOUR,
           len \in MIN_BOOKING_HOURS .. MAX_BOOKING_HOURS :
          /\ len > 0 /\ from + len <= SESSION_END_HOUR
          /\ Wall(slot.start) = (day * DayHours + from) * HourTicks
          /\ Wall(slot.end) = (day * DayHours + from + len) * HourTicks
  BY DEF InTimetable
<1> DEFINE a == day * DayHours + from
           b == day * DayHours + from + len
<1>2. /\ day \in Int /\ from \in Int /\ len \in Int /\ day * DayHours \in Int
      /\ MIN_BOOKING_HOURS \in Int /\ MAX_BOOKING_HOURS \in Int
      /\ a \in Int /\ b \in Int /\ b - a = len
  BY Calendar, CalendarAssumption, RequestAssumption
<1>3. slot.start \in DateTime /\ slot.end \in DateTime
  BY DEF Requested, Slot
<1>4. /\ Minute(slot.start) = 0 /\ WallHour(slot.start) = a
      /\ Minute(slot.end) = 0 /\ WallHour(slot.end) = b
  BY <1>1, <1>2, <1>3, OnFullHour
<1>5. Hour(slot.start) = from /\ Hour(slot.end) = from + len
  <2>1. from \in 0 .. DayHours - 1 /\ from + len \in 0 .. DayHours - 1
    BY <1>1, <1>2, Calendar
  <2>2. (day * DayHours + from) % DayHours = from
        /\ (day * DayHours + (from + len)) % DayHours = from + len
    BY <1>2, <2>1, Calendar, HourOfDay
  <2>3. day * DayHours + (from + len) = b
    BY <1>2
  <2> QED BY <1>4, <2>2, <2>3 DEF Hour
<1>6. Duration(slot) = b * HourTicks - a * HourTicks
  <2>1. a * HourTicks \in Int /\ b * HourTicks \in Int
    BY <1>2, Calendar
  <2> QED BY <1>1, <1>3, <2>1 DEF Duration, Wall, DateTime
<1>7. /\ Duration(slot) >= MIN_BOOKING_HOURS * HourTicks
      /\ Duration(slot) <= MAX_BOOKING_HOURS * HourTicks
      /\ Duration(slot) > 0
  BY <1>1, <1>2, <1>6, FullHoursApart
<1>8. slot.end.utc > slot.start.utc
  BY <1>3, <1>7 DEF Duration, DateTime
<1>9. from >= SESSION_START_HOUR /\ from + len <= SESSION_END_HOUR
  BY <1>1, <1>2, Calendar
<1> QED BY <1>4, <1>5, <1>7, <1>8, <1>9 DEF ValidTimeSlot

\* On one date and with one offset validate_time_slot accepts the session timetable,
\* nothing else and nothing less.
THEOREM TimetableAndNothingElse == Spec => []SameDayVerdictExact
<1>1. Requested => SameDayVerdictExact
  <2> SUFFICES ASSUME Requested, verdict # "pending", WholeMinutes(slot),
                      slot.start.offset = slot.end.offset,
                      Date(slot.start) = Date(slot.end)
               PROVE  verdict = "accepted" <=> InTimetable(slot)
    BY DEF SameDayVerdictExact
  <2>1. verdict = "accepted" => InTimetable(slot)
    BY AcceptedInTimetable DEF Requested
  <2>2. InTimetable(slot) => verdict = "accepted"
    BY TimetableAccepted DEF Requested
  <2> QED BY <2>1, <2>2
<1> QED BY <1>1, RequestedAlways, PTL

-----------------------------------------------------------------------------
(***************************************************************************)
(* The price.                                                              *)
(***************************************************************************)

\* The hours of the ticks from one full hour up to another.
LEMMA HoursOfTicks ==
    ASSUME NEW m \in Nat \ {0}, NEW a \in Int, NEW b \in Int, a <= b
    PROVE  {x \div m : x \in a * m .. b * m - 1} = a .. b - 1
<1>1. a * m \in Int /\ b * m \in Int
  OBVIOUS
<1>2. ASSUME NEW x \in a * m .. b * m - 1
      PROVE  x \div m \in a .. b - 1
  <2>1. x \in Int /\ a * m <= x /\ x < b * m
    BY <1>1
  <2>2. x \div m \in Int /\ a <= x \div m /\ x \div m < b
    BY <2>1, HourBounds
  <2> QED BY <2>2
<1>3. ASSUME NEW h \in a .. b - 1
      PROVE  \E x \in a * m .. b * m - 1 : x \div m = h
  <2>1. h \in Int /\ a <= h /\ h < b /\ h * m \in Int
    OBVIOUS
  <2>2. a * m <= h * m /\ h * m < b * m
    BY <2>1, ProductMonotone
  <2>3. h * m \in a * m .. b * m - 1
    BY <1>1, <2>1, <2>2
  <2>4. (h * m) \div m \in Int /\ h <= (h * m) \div m /\ (h * m) \div m <= h
    BY <2>1, HourBounds
  <2>5. (h * m) \div m = h
    BY <2>1, <2>4
  <2> QED BY <2>3, <2>5
<1> QED BY <1>2, <1>3

\* A slot of whole hours that starts on a full hour occupies as many hours of that
\* clock as it lasts.
LEMMA WholeHoursOccupied ==
    ASSUME NEW s \in Slot, NEW a \in Int, NEW n \in Nat,
           Wall(s.start) = a * HourTicks, Duration(s) = n * HourTicks
    PROVE  BilledHours(s) = n /\ Cardinality(OccupiedHours(s)) = n
<1> DEFINE m == HourTicks
           o == s.start.offset
<1>1. m \in Nat \ {0} /\ s.start.utc \in Int /\ s.end.utc \in Int /\ o \in Int
  BY Calendar DEF Slot, DateTime
<1>2. BilledHours(s) = n
  <2>1. n * m \in Int /\ n * m <= n * m
    BY <1>1
  <2>2. (n * m) \div m \in Int /\ n <= (n * m) \div m /\ (n * m) \div m <= n
    BY <1>1, <2>1, HourBounds
  <2> QED BY <2>2 DEF BilledHours
<1>3. (a + n) * m = a * m + n * m /\ a * m \in Int /\ n * m \in Int
  BY <1>1
<1>4. s.start.utc + o = a * m /\ s.end.utc + o = (a + n) * m
  <2>1. s.start.utc + o = a * m
    BY DEF Wall
  <2>2. s.end.utc - s.start.utc = n * m
    BY DEF Duration
  <2>3. PICK p \in Int, q \in Int : p = a * m /\ q = n * m
    BY <1>3
  <2>4. s.end.utc + o = p + q
    <3> HIDE DEF m, o
    <3> QED BY <1>1, <2>1, <2>2, <2>3
  <2> QED BY <1>3, <2>1, <2>3, <2>4
<1>5. OccupiedHours(s) = {x \div m : x \in a * m .. (a + n) * m - 1}
  <2> DEFINE A == {(t + o) \div m : t \in Ticks(s)}
             B == {x \div m : x \in a * m .. (a + n) * m - 1}
  <2>1. ASSUME NEW t \in Ticks(s)
        PROVE  (t + o) \div m \in B
    <3>1. t + o \in a * m .. (a + n) * m - 1
      BY <1>1, <1>3, <1>4 DEF Ticks
    <3> QED BY <3>1
  <2>2. ASSUME NEW x \in a * m .. (a + n) * m - 1
        PROVE  x \div m \in A
    <3>1. x - o \in Ticks(s) /\ (x - o) + o = x
      BY <1>1, <1>3, <1>4 DEF Ticks
    <3> QED BY <3>1
  <2>3. A = B
    BY <2>1, <2>2
  <2> QED BY <2>3 DEF OccupiedHours
<1>6. OccupiedHours(s) = a .. (a + n) - 1
  <2>1. a + n \in Int /\ a <= a + n
    OBVIOUS
  <2>2. {x \div m : x \in a * m .. (a + n) * m - 1} = a .. (a + n) - 1
    BY <1>1, <2>1, HoursOfTicks
  <2> QED BY <1>5, <2>2
<1>7. Cardinality(a .. (a + n) - 1) = n
  <2>1. a \in Int /\ (a + n) - 1 \in Int
    OBVIOUS
  <2>2. Cardinality(a .. (a + n) - 1) =
            IF a > (a + n) - 1 THEN 0 ELSE (a + n) - 1 - a + 1
    BY <2>1, FS_Interval
  <2> QED BY <2>2
<1> QED BY <1>2, <1>6, <1>7

\* An accepted slot is billed for each hour it occupies.
THEOREM EveryHourBilled == Spec => []BillsEveryHour
<1>1. Requested => BillsEveryHour
  <2> SUFFICES ASSUME Requested, verdict = "accepted", WholeMinutes(slot),
                      (slot.end.offset - slot.start.offset) % HourTicks = 0
               PROVE  BilledHours(slot) = Cardinality(OccupiedHours(slot))
    BY DEF BillsEveryHour
  <2> DEFINE a == WallHour(slot.start)
             b == WallHour(slot.end)
             gap == slot.end.offset - slot.start.offset
             k == gap \div HourTicks
  <2>1. /\ slot \in Slot /\ slot.start \in DateTime /\ slot.end \in DateTime
        /\ ValidTimeSlot(slot)
    BY DEF Requested, Slot
  <2>2. /\ a \in Int /\ Wall(slot.start) = a * HourTicks
        /\ b \in Int /\ Wall(slot.end) = b * HourTicks
    BY <2>1, MinuteZero DEF WholeMinutes, ValidTimeSlot
  <2>3. gap \in Int /\ k \in Int /\ gap = k * HourTicks
    <3>1. gap \in Int
      BY <2>1 DEF DateTime
    <3> QED BY <3>1, Calendar, FullHour
  <2>4. Duration(slot) = (b - k - a) * HourTicks /\ Duration(slot) > 0
    <3>1. (b - k - a) * HourTicks = b * HourTicks - k * HourTicks - a * HourTicks
          /\ b * HourTicks \in Int /\ a * HourTicks \in Int /\ k * HourTicks \in Int
      BY <2>2, <2>3, Calendar
    <3> HIDE DEF k, a, b
    <3> QED BY <2>1, <2>2, <2>3, <3>1 DEF Duration, Wall, DateTime, ValidTimeSlot
  <2>5. b - k - a \in Nat
    <3>1. b - k \in Int /\ b - k - a \in Int
      BY <2>2, <2>3
    <3>2. b - k - a > 0
      BY <2>2, <2>4, <3>1, FullHoursApart
    <3> QED BY <3>1, <3>2
  <2> HIDE DEF k, a, b
  <2> QED BY <2>1, <2>2, <2>4, <2>5, WholeHoursOccupied
<1> QED BY <1>1, RequestedAlways, PTL
=============================================================================
