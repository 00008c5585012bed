--------------------------- MODULE CalendarLemmas ---------------------------
(***************************************************************************)
(* Facts about whole hours and days that the proofs about time slots and   *)
(* about availability rest on, for every length of an hour and of a day.   *)
(***************************************************************************)
EXTENDS TimeSlot, TLAPS

LEMMA ProductMonotone ==
    ASSUME NEW m \in Nat \ {0}, NEW i \in Int, NEW j \in Int
    PROVE  /\ i <= j <=> i * m <= j * m
           /\ i < j <=> i * m < j * m
<1>1. CASE i < j
  <2>1. PICK n \in Nat : j = i + 1 + n
    <3>1. j - i - 1 \in Nat /\ j = i + 1 + (j - i - 1)
      BY <1>1
    <3> QED BY <3>1
  <2>2. j * m = i * m + m + n * m /\ n * m >= 0
    BY <2>1
  <2> QED BY <1>1, <2>2
<1>2. CASE i = j
  BY <1>2
<1>3. CASE i > j
  <2>1. PICK n \in Nat : i = j + 1 + n
    <3>1. i - j - 1 \in Nat /\ i = j + 1 + (i - j - 1)
      BY <1>3
    <3> QED BY <3>1
  <2>2. i * m = j * m + m + n * m /\ n * m >= 0
    BY <2>1
  <2> QED BY <1>3, <2>2
<1> QED BY <1>1, <1>2, <1>3

\* The hour that holds tick x is between the hours whose bounds x is between.
LEMMA HourBounds ==
    ASSUME NEW m \in Nat \ {0}, NEW x \in Int, NEW k \in Int
    PROVE  /\ x \div m \in Int
           /\ k * m <= x => k <= x \div m
           /\ x < k * m => x \div m < k
           /\ x <= k * m => x \div m <= k
<1>1. PICK v \in Int : v = x \div m
  OBVIOUS
<1>2. v * m <= x /\ x < v * m + m
  BY <1>1
<1>3. (v + 1) * m = v * m + m /\ (k + 1) * m = k * m + m
  OBVIOUS
<1>4. /\ k <= v + 1 - 1 <=> k < v + 1
      /\ k < v + 1 <=> k * m < (v + 1) * m
  BY ProductMonotone
<1>5. v < k <=> v * m < k * m
  BY ProductMonotone
<1>6. v < k + 1 <=> v * m < (k + 1) * m
  BY ProductMonotone
<1> QED BY <1>1, <1>2, <1>3, <1>4, <1>5, <1>6

\* A tick on the full hour.
LEMMA FullHour ==
    ASSUME NEW m \in Nat \ {0}, NEW x \in Int, x % m = 0
    PROVE  x \div m \in Int /\ x = (x \div m) * m
OBVIOUS

\* A number of hours is so many days and an hour of the day.
LEMMA DayAndHour ==
    ASSUME NEW m \in Nat \ {0}, NEW x \in Int
    PROVE  /\ x \div m \in Int /\ x % m \in 0 .. m - 1
           /\ x = (x \div m) * m + (x % m)
OBVIOUS

\* The hour of the day.
LEMMA HourOfDay ==
    ASSUME NEW n \in Nat \ {0}, NEW d \in Int, NEW hour \in 0 .. n - 1
    PROVE  (d * n + hour) % n = hour
<1>1. PICK v \in Int : v = (d * n + hour) \div n
  OBVIOUS
<1>2. (d * n + hour) % n = (d * n + hour) - v * n
      /\ (d * n + hour) % n \in 0 .. n - 1
  BY <1>1
<1>3. v * n <= d * n + hour /\ d * n + hour < v * n + n
  BY <1>2
<1>4. (v + 1) * n = v * n + n /\ (d + 1) * n = d * n + n
  OBVIOUS
<1>5. d < v + 1 /\ v < d + 1
  BY <1>3, <1>4, ProductMonotone
<1> QED BY <1>2, <1>5

LEMMA Calendar ==
    /\ HourTicks \in Nat \ {0} /\ DayHours \in Nat \ {0}
    /\ SESSION_START_HOUR \in Nat /\ SESSION_END_HOUR \in Nat
    /\ SESSION_START_HOUR < SESSION_END_HOUR /\ SESSION_END_HOUR < DayHours
<1>1. \A m, n \in Nat \ {0} : m * n \in Nat \ {0}
  <2>1. ASSUME NEW m \in Nat \ {0}, NEW n \in Nat \ {0}
        PROVE  m * n \in Nat \ {0}
    BY 0 < n, 0 * m < n * m, ProductMonotone
  <2> QED BY <2>1
<1> QED BY <1>1, CalendarAssumption DEF HourTicks
=============================================================================
