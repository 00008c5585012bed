--------------------------- MODULE CatalogProofs ---------------------------
(***************************************************************************)
(* Theorems about halls and seats, for any number of requests, halls and   *)
(* positions and grids of any size.                                        *)
(***************************************************************************)
EXTENDS CatalogProperties, FiniteSetTheorems, TLAPS

(***************************************************************************)
(* Patches of a hall, and of a seat by delete_seat.                        *)
(***************************************************************************)
HallColumns == {"is_active", "hourly_rate"}

LEMMA PatchedHall ==
    ASSUME NEW row \in HallFields, NEW old \in HallFields, NEW data \in HallData,
           \A f \in Changed(old, data) : data[f] # Null
    PROVE  /\ Patched(row, old, data) \in HallFields
           /\ \A f \in HallColumns : Patched(row, old, data)[f] =
                                         IF f \in Changed(old, data) THEN data[f] ELSE row[f]
<1> USE CatalogAssumption DEF HallFields, Patched, Changed, HallColumns
<1>1. CASE data \in [is_active : BOOLEAN \cup {Null}]
  BY <1>1
<1>2. CASE data \in [hourly_rate : Rates \cup {Null}]
  BY <1>2
<1>3. CASE data \in [is_active : BOOLEAN \cup {Null}, hourly_rate : Rates \cup {Null}]
  BY <1>3
<1>4. CASE data = <<>>
  BY <1>4
<1> QED BY <1>1, <1>2, <1>3, <1>4 DEF HallData

LEMMA PatchedSeat ==
    ASSUME NEW s \in Seat, NEW old \in Seat
    PROVE  LET t == Patched(s, old, [is_active |-> FALSE]) IN
               /\ t \in Seat
               /\ t.hall = s.hall /\ t.at = s.at /\ t.by = s.by
               /\ t.is_active => s.is_active
BY DEF Seat, Patched, Changed

(***************************************************************************)
(* Types, and where a request may stand with what.                         *)
(***************************************************************************)
OfHall(r) == Op(r) \in {"update_hall", "delete_hall"}

Stands(r) ==
    /\ pc[r] # "idle" => input[r] \in Inputs
    /\ outcome[r] # "none" => pc[r] = "ended"
    /\ pc[r] = "find" => Op(r) # "create_hall"
    /\ pc[r] = "load" => Op(r) = "delete_seat"
    /\ pc[r] \in {"idle", "find", "load"} => count[r] = 0
    /\ pc[r] = "flush" /\ Op(r) = "create_seats" => count[r] < Len(input[r].at)
    /\ (pc[r] = "commit" \/ outcome[r] = "committed") /\ Op(r) = "create_seats" =>
           count[r] = Len(input[r].at)
    /\ pc[r] \in {"flush", "commit"} /\ Op(r) = "delete_seat" => loaded[r] \in Seat
    /\ pc[r] \in {"flush", "commit"} /\ OfHall(r) => loaded[r] \in HallFields
    /\ (pc[r] \in {"flush", "commit"} \/ outcome[r] = "committed") /\ OfHall(r) =>
           hall[input[r].hall] \in HallFields
    /\ pc[r] = "commit" /\ OfHall(r) => \A f \in Written(r) : Data(r)[f] # Null
    /\ hall[r] # NoRow => outcome[r] = "committed" /\ Op(r) = "create_hall"

Typed == TypeOK /\ \A r \in Requests : Stands(r)

LEMMA EarlierIsOrder ==
    ASSUME NEW p \in Positions
    PROVE  /\ ~ Earlier(p, p)
           /\ \A q, s \in Positions : Earlier(p, q) /\ Earlier(q, s) => Earlier(p, s)
<1>1. \A q \in Positions : q[1] \in Nat /\ q[2] \in Nat
  BY GridAssumption
<1> QED BY <1>1 DEF Earlier

LEMMA InputsForm ==
    ASSUME NEW i \in Inputs
    PROVE  /\ i.op \in {"create_hall", "update_hall", "delete_hall", "create_seats",
                        "delete_seat"}
           /\ i.op = "create_hall" => i.data \in HallFields
           /\ i.op # "create_hall" => i.hall \in Makers
           /\ i.op = "update_hall" => i.data \in HallData
           /\ i.op = "create_seats" =>
                  /\ i.at \in Seq(Positions) /\ Len(i.at) >= 1
                  /\ \A m, n \in DOMAIN i.at : i.at[m] = i.at[n] => m = n
<1>1. /\ i \in Input
      /\ i.op \in {"create_hall", "update_hall", "delete_hall", "create_seats",
                  "delete_seat"}
      /\ i.op = "create_hall" => i.data \in HallFields
      /\ i.op # "create_hall" => i.hall \in Makers
      /\ i.op = "update_hall" => i.data \in HallData
      /\ i.op = "create_seats" => i.at \in Seq(Positions) /\ Len(i.at) >= 1
  BY CatalogAssumption DEF Input
<1>2. ASSUME i.op = "create_seats", NEW m \in DOMAIN i.at, NEW n \in DOMAIN i.at,
             i.at[m] = i.at[n]
      PROVE  m = n
  <2>1. m \in Nat /\ n \in Nat /\ i.at[m] \in Positions /\ i.at[n] \in Positions
    BY <1>1, <1>2
  <2>2. m < n \/ n < m => Earlier(i.at[m], i.at[m])
    BY <1>2, GridAssumption
  <2>3. ~ Earlier(i.at[m], i.at[m])
    BY <2>1, EarlierIsOrder
  <2> QED BY <2>1, <2>2, <2>3
<1> QED BY <1>1, <1>2

LEMMA Assigned ==
    ASSUME NEW r \in Requests, input[r] \in Inputs, OfHall(r)
    PROVE  Data(r) \in HallData
<1>1. CASE Op(r) = "update_hall"
  BY <1>1, InputsForm DEF Data, Op
<1>2. CASE Op(r) # "update_hall"
  BY <1>2 DEF Data, HallData
<1> QED BY <1>1, <1>2

LEMMA TypedInit == Init => Typed
<1> SUFFICES ASSUME Init PROVE Typed
  OBVIOUS
<1>1. TypeOK
  BY CatalogAssumption DEF Init, TypeOK, Makers
<1>2. \A r \in Requests : Stands(r)
  BY CatalogAssumption DEF Init, Stands, Makers
<1> QED BY <1>1, <1>2 DEF Typed

\* The next position of a grid, and what has been inserted when it went in.
LEMMA InsertedRows ==
    ASSUME Typed, NEW r \in Requests, pc[r] \in {"flush", "commit"}, Op(r) = "create_seats"
    PROVE  /\ input[r].at \in Seq(Positions) /\ input[r].hall \in Makers
           /\ count[r] \in 0 .. Len(input[r].at)
           /\ Inserted(r) \subseteq Seat
<1>1. /\ input[r] \in Inputs /\ count[r] \in 0 .. Len(input[r].at)
      /\ input[r].at \in Seq(Positions) /\ input[r].hall \in Makers
  BY InputsForm DEF Typed, TypeOK, Stands, Op
<1>2. \A i \in 1 .. count[r] : input[r].at[i] \in Positions
  BY <1>1
<1>3. \A i \in 1 .. count[r] :
          [hall |-> input[r].hall, at |-> input[r].at[i], by |-> r, is_active |-> TRUE] \in Seat
  BY <1>1, <1>2 DEF Seat, Makers
<1> QED BY <1>1, <1>3 DEF Inserted

\* The rows of a hall and the seats after a commit.
LEMMA RowsCommitted ==
    ASSUME Typed, NEW r \in Requests, Commit(r)
    PROVE  /\ hall' \in [Makers -> HallFields \cup {NoRow}]
           /\ seats' \subseteq Seat
           /\ \A h \in Makers : hall[h] \in HallFields => hall'[h] \in HallFields
           /\ \A q \in Requests : hall'[q] # NoRow =>
                  hall[q] # NoRow \/ (q = r /\ Op(r) = "create_hall")
<1>1. /\ hall \in [Makers -> HallFields \cup {NoRow}] /\ seats \subseteq Seat /\ Stands(r)
      /\ input[r] \in Inputs /\ NoRow \notin HallFields /\ r \in Makers /\ Requests \subseteq Makers
      /\ pc[r] = "commit"
  BY CatalogAssumption DEF Typed, TypeOK, Commit, Stands, Makers
<1>2. CASE Op(r) = "create_hall"
  BY <1>1, <1>2, InputsForm DEF Commit, Store, Op
<1>3. CASE Op(r) = "create_seats"
  BY <1>1, <1>3, InsertedRows DEF Commit, Store, Op
<1>4. CASE Op(r) = "delete_seat"
  <2>1. loaded[r] \in Seat /\ Data(r) = [is_active |-> FALSE] /\ TheSeat(r) \subseteq Seat
    BY <1>1, <1>4 DEF Stands, Data, TheSeat
  <2>2. \A s \in seats : Patched(s, loaded[r], Data(r)) \in Seat
    BY <1>1, <2>1, PatchedSeat
  <2> QED BY <1>1, <1>4, <2>2 DEF Commit, Store, Op
<1>5. CASE OfHall(r)
  <2>1. input[r].hall \in Makers /\ Data(r) \in HallData
    BY <1>1, <1>5, Assigned, InputsForm DEF OfHall, Op
  <2>2. Patched(hall[input[r].hall], loaded[r], Data(r)) \in HallFields
    BY <1>1, <1>5, <2>1, PatchedHall DEF Stands, Written
  <2>3. hall' = [hall EXCEPT ![input[r].hall] =
                     Patched(hall[input[r].hall], loaded[r], Data(r))] /\ UNCHANGED seats
    BY <1>5 DEF Commit, Store, OfHall
  <2>4. hall[input[r].hall] # NoRow
    BY <1>1, <1>5 DEF Stands
  <2> QED BY <1>1, <2>1, <2>2, <2>3, <2>4
<1> QED BY <1>1, <1>2, <1>3, <1>4, <1>5, InputsForm DEF OfHall, Op

\* A step of one request leaves the others where they stand.
LEMMA OthersStand ==
    ASSUME Typed, NEW r \in Requests, NEW q \in Requests \ {r},
           pc'[q] = pc[q], input'[q] = input[q], count'[q] = count[q],
           loaded'[q] = loaded[q], outcome'[q] = outcome[q],
           \A h \in Makers : hall[h] \in HallFields => hall'[h] \in HallFields,
           hall'[q] # NoRow => hall[q] # NoRow
    PROVE  Stands(q)'
<1>1. Stands(q) /\ (input[q] \in Inputs /\ Op(q) # "create_hall" => input[q].hall \in Makers)
  BY InputsForm DEF Typed, Op
<1>2. Op(q)' = Op(q) /\ Written(q)' = Written(q) /\ Data(q)' = Data(q)
  BY DEF Op, Written, Data
<1> QED BY <1>1, <1>2 DEF Stands, OfHall, Typed, TypeOK

LEMMA TypedNext == Typed /\ [Next]_vars => Typed'
<1> SUFFICES ASSUME Typed, [Next]_vars PROVE Typed'
  OBVIOUS
<1> USE CatalogAssumption
<1>1. ASSUME NEW r \in Requests, Receive(r) \/ Handle(r) \/ Fail(r) PROVE Typed'
  <2>1. TypeOK /\ Stands(r) /\ (pc[r] # "idle" => input[r] \in Inputs) /\ r \in Makers
    BY DEF Typed, Stands, Makers
  <2>2. ASSUME TypeOK', Stands(r)',
               \A q \in Requests \ {r} :
                   /\ pc'[q] = pc[q] /\ input'[q] = input[q] /\ count'[q] = count[q]
                   /\ loaded'[q] = loaded[q] /\ outcome'[q] = outcome[q],
               \A h \in Makers : hall[h] \in HallFields => hall'[h] \in HallFields,
               \A q \in Requests \ {r} : hall'[q] # NoRow => hall[q] # NoRow
        PROVE  Typed'
    BY <2>2, OthersStand DEF Typed
  <2> USE <2>1
  <2>3. CASE Receive(r)
    <3>1. PICK i \in Inputs : /\ input' = [input EXCEPT ![r] = i]
                              /\ Goto(r, IF i.op = "create_hall" THEN "flush" ELSE "find")
      BY <2>3 DEF Receive
    <3>2. TypeOK'
      BY <2>3, <3>1 DEF Receive, TypeOK, Goto, rows
    <3>3. count[r] = 0 /\ hall[r] = NoRow
      BY <2>3 DEF Receive, Stands
    <3>4. Stands(r)'
      BY <2>3, <3>1, <3>3 DEF Receive, TypeOK, Stands, Goto, Op, OfHall, rows
    <3> QED BY <2>2, <2>3, <3>1, <3>2, <3>4 DEF Receive, Goto, TypeOK, rows
  <2>4. ASSUME NEW how \in {"refused", "failed"}, End(r, how), pc[r] \notin {"idle", "ended"},
               UNCHANGED <<input, loaded, count, rows>>
        PROVE  Typed'
    <3>1. TypeOK' /\ Stands(r)'
      BY <2>4 DEF End, Goto, TypeOK, Stands, rows, Op, OfHall
    <3> QED BY <2>2, <2>4, <3>1 DEF End, Goto, TypeOK, rows
  <2>5. CASE Fail(r)
    BY <2>4, <2>5 DEF Fail
  <2>6. CASE FindHall(r)
    <3>1. CASE End(r, "refused") /\ UNCHANGED loaded
      BY <2>4, <2>6, <3>1 DEF FindHall
    <3>2. CASE ~ (End(r, "refused") /\ UNCHANGED loaded)
      <4>1. input[r].hall \in Makers /\ hall[input[r].hall] \in HallFields
        BY <2>6, <3>2, InputsForm DEF FindHall, Stands, TypeOK, Op
      <4>2. /\ loaded' = [loaded EXCEPT ![r] = hall[input[r].hall]]
            /\ Goto(r, IF Op(r) = "delete_seat" THEN "load" ELSE "flush")
            /\ UNCHANGED <<outcome, input, count, rows>> /\ pc[r] = "find"
        BY <2>6, <3>2 DEF FindHall
      <4>3. TypeOK'
        BY <4>1, <4>2 DEF TypeOK, Goto, rows
      <4>4. Op(r) = "create_seats" => Len(input[r].at) >= 1
        BY <4>2, InputsForm DEF Op
      <4>5. Stands(r)'
        BY <4>1, <4>2, <4>4 DEF TypeOK, Stands, Goto, Op, OfHall, rows
      <4> QED BY <2>2, <4>2, <4>3, <4>5 DEF Goto, TypeOK, rows
    <3> QED BY <3>1, <3>2
  <2>7. CASE LoadSeat(r)
    <3>1. CASE End(r, "refused") /\ UNCHANGED loaded
      BY <2>4, <2>7, <3>1 DEF LoadSeat
    <3>2. CASE ~ (End(r, "refused") /\ UNCHANGED loaded)
      <4>1. PICK s \in TheSeat(r) : loaded' = [loaded EXCEPT ![r] = s]
        BY <2>7, <3>2 DEF LoadSeat
      <4>2. s \in Seat
        BY <4>1 DEF TheSeat, TypeOK
      <4>3. /\ Goto(r, "flush") /\ UNCHANGED <<input, count, outcome, rows>>
            /\ pc[r] = "load" /\ Op(r) = "delete_seat"
        BY <2>7, <3>2 DEF LoadSeat, Stands
      <4>4. TypeOK' /\ Stands(r)'
        BY <4>1, <4>2, <4>3 DEF TypeOK, Stands, Goto, Op, OfHall, rows
      <4> QED BY <2>2, <4>1, <4>3, <4>4 DEF Goto, TypeOK, rows
    <3> QED BY <3>1, <3>2
  <2>8. CASE InsertHall(r)
    <3>1. TypeOK' /\ Stands(r)'
      BY <2>8 DEF InsertHall, TypeOK, Stands, Goto, Op, OfHall, rows
    <3> QED BY <2>2, <2>8, <3>1 DEF InsertHall, Goto, TypeOK, rows
  <2>9. CASE InsertSeat(r)
    <3>1. CASE End(r, "refused") /\ UNCHANGED count
      BY <2>4, <2>9, <3>1 DEF InsertSeat
    <3>2. CASE ~ (End(r, "refused") /\ UNCHANGED count)
      <4>1. /\ count' = [count EXCEPT ![r] = @ + 1]
            /\ IF count[r] + 1 = Len(input[r].at) THEN Goto(r, "commit") ELSE UNCHANGED pc
            /\ UNCHANGED <<outcome, input, loaded, rows>>
            /\ pc[r] = "flush" /\ Op(r) = "create_seats"
        BY <2>9, <3>2 DEF InsertSeat
      <4>2. count[r] \in 0 .. Len(input[r].at) /\ Len(input[r].at) \in Nat /\ count[r] \in Nat
        BY <4>1, InsertedRows
      <4>3. TypeOK'
        <5>1. count' \in [Requests -> Nat]
          BY <4>1, <4>2 DEF TypeOK
        <5>2. /\ pc' \in [Requests -> {"idle", "find", "load", "flush", "commit", "ended"}]
              /\ \A q \in Requests : pc'[q] = "idle" <=> input[q] = NoInput
          BY <4>1 DEF TypeOK, Goto
        <5> QED BY <4>1, <5>1, <5>2 DEF TypeOK, rows
      <4>4. Stands(r)'
        BY <4>1, <4>2 DEF TypeOK, Stands, Goto, Op, OfHall, rows
      <4> QED BY <2>2, <4>1, <4>3, <4>4 DEF Goto, TypeOK, rows
    <3> QED BY <3>1, <3>2
  <2>10. CASE Update(r)
    <3>1. CASE End(r, "failed")
      BY <2>4, <2>10, <3>1 DEF Update
    <3>2. CASE ~ End(r, "failed")
      <4>1. /\ \A f \in Written(r) : Data(r)[f] # Null
            /\ Goto(r, "commit") /\ UNCHANGED <<input, loaded, count, outcome, rows>>
            /\ pc[r] = "flush" /\ Updates(r)
        BY <2>10, <3>2 DEF Update
      <4>2. TypeOK' /\ Written(r)' = Written(r) /\ Data(r)' = Data(r) /\ Op(r)' = Op(r)
        BY <4>1 DEF TypeOK, Goto, rows, Written, Data, Op
      <4>3. Stands(r)'
        BY <4>1, <4>2 DEF TypeOK, Stands, Goto, OfHall, rows, Updates
      <4> QED BY <2>2, <4>1, <4>2, <4>3 DEF Goto, TypeOK, rows
    <3> QED BY <3>1, <3>2
  <2>11. CASE Commit(r)
    <3>1. /\ hall' \in [Makers -> HallFields \cup {NoRow}] /\ seats' \subseteq Seat
          /\ \A h \in Makers : hall[h] \in HallFields => hall'[h] \in HallFields
          /\ \A q \in Requests : hall'[q] # NoRow =>
                 hall[q] # NoRow \/ (q = r /\ Op(r) = "create_hall")
      BY <2>11, RowsCommitted
    <3>2. pc[r] = "commit" /\ End(r, "committed") /\ UNCHANGED <<input, loaded, count>>
      BY <2>11 DEF Commit
    <3>3. TypeOK'
      BY <3>1, <3>2 DEF TypeOK, End, Goto
    <3>4. OfHall(r) => input[r].hall \in Makers
      BY <3>2, InputsForm DEF OfHall, Op
    <3>5. Stands(r)'
      BY <3>1, <3>2, <3>4 DEF TypeOK, End, Goto, Stands, OfHall, Op
    <3> QED BY <2>2, <3>1, <3>2, <3>3, <3>5 DEF End, Goto, TypeOK
  <2> QED BY <1>1, <2>3, <2>5, <2>6, <2>7, <2>8, <2>9, <2>10, <2>11 DEF Handle
<1>2. CASE UNCHANGED vars
  BY <1>2 DEF vars, rows, Typed, TypeOK, Stands, Op, OfHall, Written, Data
<1> QED BY <1>1, <1>2 DEF Next, AllEnded

LEMMA AlwaysTyped == Spec => []Typed
BY TypedInit, TypedNext, PTL DEF Spec

\* In every reachable state the rows and the requests are well typed.
THEOREM TypeCorrect == Spec => []TypeOK
BY AlwaysTyped, PTL DEF Typed

(***************************************************************************)
(* The seats a commit leaves.                                              *)
(***************************************************************************)
\* delete_seat takes a seat to one of the same place.
LEMMA CommittedSeats ==
    ASSUME Typed, NEW r \in Requests, Commit(r)
    PROVE  /\ Op(r) = "create_seats" => seats' = seats \cup Inserted(r)
           /\ Op(r) # "create_seats" =>
                  \E F \in [seats -> Seat] :
                      /\ seats' = {F[s] : s \in seats}
                      /\ \A s \in seats : /\ F[s].hall = s.hall /\ F[s].at = s.at
                                          /\ F[s].by = s.by
                                          /\ F[s].is_active => s.is_active
<1>1. /\ seats \subseteq Seat /\ Stands(r) /\ input[r] \in Inputs /\ pc[r] = "commit"
      /\ Store(r)
  BY DEF Typed, TypeOK, Commit, Stands
<1>2. CASE Op(r) = "create_seats"
  BY <1>1, <1>2 DEF Store
<1>3. CASE Op(r) = "delete_seat"
  <2>1. loaded[r] \in Seat /\ Data(r) = [is_active |-> FALSE]
    BY <1>1, <1>3 DEF Stands, Data
  <2> DEFINE G(s) == IF s \in TheSeat(r) THEN Patched(s, loaded[r], Data(r)) ELSE s
             F == [s \in seats |-> G(s)]
  <2>2. \A s \in seats : /\ G(s) \in Seat
                         /\ G(s).hall = s.hall /\ G(s).at = s.at /\ G(s).by = s.by
                         /\ G(s).is_active => s.is_active
    BY <1>1, <2>1, PatchedSeat
  <2>3. seats' = {G(s) : s \in seats}
    BY <1>1, <1>3 DEF Store
  <2> HIDE DEF G
  <2>4. F \in [seats -> Seat] /\ seats' = {F[s] : s \in seats} /\ \A s \in seats : F[s] = G(s)
    BY <2>2, <2>3
  <2> HIDE DEF F
  <2> QED BY <1>3, <2>2, <2>4
<1>4. CASE Op(r) \notin {"create_seats", "delete_seat"}
  <2> DEFINE F == [s \in seats |-> s]
  <2>1. seats' = seats
    BY <1>1, <1>4 DEF Store
  <2>2. F \in [seats -> Seat] /\ seats' = {F[s] : s \in seats}
    BY <1>1, <2>1
  <2> QED BY <1>4, <2>2
<1> QED BY <1>2, <1>3, <1>4

\* A seat that was deactivated is never active again, and no seat goes away.
THEOREM SeatsStayAway == Spec => SeatsNeverReturn
<1>1. ASSUME Typed, [Next]_vars, NEW s \in seats
      PROVE  \E t \in seats' : /\ t.hall = s.hall /\ t.at = s.at /\ t.by = s.by
                               /\ t.is_active => s.is_active
  <2>1. CASE UNCHANGED seats
    BY <1>1, <2>1
  <2>2. ASSUME NEW r \in Requests, Commit(r)
        PROVE  \E t \in seats' : /\ t.hall = s.hall /\ t.at = s.at /\ t.by = s.by
                                 /\ t.is_active => s.is_active
    BY <1>1, <2>2, CommittedSeats
  <2>3. UNCHANGED seats \/ \E r \in Requests : Commit(r)
    BY <1>1 DEF Next, Handle, Receive, FindHall, LoadSeat, InsertHall, InsertSeat, Update,
                Fail, AllEnded, vars, rows
  <2> QED BY <2>1, <2>2, <2>3
<1>2. Typed /\ [Next]_vars =>
          [\A s \in seats : \E t \in seats' :
               /\ t.hall = s.hall /\ t.at = s.at /\ t.by = s.by
               /\ t.is_active => s.is_active]_vars
  BY <1>1
<1> QED BY <1>2, AlwaysTyped, PTL DEF Spec, SeatsNeverReturn

(***************************************************************************)
(* The unique index.                                                       *)
(***************************************************************************)
Inserts(r) == Open(r) /\ Op(r) = "create_seats"

\* The rows of an open insertion collide with no committed one and with no other's.
PositionsFree ==
    /\ UniquePositions
    /\ \A r \in Requests : Inserts(r) => \A s \in Inserted(r) : ~ Taken(s.hall, s.at)
    /\ \A r, q \in Requests : r # q /\ Inserts(r) /\ Inserts(q) =>
           \A s \in Inserted(r), t \in Inserted(q) : ~ (s.hall = t.hall /\ s.at = t.at)

LEMMA PositionsFreeInit == Init => PositionsFree
BY CatalogAssumption DEF Init, PositionsFree, UniquePositions, Inserts, Open

\* The rows of one grid differ in their position.
LEMMA GridUnique ==
    ASSUME Typed, NEW r \in Requests, Inserts(r), NEW s \in Inserted(r), NEW t \in Inserted(r),
           s.at = t.at
    PROVE  s = t
<1>1. input[r] \in Inputs /\ input[r].at \in Seq(Positions) /\ count[r] \in 0 .. Len(input[r].at)
  BY InsertedRows DEF Typed, Inserts, Open, Stands
<1>2. PICK m \in 1 .. count[r], n \in 1 .. count[r] :
          /\ s = [hall |-> input[r].hall, at |-> input[r].at[m], by |-> r, is_active |-> TRUE]
          /\ t = [hall |-> input[r].hall, at |-> input[r].at[n], by |-> r, is_active |-> TRUE]
  BY DEF Inserted
<1>3. m \in DOMAIN input[r].at /\ n \in DOMAIN input[r].at
  BY <1>1, <1>2
<1>4. m = n
  BY <1>1, <1>2, <1>3, InputsForm DEF Inserts, Op
<1> QED BY <1>2, <1>4

LEMMA PositionsFreeNext == Typed /\ PositionsFree /\ [Next]_vars => PositionsFree'
<1> SUFFICES ASSUME Typed, PositionsFree, [Next]_vars PROVE PositionsFree'
  OBVIOUS
\* A step that commits nothing, after which no request has newly inserted a row.
<1>1. ASSUME UNCHANGED seats, 
             \A r \in Requests : Inserts(r)' => Inserts(r) /\ Inserted(r)' = Inserted(r)
      PROVE  PositionsFree'
  BY <1>1 DEF PositionsFree, UniquePositions, Taken
<1>2. ASSUME NEW r \in Requests, Receive(r) \/ Handle(r) \/ Fail(r) PROVE PositionsFree'
  <2>1. TypeOK /\ Stands(r)
    BY DEF Typed
  <2>2. ASSUME \A q \in Requests \ {r} : 
                   pc'[q] = pc[q] /\ input'[q] = input[q] /\ count'[q] = count[q],
               NEW q \in Requests \ {r}
        PROVE  Inserts(q)' = Inserts(q) /\ Inserted(q)' = Inserted(q)
    BY <2>2 DEF Inserts, Inserted, Open, Op
  <2>3. ASSUME UNCHANGED seats, ~ Inserts(r)' \/ Inserted(r)' = {},
               \A q \in Requests \ {r} : 
                   pc'[q] = pc[q] /\ input'[q] = input[q] /\ count'[q] = count[q]
        PROVE  PositionsFree'
    BY <2>2, <2>3 DEF PositionsFree, UniquePositions, Taken
  <2>4. CASE Receive(r) \/ Fail(r) \/ LoadSeat(r) \/ InsertHall(r) \/ Update(r)
    <3>1. ~ Inserts(r)'
      BY <2>1, <2>4 DEF Receive, Fail, LoadSeat, InsertHall, Update, Updates, End, Goto, TypeOK,
                        Inserts, Open, Op, Stands
    <3> QED BY <2>1, <2>3, <2>4, <3>1 DEF Receive, Fail, LoadSeat, InsertHall, Update, End,
                                          Goto, TypeOK, rows
  <2>5. CASE FindHall(r)
    <3>1. Inserted(r)' = {} 
      BY <2>1, <2>5 DEF FindHall, Stands, Inserted, TypeOK
    <3> QED BY <2>1, <2>3, <2>5, <3>1 DEF FindHall, End, Goto, TypeOK, rows
  <2>6. CASE InsertSeat(r)
    <3>1. CASE End(r, "refused") /\ UNCHANGED count
      BY <2>1, <2>3, <2>6, <3>1 DEF InsertSeat, End, Goto, TypeOK, rows, Inserts, Open
    <3>2. CASE ~ (End(r, "refused") /\ UNCHANGED count)
      <4> DEFINE new == [hall |-> input[r].hall, at |-> NextAt(r), by |-> r, is_active |-> TRUE]
      <4>1. /\ ~ Taken(input[r].hall, NextAt(r)) /\ count' = [count EXCEPT ![r] = @ + 1]
            /\ pc[r] = "flush" /\ Op(r) = "create_seats"
            /\ UNCHANGED <<input, seats>>
            /\ \A o \in Requests \ {r} : ~ HoldsPosition(o, input[r].hall, NextAt(r))
            /\ \A q \in Requests \ {r} : pc'[q] = pc[q]
        BY <2>1, <2>6, <3>2 DEF InsertSeat, Goto, TypeOK, rows
      <4>2. Inserts(r) /\ Inserted(r)' = Inserted(r) \cup {new}
        <5>1. count[r] \in Nat /\ count'[r] = count[r] + 1
          BY <2>1, <4>1 DEF TypeOK
        <5>2. 1 .. count'[r] = (1 .. count[r]) \cup {count[r] + 1}
          BY <5>1
        <5> QED BY <4>1, <5>2 DEF Inserts, Open, Inserted, NextAt
      <4>3. \A q \in Requests \ {r} : Inserts(q) => 
                \A t \in Inserted(q) : ~ (new.hall = t.hall /\ new.at = t.at)
        BY <4>1 DEF HoldsPosition, Inserts
      <4>4. ~ Taken(new.hall, new.at)
        BY <4>1
      <4>5. \A q \in Requests \ {r} : Inserts(q)' = Inserts(q) /\ Inserted(q)' = Inserted(q)
        BY <2>1, <2>2, <4>1 DEF TypeOK
      <4> HIDE DEF new
      <4>6. \A q \in Requests : Inserts(q)' => 
                Inserts(q) /\ Inserted(q)' \subseteq Inserted(q) \cup (IF q = r THEN {new} ELSE {})
        BY <4>2, <4>5
      <4> QED BY <4>1, <4>2, <4>3, <4>4, <4>5, <4>6 DEF PositionsFree, UniquePositions, Taken
    <3> QED BY <3>1, <3>2
  <2>7. CASE Commit(r)
    <3>1. ~ Inserts(r)' /\ \A q \in Requests \ {r} :
                               Inserts(q)' = Inserts(q) /\ Inserted(q)' = Inserted(q)
      BY <2>1, <2>2, <2>7 DEF Commit, End, Goto, TypeOK, Inserts, Open
    <3>2. CASE Op(r) = "create_seats"
      <4>1. Inserts(r) /\ seats' = seats \cup Inserted(r)
        BY <2>7, <3>2, CommittedSeats DEF Commit, Inserts, Open
      <4>2. UniquePositions'
        BY <4>1, GridUnique DEF PositionsFree, UniquePositions, Taken
      <4> QED BY <3>1, <4>1, <4>2 DEF PositionsFree, Taken
    <3>3. CASE Op(r) # "create_seats"
      <4>1. PICK F \in [seats -> Seat] :
                /\ seats' = {F[s] : s \in seats}
                /\ \A s \in seats : F[s].hall = s.hall /\ F[s].at = s.at
        BY <2>7, <3>3, CommittedSeats
      <4> QED BY <3>1, <4>1 DEF PositionsFree, UniquePositions, Taken
    <3> QED BY <3>2, <3>3
  <2> QED BY <1>2, <2>4, <2>5, <2>6, <2>7 DEF Handle
<1>3. CASE UNCHANGED vars
  BY <1>1, <1>3 DEF vars, rows, Inserts, Inserted, Open, Op
<1> QED BY <1>2, <1>3 DEF Next, AllEnded

\* Two seats of a hall never have one position, however insertions interleave.
THEOREM PositionsUnique == Spec => []UniquePositions
<1>1. Spec => [](Typed /\ PositionsFree)
  BY AlwaysTyped, PositionsFreeInit, PositionsFreeNext, PTL DEF Spec
<1>2. PositionsFree => UniquePositions
  BY DEF PositionsFree
<1> QED BY <1>1, <1>2, PTL

(***************************************************************************)
(* All of a grid or nothing.                                               *)
(***************************************************************************)
Whole(r) == {s.at : s \in {s \in seats : s.by = r}}
                = IF outcome[r] = "committed" THEN GridOf(r) ELSE {}

LEMMA WholeNext == Typed /\ AllOrNothing /\ [Next]_vars => AllOrNothing'
<1> SUFFICES ASSUME Typed, AllOrNothing, [Next]_vars, NEW q \in Requests PROVE Whole(q)'
  BY DEF AllOrNothing, Whole, GridOf, Op
<1>1. Whole(q) /\ TypeOK /\ Stands(q)
  BY DEF AllOrNothing, Whole, Typed
<1>2. ASSUME UNCHANGED seats, outcome[q] = "committed" <=> outcome'[q] = "committed",
             outcome[q] = "committed" => input'[q] = input[q]
      PROVE  Whole(q)'
  BY <1>1, <1>2 DEF Whole, GridOf, Op
<1>3. ASSUME NEW r \in Requests, Receive(r) \/ Handle(r) \/ Fail(r), ~ Commit(r) PROVE Whole(q)'
  <2>1. UNCHANGED seats /\ (outcome[q] = "committed" <=> outcome'[q] = "committed")
    BY <1>1, <1>3 DEF Handle, Receive, Fail, FindHall, LoadSeat, InsertHall, InsertSeat, Update,
                      End, TypeOK, rows, Stands
  <2>2. outcome[q] = "committed" => input'[q] = input[q]
    BY <1>1, <1>3 DEF Handle, Receive, Fail, FindHall, LoadSeat, InsertHall, InsertSeat, Update,
                      TypeOK, Stands
  <2> QED BY <1>2, <2>1, <2>2
<1>4. ASSUME NEW r \in Requests, Commit(r) PROVE Whole(q)'
  <2>1. /\ UNCHANGED input /\ pc[r] = "commit" /\ input[r] # NoInput
        /\ outcome' = [outcome EXCEPT ![r] = "committed"]
        /\ outcome[r] # "committed" /\ seats \subseteq Seat
        /\ GridOf(q)' = GridOf(q)
    BY <1>4 DEF Commit, End, Typed, TypeOK, Stands, GridOf, Op
  <2> DEFINE mine == {s \in seats : s.by = q}
  <2>2. CASE Op(r) = "create_seats"
    <3>1. seats' = seats \cup Inserted(r) /\ \A s \in Inserted(r) : s.by = r
      BY <1>4, <2>2, CommittedSeats DEF Inserted
    <3>2. CASE q # r
      <4>1. mine' = mine /\ outcome'[q] = outcome[q]
        BY <1>1, <2>1, <3>1, <3>2 DEF TypeOK
      <4> HIDE DEF mine
      <4>2. {s.at : s \in mine} = IF outcome[q] = "committed" THEN GridOf(q) ELSE {}
        BY <1>1 DEF Whole, mine
      <4>3. {s.at : s \in mine'} = IF outcome'[q] = "committed" THEN GridOf(q)' ELSE {}
        BY <2>1, <4>1, <4>2
      <4> QED BY <4>3 DEF Whole, mine
    <3>3. CASE q = r
      <4>1. {s \in seats : s.by = q} = {}
        BY <1>1, <2>1, <3>3 DEF Whole
      <4>2. {s \in seats' : s.by = q} = Inserted(r)
        BY <3>1, <3>3, <4>1
      <4>3. count[r] = Len(input[r].at) /\ DOMAIN input[r].at = 1 .. count[r]
        BY <1>1, <2>1, <2>2, <3>3, InsertedRows DEF Stands
      <4>4. \A s \in Inserted(r) : \E i \in DOMAIN input[r].at : s.at = input[r].at[i]
        BY <4>3 DEF Inserted
      <4>5. ASSUME NEW i \in DOMAIN input[r].at
            PROVE  \E s \in Inserted(r) : s.at = input[r].at[i]
        <5> DEFINE s == [hall |-> input[r].hall, at |-> input[r].at[i], by |-> r,
                         is_active |-> TRUE]
        <5>1. s \in Inserted(r) /\ s.at = input[r].at[i]
          BY <4>3 DEF Inserted
        <5> QED BY <5>1
      <4>6. {s.at : s \in Inserted(r)} = GridOf(r)
        <5> DEFINE at == input[r].at
        <5>1. GridOf(r) = {at[i] : i \in DOMAIN at}
          BY <2>1, <2>2 DEF GridOf
        <5>2. /\ \A s \in Inserted(r) : \E i \in DOMAIN at : s.at = at[i]
              /\ \A i \in DOMAIN at : \E s \in Inserted(r) : s.at = at[i]
          BY <4>4, <4>5
        <5> HIDE DEF at
        <5> QED BY <5>1, <5>2
      <4>7. outcome'[r] = "committed" /\ mine' = Inserted(r)
        BY <1>1, <2>1, <3>3, <4>2 DEF TypeOK
      <4> HIDE DEF mine
      <4>8. {s.at : s \in mine'} = IF outcome'[q] = "committed" THEN GridOf(q)' ELSE {}
        BY <2>1, <3>3, <4>6, <4>7
      <4> QED BY <4>8 DEF Whole, mine
    <3> QED BY <3>2, <3>3
  <2>3. CASE Op(r) # "create_seats"
    <3>1. PICK F \in [seats -> Seat] :
              /\ seats' = {F[s] : s \in seats}
              /\ \A s \in seats : F[s].at = s.at /\ F[s].by = s.by
      BY <1>4, <2>3, CommittedSeats
    <3>2. {s.at : s \in {s \in seats' : s.by = q}} = {s.at : s \in {s \in seats : s.by = q}}
      BY <3>1
    <3> QED BY <1>1, <2>1, <2>3, <3>2 DEF Whole, GridOf, Op, TypeOK
  <2> QED BY <2>2, <2>3
<1>5. CASE UNCHANGED vars
  BY <1>2, <1>5 DEF vars, rows
<1> QED BY <1>3, <1>4, <1>5 DEF Next, AllEnded

\* A request to create seats leaves all of its grid or nothing.
THEOREM GridsWhole == Spec => []AllOrNothing
<1>1. Init => AllOrNothing
  BY CatalogAssumption DEF Init, AllOrNothing, Makers
<1> QED BY <1>1, AlwaysTyped, WholeNext, PTL DEF Spec

(***************************************************************************)
(* No patch is lost.                                                       *)
(***************************************************************************)
\* A field of a hall is what one of the committed requests that named it has asked for.
Kept(h, f) == IF Asked(h, f) = {} THEN hall[h][f] = First(h)[f]
              ELSE \E r \in Asked(h, f) : hall[h][f] = Data(r)[f]

\* A request that has loaded a hall knows the first value of a field nobody has changed.
KnowsFirst(r) ==
    pc[r] \in {"flush", "commit"} /\ OfHall(r) =>
        \A f \in HallColumns : Asked(input[r].hall, f) = {} =>
            loaded[r][f] = First(input[r].hall)[f]

NothingLost ==
    /\ \A h \in Makers : hall[h] # NoRow => \A f \in HallColumns : Kept(h, f)
    /\ \A r \in Requests : KnowsFirst(r)

LEMMA NothingLostInit == Init => NothingLost
<1> SUFFICES ASSUME Init PROVE NothingLost
  OBVIOUS
<1>1. \A h \in Makers, f \in HallColumns : Asked(h, f) = {}
  BY DEF Init, Asked
<1>2. \A h \in Makers : hall[h] # NoRow => h \in GivenHalls /\ hall[h] = GivenHall[h]
  BY DEF Init
<1> QED BY <1>1, <1>2 DEF NothingLost, Kept, First, KnowsFirst, Init

\* Who asked for a field, after a step that commits nothing.
LEMMA AskedStays ==
    ASSUME Typed, UNCHANGED hall,
           \A q \in Requests : outcome[q] = "committed" <=> outcome'[q] = "committed",
           \A q \in Requests : pc[q] # "idle" => input'[q] = input[q]
    PROVE  /\ \A h \in Makers, f \in HallColumns : Asked(h, f)' = Asked(h, f)
           /\ \A h \in Makers : hall[h] # NoRow => First(h)' = First(h)
           /\ \A h \in Makers, f \in HallColumns : \A q \in Asked(h, f) :
                  Data(q)' = Data(q)
<1>1. \A q \in Requests : /\ Stands(q)
                          /\ outcome[q] = "committed" => input'[q] = input[q]
  BY DEF Typed, Stands
<1>2. \A q \in Requests : outcome[q] = "committed" => Data(q)' = Data(q) /\ Op(q)' = Op(q)
  BY <1>1 DEF Data, Op
<1>3. ASSUME NEW h \in Makers, NEW f \in HallColumns PROVE Asked(h, f)' = Asked(h, f)
  BY <1>1, <1>2 DEF Asked
<1>4. ASSUME NEW h \in Makers, hall[h] # NoRow PROVE First(h)' = First(h)
  BY <1>1, <1>4 DEF First, Makers, Stands
<1> QED BY <1>2, <1>3, <1>4 DEF Asked

LEMMA NothingLostNext == Typed /\ NothingLost /\ [Next]_vars => NothingLost'
<1> SUFFICES ASSUME Typed, NothingLost, [Next]_vars PROVE NothingLost'
  OBVIOUS
\* A step that commits nothing, after which requests that had loaded a hall know the same.
<1>1. ASSUME UNCHANGED hall,
             \A h \in Makers, f \in HallColumns : Asked(h, f)' = Asked(h, f),
             \A h \in Makers : hall[h] # NoRow => First(h)' = First(h),
             \A h \in Makers, f \in HallColumns : \A q \in Asked(h, f) : Data(q)' = Data(q),
             \A q \in Requests : KnowsFirst(q)'
      PROVE  NothingLost'
  BY <1>1 DEF NothingLost, Kept
<1>2. ASSUME NEW r \in Requests, Receive(r) \/ Handle(r) \/ Fail(r), ~ Commit(r)
      PROVE  NothingLost'
  <2>1. TypeOK /\ Stands(r)
    BY DEF Typed
  <2>2. /\ UNCHANGED hall
        /\ \A q \in Requests : outcome[q] = "committed" <=> outcome'[q] = "committed"
    BY <1>2, <2>1 DEF Handle, Receive, Fail, FindHall, LoadSeat, InsertHall, InsertSeat, Update,
                      End, TypeOK, rows, Stands
  <2>3. \A q \in Requests : pc[q] # "idle" => input'[q] = input[q]
    BY <1>2, <2>1 DEF Handle, Receive, Fail, FindHall, LoadSeat, InsertHall, InsertSeat, Update,
                      TypeOK
  <2>4. /\ \A h \in Makers, f \in HallColumns : Asked(h, f)' = Asked(h, f)
        /\ \A h \in Makers : hall[h] # NoRow => First(h)' = First(h)
        /\ \A h \in Makers, f \in HallColumns : \A q \in Asked(h, f) : Data(q)' = Data(q)
    BY <2>2, <2>3, AskedStays
  <2>5. ASSUME NEW q \in Requests PROVE KnowsFirst(q)'
    <3>1. CASE pc'[q] \notin {"flush", "commit"} \/ ~ OfHall(q)'
      BY <3>1 DEF KnowsFirst
    <3>2. CASE pc[q] \in {"flush", "commit"} /\ OfHall(q) /\ loaded'[q] = loaded[q]
      <4>1. input'[q] = input[q] /\ hall[input[q].hall] # NoRow /\ input[q].hall \in Makers
        BY <2>3, <3>2, InputsForm, CatalogAssumption DEF Typed, Stands, OfHall, Op
      <4> QED BY <2>4, <3>2, <4>1 DEF KnowsFirst, NothingLost
    <3>3. CASE /\ q = r /\ pc[r] = "find" /\ loaded' = [loaded EXCEPT ![r] = hall[input[r].hall]]
               /\ hall[input[r].hall] # NoRow /\ UNCHANGED input
      <4>1. input[r].hall \in Makers /\ loaded'[r] = hall[input[r].hall]
        BY <2>1, <3>3, InputsForm DEF Stands, Op, TypeOK
      <4> QED BY <2>4, <3>3, <4>1 DEF KnowsFirst, NothingLost, Kept
    <3>4. \/ pc'[q] \notin {"flush", "commit"} \/ ~ OfHall(q)'
          \/ pc[q] \in {"flush", "commit"} /\ OfHall(q) /\ loaded'[q] = loaded[q]
          \/ /\ q = r /\ pc[r] = "find" /\ loaded' = [loaded EXCEPT ![r] = hall[input[r].hall]]
             /\ hall[input[r].hall] # NoRow /\ UNCHANGED input
      <4>1. CASE q = r
        BY <1>2, <2>1, <4>1 DEF Handle, Receive, Fail, FindHall, LoadSeat, InsertHall, InsertSeat,
                                Update, Updates, End, Goto, TypeOK, OfHall, Op, Stands
      <4>2. CASE q # r
        BY <1>2, <2>1, <4>2 DEF Handle, Receive, Fail, FindHall, LoadSeat, InsertHall, InsertSeat,
                                Update, End, Goto, TypeOK, OfHall, Op
      <4> QED BY <4>1, <4>2
    <3> QED BY <3>1, <3>2, <3>3, <3>4
  <2> QED BY <1>1, <2>2, <2>4, <2>5
<1>3. ASSUME NEW r \in Requests, Commit(r) PROVE NothingLost'
  <2>1. /\ TypeOK /\ Stands(r) /\ input[r] \in Inputs /\ r \in Makers /\ NoRow \notin HallFields
        /\ pc[r] = "commit" /\ outcome[r] # "committed" /\ Store(r)
        /\ UNCHANGED <<input, loaded>>
        /\ outcome' = [outcome EXCEPT ![r] = "committed"] /\ pc' = [pc EXCEPT ![r] = "ended"]
    BY <1>3, CatalogAssumption DEF Commit, End, Goto, Typed, Stands, Makers
  <2>2. /\ \A h \in Makers : First(h)' = First(h)
        /\ \A q \in Requests : Data(q)' = Data(q) /\ OfHall(q)' = OfHall(q)
    BY <2>1 DEF First, Data, OfHall, Op
  <2>3. ASSUME NEW h \in Makers, NEW f \in HallColumns
        PROVE  Asked(h, f)' = Asked(h, f) \cup
                   IF OfHall(r) /\ input[r].hall = h /\ f \in DOMAIN Data(r) THEN {r} ELSE {}
    BY <2>1, <2>2 DEF Asked, TypeOK, OfHall, Op
  <2>4. ASSUME NEW q \in Requests PROVE KnowsFirst(q)'
    <3>1. pc'[q] \in {"flush", "commit"} /\ OfHall(q)' =>
              pc[q] = pc'[q] /\ OfHall(q) /\ input[q].hall \in Makers
      BY <2>1, InputsForm DEF TypeOK, OfHall, Op, Typed, Stands
    <3> QED BY <2>1, <2>2, <2>3, <3>1 DEF KnowsFirst, NothingLost
  <2>5. ASSUME NEW h \in Makers, NEW f \in HallColumns, hall'[h] # NoRow PROVE Kept(h, f)'
    <3>1. CASE Op(r) = "create_hall" /\ h = r
      <4>1. hall'[h] = input[r].data
        BY <2>1, <3>1 DEF Store, TypeOK
      <4>2. First(h) = input[r].data
        BY <3>1, CatalogAssumption DEF First
      <4>3. hall[h] = NoRow
        BY <2>1, <3>1 DEF Stands
      <4>4. Asked(h, f) = {}
        BY <4>3, <2>1 DEF Asked, Typed, Stands, OfHall
      <4>5. Asked(h, f)' = {}
        BY <2>3, <3>1, <4>4 DEF OfHall
      <4> QED BY <2>2, <4>1, <4>2, <4>5 DEF Kept
    <3>2. CASE OfHall(r) /\ h = input[r].hall
      <4>1. /\ hall[h] \in HallFields /\ loaded[r] \in HallFields /\ Data(r) \in HallData
            /\ \A g \in Changed(loaded[r], Data(r)) : Data(r)[g] # Null
        BY <2>1, <3>2, Assigned DEF Stands, Written
      <4>2. hall' = [hall EXCEPT ![input[r].hall] =
                         Patched(hall[input[r].hall], loaded[r], Data(r))]
        BY <2>1, <3>2 DEF Store, OfHall
      <4>3. hall'[h] = Patched(hall[h], loaded[r], Data(r))
        BY <2>1, <3>2, <4>2 DEF TypeOK
      <4>4. hall'[h][f] = IF f \in Changed(loaded[r], Data(r)) THEN Data(r)[f] ELSE hall[h][f]
        BY <4>1, <4>3, PatchedHall
      <4>5. Kept(h, f) /\ (Asked(h, f) = {} => loaded[r][f] = First(h)[f])
        BY <2>1, <3>2, <4>1 DEF NothingLost, KnowsFirst
      <4>6. CASE f \in DOMAIN Data(r)
        <5>1. r \in Asked(h, f)' /\ Asked(h, f) \subseteq Asked(h, f)' /\ Data(r)' = Data(r)
          BY <2>2, <2>3, <3>2, <4>6
        <5>2. \A q \in Asked(h, f) : Data(q)' = Data(q)
          BY <2>2 DEF Asked
        <5>3. f \notin Changed(loaded[r], Data(r)) => loaded[r][f] = Data(r)[f]
          BY <4>6 DEF Changed
        <5> QED BY <4>4, <4>5, <5>1, <5>2, <5>3 DEF Kept
      <4>7. CASE f \notin DOMAIN Data(r)
        <5>1. hall'[h][f] = hall[h][f] /\ Asked(h, f)' = Asked(h, f)
          BY <2>3, <4>4, <4>7 DEF Changed
        <5>2. \A q \in Asked(h, f) : Data(q)' = Data(q)
          BY <2>2 DEF Asked
        <5> QED BY <2>2, <4>5, <5>1, <5>2 DEF Kept
      <4> QED BY <4>6, <4>7
    <3>3. CASE ~ (Op(r) = "create_hall" /\ h = r) /\ ~ (OfHall(r) /\ h = input[r].hall)
      <4>1. hall'[h] = hall[h]
        BY <2>1, <3>3, InputsForm DEF Store, TypeOK, OfHall, Op
      <4>2. Asked(h, f)' = Asked(h, f) /\ \A q \in Asked(h, f) : Data(q)' = Data(q)
        BY <2>2, <2>3, <3>3 DEF Asked
      <4>3. Kept(h, f)
        BY <2>5, <4>1 DEF NothingLost
      <4> QED BY <2>2, <4>1, <4>2, <4>3 DEF Kept
    <3> QED BY <3>1, <3>2, <3>3
  <2> QED BY <2>4, <2>5 DEF NothingLost
<1>4. CASE UNCHANGED vars
  BY <1>4 DEF vars, rows, NothingLost, Kept, KnowsFirst, Asked, First, Data, OfHall, Op
<1> QED BY <1>2, <1>3, <1>4 DEF Next, AllEnded

\* Each field of a hall ends with a value that one of the committed requests which named
\* it has asked for: no PATCH takes back what another one wrote meanwhile.
THEOREM NoPatchIsLost == Spec => []NoLostPatch
<1>1. Spec => [](Typed /\ NothingLost)
  BY AlwaysTyped, NothingLostInit, NothingLostNext, PTL DEF Spec
<1>2. Typed /\ NothingLost => NoLostPatch
  <2> SUFFICES ASSUME Typed, NothingLost, NEW h \in Makers, hall[h] # NoRow,
                      NEW f \in DOMAIN hall[h]
               PROVE  Kept(h, f)
    BY DEF NoLostPatch, Kept
  <2>1. hall[h] \in HallFields
    BY DEF Typed, TypeOK
  <2>2. f \in HallColumns
    BY <2>1 DEF HallFields, HallColumns
  <2> QED BY <2>2 DEF NothingLost
<1> QED BY <1>1, <1>2, PTL

(***************************************************************************)
(* No circle of waits.                                                     *)
(***************************************************************************)
\* Of finitely many things one has none after it.
LEMMA Foremost ==
    ASSUME NEW W, IsFiniteSet(W), W # {}, NEW R,
           \A x \in W : <<x, x>> \notin R,
           \A x, y, z \in W : <<x, y>> \in R /\ <<y, z>> \in R => <<x, z>> \in R
    PROVE  \E x \in W : \A y \in W : <<x, y>> \notin R
<1> DEFINE Up(x) == {y \in W : <<x, y>> \in R}
           T == {Up(x) : x \in W}
<1>1. IsWellFoundedOn(StrictSubsetOrdering(W), SUBSET W)
  BY FS_StrictSubsetOrderingWellFounded, FS_FiniteSubsetsOfFinite
<1>2. T \subseteq SUBSET W /\ T # {}
  <2>1. \A x \in W : Up(x) \in SUBSET W
    OBVIOUS
  <2> HIDE DEF Up
  <2> QED BY <2>1
<1>3. \E A \in T : \A B \in T : <<B, A>> \notin StrictSubsetOrdering(W)
  <2> HIDE DEF T
  <2> QED BY <1>1, <1>2, WFMin
<1>4. PICK x \in W : \A y \in W : <<Up(y), Up(x)>> \notin StrictSubsetOrdering(W)
  <2> HIDE DEF Up
  <2> QED BY <1>3
<1>5. ASSUME NEW y \in W, <<x, y>> \in R
      PROVE  FALSE
  <2>1. Up(y) \subseteq Up(x) /\ y \in Up(x) /\ y \notin Up(y)
    BY <1>5
  <2>2. Up(y) \in SUBSET W /\ Up(x) \in SUBSET W /\ Up(y) # Up(x)
    BY <2>1
  <2> HIDE DEF Up
  <2> QED BY <1>4, <2>1, <2>2 DEF StrictSubsetOrdering
<1> QED BY <1>5

\* A transaction that is waited for and waits itself is an insertion, and stands
\* further on than those that wait for it.
LEMMA WaitsForLater ==
    ASSUME Typed, NEW r \in Requests, NEW o \in Requests, NEW q \in Requests,
           WaitsFor(r, o), WaitsFor(o, q)
    PROVE  /\ pc[o] = "flush" /\ Op(o) = "create_seats"
           /\ pc[r] = "flush" /\ Op(r) = "create_seats" => Earlier(NextAt(r), NextAt(o))
<1>1. pc[o] = "flush" /\ Stands(o) /\ input[o] \in Inputs
  BY DEF WaitsFor, Typed, Stands
<1>2. Op(o) = "create_seats"
  BY <1>1 DEF WaitsFor, HoldsPosition, HoldsHall
<1>3. ASSUME Op(r) = "create_seats"
      PROVE  Earlier(NextAt(r), NextAt(o))
  <2>1. PICK s \in Inserted(o) : s.at = NextAt(r)
    BY <1>1, <1>3 DEF WaitsFor, HoldsPosition, Updates
  <2>2. PICK i \in 1 .. count[o] : NextAt(r) = input[o].at[i]
    BY <2>1 DEF Inserted
  <2>3. /\ input[o].at \in Seq(Positions) /\ count[o] \in Nat
        /\ count[o] < Len(input[o].at)
    BY <1>1, <1>2, InsertedRows DEF Stands
  <2>4. /\ i \in DOMAIN input[o].at /\ count[o] + 1 \in DOMAIN input[o].at
        /\ i < count[o] + 1
    BY <2>3
  <2> QED BY <1>1, <1>2, <2>2, <2>4, GridAssumption DEF NextAt, Op
<1> QED BY <1>1, <1>2, <1>3

\* Overlapping grids, deletions and patches never wait for each other in a circle.
THEOREM WaitsEnd == Spec => []NoWaitCircle
<1>1. Typed => NoWaitCircle
  <2> SUFFICES ASSUME Typed, NEW S \in SUBSET Requests, IsFiniteSet(S), S # {},
                      \A r \in S : \E o \in S : WaitsFor(r, o)
               PROVE  FALSE
    BY DEF NoWaitCircle
  <2> DEFINE W == {o \in S : \E r \in S : WaitsFor(r, o)}
             R == {e \in W \X W : Earlier(NextAt(e[1]), NextAt(e[2]))}
  <2>1. IsFiniteSet(W) /\ W # {} /\ W \subseteq Requests
    BY FS_Subset
  <2>2. \A o \in W : pc[o] = "flush" /\ Op(o) = "create_seats" /\ NextAt(o) \in Positions
    <3> SUFFICES ASSUME NEW o \in W
                 PROVE  /\ pc[o] = "flush" /\ Op(o) = "create_seats"
                        /\ NextAt(o) \in Positions
      OBVIOUS
    <3>1. pc[o] = "flush" /\ Op(o) = "create_seats"
      BY WaitsForLater
    <3>2. input[o].at \in Seq(Positions) /\ count[o] \in Nat /\ count[o] < Len(input[o].at)
      BY <3>1, InsertedRows DEF Typed, Stands
    <3> QED BY <3>1, <3>2 DEF NextAt
  <2>3. \A x \in W : <<x, x>> \notin R
    BY <2>2, EarlierIsOrder
  <2>4. \A x, y, z \in W : <<x, y>> \in R /\ <<y, z>> \in R => <<x, z>> \in R
    BY <2>2, EarlierIsOrder
  <2>5. \A x \in W : \E y \in W : <<x, y>> \in R
    <3> SUFFICES ASSUME NEW x \in W
                 PROVE  \E y \in W : <<x, y>> \in R
      OBVIOUS
    <3>1. PICK y \in S : WaitsFor(x, y)
      OBVIOUS
    <3>2. y \in W
      BY <3>1
    <3>3. Earlier(NextAt(x), NextAt(y))
      BY <2>2, <3>1, <3>2, WaitsForLater
    <3>4. <<x, y>> \in W \X W /\ Earlier(NextAt(<<x, y>>[1]), NextAt(<<x, y>>[2]))
      BY <3>2, <3>3
    <3>5. <<x, y>> \in R
      BY <3>4, Zenon
    <3> HIDE DEF W, R
    <3> QED BY <3>2, <3>5
  <2> HIDE DEF W, R
  <2>6. \E x \in W : \A y \in W : <<x, y>> \notin R
    <3>1. IsFiniteSet(W) /\ W # {}
      BY <2>1
    <3> QED BY <3>1, <2>3, <2>4, Foremost, Zenon
  <2> QED BY <2>5, <2>6
<1> QED BY <1>1, AlwaysTyped, PTL
=============================================================================
