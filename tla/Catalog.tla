------------------------------ MODULE Catalog ------------------------------
(***************************************************************************)
(* The administration of halls and seats: requests that create, patch and  *)
(* delete halls, insert seats one by one or as a grid, and delete seats.   *)
(* Each runs in its own transaction (get_db) at READ COMMITTED, and every  *)
(* statement is a step.                                                    *)
(*                                                                         *)
(* PostgreSQL makes an insertion wait while another open transaction has   *)
(* inserted the same position or updated a row that has it, and an UPDATE  *)
(* while another one has updated the row.  An id, taken from a sequence,   *)
(* is the request that inserts the row.                                    *)
(***************************************************************************)
EXTENDS Patch, Sequences, Naturals

CONSTANTS
    Requests,
    Inputs,         \* the requests that may come in
    Positions,      \* <<row, number>>
    Rates,
    GivenHalls,     \* the halls there at the start, and
    GivenHall,      \*   the row of each
    GivenSeats,
    Null,           \* an explicit null in a PATCH
    NoRow,          \* a row that is not there
    NoInput

HallFields == [is_active : BOOLEAN, hourly_rate : Rates]
HallData ==
    {<<>>} \cup [is_active : BOOLEAN \cup {Null}] \cup [hourly_rate : Rates \cup {Null}]
        \cup [is_active : BOOLEAN \cup {Null}, hourly_rate : Rates \cup {Null}]
Makers == Requests \cup GivenHalls
Seat == [hall : Makers, at : Positions, by : Makers, is_active : BOOLEAN]

Input ==
    [op : {"create_hall"}, data : HallFields]
        \cup [op : {"update_hall"}, hall : Makers, data : HallData]
        \cup [op : {"delete_hall"}, hall : Makers]
        \cup [op : {"create_seats"}, hall : Makers, at : Seq(Positions)]
        \cup [op : {"delete_seat"}, hall : Makers, seat : [by : Makers, at : Positions]]

Earlier(p, q) == p[1] < q[1] \/ (p[1] = q[1] /\ p[2] < q[2])

\* One position, or a grid row by row: each position comes after the ones before it.
ASSUME GridAssumption ==
    /\ Positions \subseteq Nat \X Nat
    /\ \A i \in Inputs : i.op = "create_seats" =>
           \A m, n \in DOMAIN i.at : m < n => Earlier(i.at[m], i.at[n])

\* Bodies and paths of requests; rows and seats_per_row are at least 1.
ASSUME CatalogAssumption ==
    /\ Inputs \subseteq Input
    /\ \A i \in Inputs : i.op = "create_seats" => Len(i.at) >= 1
    /\ GivenHall \in [GivenHalls -> HallFields]
    /\ GivenSeats \subseteq {s \in Seat : s.hall \in GivenHalls /\ s.by = s.hall}
    /\ \A s, t \in GivenSeats : s.at = t.at /\ s.hall = t.hall => s = t
    /\ Requests \cap GivenHalls = {}
    /\ NoRow \notin HallFields \cup Seat
    /\ Null \notin Rates /\ Null \notin BOOLEAN
    /\ NoInput \notin Input

VARIABLES
    pc,             \* pc[r]: the statement at which request r stands
    input,          \* input[r]: its path and body
    loaded,         \* loaded[r]: the row it has loaded
    count,          \* count[r]: positions it has inserted
    outcome,        \* outcome[r]: what became of its transaction
    hall,           \* the committed rows: hall[h],
    seats           \*   and the seats

rows == <<hall, seats>>
vars == <<pc, input, loaded, count, outcome, rows>>

TypeOK ==
    /\ pc \in [Requests -> {"idle", "find", "load", "flush", "commit", "ended"}]
    /\ input \in [Requests -> Inputs \cup {NoInput}]
    /\ \A r \in Requests : pc[r] = "idle" <=> input[r] = NoInput
    /\ loaded \in [Requests -> HallFields \cup Seat \cup {NoRow}]
    /\ count \in [Requests -> Nat]
    /\ outcome \in [Requests -> {"none", "committed", "refused", "failed"}]
    /\ hall \in [Makers -> HallFields \cup {NoRow}]
    /\ seats \subseteq Seat

Init ==
    /\ pc = [r \in Requests |-> "idle"]
    /\ input = [r \in Requests |-> NoInput]
    /\ loaded = [r \in Requests |-> NoRow]
    /\ count = [r \in Requests |-> 0]
    /\ outcome = [r \in Requests |-> "none"]
    /\ hall = [h \in Makers |-> IF h \in GivenHalls THEN GivenHall[h] ELSE NoRow]
    /\ seats = GivenSeats

-----------------------------------------------------------------------------
(***************************************************************************)
(* What the open transactions hold                                         *)
(***************************************************************************)
Op(r) == input[r].op
Updates(r) == Op(r) \in {"update_hall", "delete_hall", "delete_seat"}

\* What is assigned to the loaded row.
Toggled(r) ==                     \* mutant: DELETE inverts the flag
    IF Op(r) = "update_hall" THEN input[r].data
                             ELSE [is_active |-> ~ loaded[r].is_active]

Data(r) == IF Op(r) = "update_hall" THEN input[r].data ELSE [is_active |-> FALSE]
Written(r) == Changed(loaded[r], Data(r))

\* The rows r has inserted so far, and the position that comes next.
Inserted(r) ==
    {[hall |-> input[r].hall, at |-> input[r].at[i], by |-> r, is_active |-> TRUE] :
        i \in 1 .. count[r]}
NextAt(r) == input[r].at[count[r] + 1]

RefusedStaysOpen(o) ==            \* mutant: a refused request leaves its session open
    pc[o] \in {"flush", "commit"} \/ outcome[o] = "refused"

Open(o) == pc[o] \in {"flush", "commit"}

HoldsPosition(o, h, p) ==
    /\ Open(o)
    /\ \/ Op(o) = "create_seats" /\ \E s \in Inserted(o) : s.hall = h /\ s.at = p
       \/ /\ Op(o) = "delete_seat" /\ pc[o] = "commit" /\ Written(o) # {}
          /\ loaded[o].hall = h /\ loaded[o].at = p

LockedWhenLoaded(o, h) ==         \* mutant: SELECT ... FOR SHARE before the UPDATE
    /\ Open(o)
    /\ Op(o) \in {"update_hall", "delete_hall"}
    /\ input[o].hall = h /\ Written(o) # {}

HoldsHall(o, h) ==
    /\ Open(o) /\ pc[o] = "commit"
    /\ Op(o) \in {"update_hall", "delete_hall"}
    /\ input[o].hall = h /\ Written(o) # {}

-----------------------------------------------------------------------------
(***************************************************************************)
(* The handlers                                                            *)
(***************************************************************************)
Goto(r, step) == pc' = [pc EXCEPT ![r] = step]

\* The session ends: with its commit, with an exception the router answers, or
\* with one it does not.  An answer that is lost changes nothing here.
End(r, how) == Goto(r, "ended") /\ outcome' = [outcome EXCEPT ![r] = how]

Receive(r) ==
    /\ pc[r] = "idle"
    /\ \E i \in Inputs :
           /\ input' = [input EXCEPT ![r] = i]
           /\ Goto(r, IF i.op = "create_hall" THEN "flush" ELSE "find")
    /\ UNCHANGED <<loaded, count, outcome, rows>>

\* The hall of the path, active or not; 404 without one.
FindHall(r) ==
    /\ pc[r] = "find"
    /\ \/ hall[input[r].hall] = NoRow /\ End(r, "refused") /\ UNCHANGED loaded
       \/ /\ hall[input[r].hall] # NoRow
          /\ loaded' = [loaded EXCEPT ![r] = hall[input[r].hall]]
          /\ Goto(r, IF Op(r) = "delete_seat" THEN "load" ELSE "flush")
          /\ UNCHANGED outcome
    /\ UNCHANGED <<input, count, rows>>

TheSeat(r) == {s \in seats : s.hall = input[r].hall /\ s.by = input[r].seat.by
                                                    /\ s.at = input[r].seat.at}

LoadSeat(r) ==
    /\ pc[r] = "load"
    /\ \/ TheSeat(r) = {} /\ End(r, "refused") /\ UNCHANGED loaded
       \/ /\ \E s \in TheSeat(r) : loaded' = [loaded EXCEPT ![r] = s]
          /\ Goto(r, "flush") /\ UNCHANGED outcome
    /\ UNCHANGED <<input, count, rows>>

InsertHall(r) ==
    /\ pc[r] = "flush" /\ Op(r) = "create_hall"
    /\ Goto(r, "commit")
    /\ UNCHANGED <<input, loaded, count, outcome, rows>>

Taken(h, p) == \E s \in seats : s.hall = h /\ s.at = p

CommittedOnly(r) ==               \* mutant: a check by SELECT in place of the index
    /\ pc[r] = "flush" /\ Op(r) = "create_seats"
    /\ \/ Taken(input[r].hall, NextAt(r)) /\ End(r, "refused") /\ UNCHANGED count
       \/ /\ ~ Taken(input[r].hall, NextAt(r))
          /\ count' = [count EXCEPT ![r] = @ + 1]
          /\ IF count[r] + 1 = Len(input[r].at) THEN Goto(r, "commit") ELSE UNCHANGED pc
          /\ UNCHANGED outcome
    /\ UNCHANGED <<input, loaded, rows>>

KeepWhatFits(r) ==                \* mutant: a conflict ends the insertion, not the session
    /\ pc[r] = "flush" /\ Op(r) = "create_seats"
    /\ \A o \in Requests \ {r} : ~ HoldsPosition(o, input[r].hall, NextAt(r))
    /\ \/ Taken(input[r].hall, NextAt(r)) /\ Goto(r, "commit") /\ UNCHANGED count
       \/ /\ ~ Taken(input[r].hall, NextAt(r))
          /\ count' = [count EXCEPT ![r] = @ + 1]
          /\ IF count[r] + 1 = Len(input[r].at) THEN Goto(r, "commit") ELSE UNCHANGED pc
    /\ UNCHANGED <<input, loaded, outcome, rows>>

\* create_seat and bulk_create_seats: the rows go in one after the other, row by
\* row, and the unique index refuses a position that is there, active or not.
InsertSeat(r) ==
    /\ pc[r] = "flush" /\ Op(r) = "create_seats"
    /\ \A o \in Requests \ {r} : ~ HoldsPosition(o, input[r].hall, NextAt(r))
    /\ \/ Taken(input[r].hall, NextAt(r)) /\ End(r, "refused") /\ UNCHANGED count
       \/ /\ ~ Taken(input[r].hall, NextAt(r))
          /\ count' = [count EXCEPT ![r] = @ + 1]
          /\ IF count[r] + 1 = Len(input[r].at) THEN Goto(r, "commit") ELSE UNCHANGED pc
          /\ UNCHANGED outcome
    /\ UNCHANGED <<input, loaded, rows>>

NullStored(r) ==                  \* mutant: the columns are nullable
    /\ pc[r] = "flush" /\ Updates(r)
    /\ Goto(r, "commit")
    /\ UNCHANGED <<input, loaded, count, outcome, rows>>

\* update_hall, delete_hall, delete_seat.  A null is refused by the column; no field
\* that changes, no statement.
Update(r) ==
    /\ pc[r] = "flush" /\ Updates(r)
    /\ \/ \E f \in Written(r) : Data(r)[f] = Null
          /\ End(r, "failed")
       \/ /\ \A f \in Written(r) : Data(r)[f] # Null
          /\ Written(r) # {} => \A o \in Requests \ {r} :
                 IF Op(r) = "delete_seat"
                 THEN ~ HoldsPosition(o, loaded[r].hall, loaded[r].at)
                 ELSE ~ HoldsHall(o, input[r].hall)
          /\ Goto(r, "commit") /\ UNCHANGED outcome
    /\ UNCHANGED <<input, loaded, count, rows>>

Store(r) ==
    CASE Op(r) = "create_hall" ->
            hall' = [hall EXCEPT ![r] = input[r].data] /\ UNCHANGED seats
      [] Op(r) = "create_seats" -> seats' = seats \cup Inserted(r) /\ UNCHANGED hall
      [] Op(r) = "delete_seat" ->
            /\ seats' = {IF s \in TheSeat(r) THEN Patched(s, loaded[r], Data(r)) ELSE s :
                            s \in seats}
            /\ UNCHANGED hall
      [] OTHER ->
            /\ hall' = [hall EXCEPT ![input[r].hall] = Patched(@, loaded[r], Data(r))]
            /\ UNCHANGED seats

Commit(r) ==
    /\ pc[r] = "commit"
    /\ Store(r)
    /\ End(r, "committed")
    /\ UNCHANGED <<input, loaded, count>>

\* A statement fails, or the process dies: the transaction is rolled back.
Fail(r) ==
    /\ pc[r] \notin {"idle", "ended"}
    /\ End(r, "failed")
    /\ UNCHANGED <<input, loaded, count, rows>>

-----------------------------------------------------------------------------
Handle(r) ==
    \/ FindHall(r) \/ LoadSeat(r)
    \/ InsertHall(r) \/ InsertSeat(r) \/ Update(r)
    \/ Commit(r)

AllEnded == (\A r \in Requests : pc[r] = "ended") /\ UNCHANGED vars

Next ==
    \/ \E r \in Requests : Receive(r) \/ Handle(r) \/ Fail(r)
    \/ AllEnded

Spec == Init /\ [][Next]_vars

\* The event loop resumes a handler whose statement has completed; a statement that
\* waits goes on when the other transaction has ended.
Fairness == \A r \in Requests : WF_vars(Handle(r))

FairSpec == Spec /\ Fairness
=============================================================================
