------------------------- MODULE CatalogProperties -------------------------
(***************************************************************************)
(* What the rows of halls and seats must be like under concurrent          *)
(* administration, and what delete_hall is said to do.                     *)
(***************************************************************************)
EXTENDS Catalog, FiniteSets

\* Two seats of a hall never have one position, although nothing looks at the rows
\* of open transactions but the unique index, and a deleted seat keeps its place.
UniquePositions ==
    \A s, t \in seats : s.hall = t.hall /\ s.at = t.at => s = t

\* A request to create seats leaves all of its grid or nothing, whatever other
\* insertions, deletions and failures it meets halfway.
GridOf(r) == IF input[r] # NoInput /\ Op(r) = "create_seats"
             THEN {input[r].at[i] : i \in DOMAIN input[r].at} ELSE {}

AllOrNothing ==
    \A r \in Requests :
        LET there == {s.at : s \in {s \in seats : s.by = r}} IN
            there = IF outcome[r] = "committed" THEN GridOf(r) ELSE {}

\* A seat that was deactivated is never active again, and no seat goes away: what
\* validate_seats_exist and the bookings of the seat rely on.
SeatsNeverReturn ==
    [][\A s \in seats : \E t \in seats' :
           /\ t.hall = s.hall /\ t.at = s.at /\ t.by = s.by
           /\ t.is_active => s.is_active]_vars

\* When all is done, each field of a hall has the value that one of the requests
\* which named it and committed has asked for, and its first value if there is none:
\* a PATCH of one field takes nothing back that another one did meanwhile.
Asked(h, f) ==
    {r \in Requests : /\ outcome[r] = "committed" /\ Op(r) \in {"update_hall", "delete_hall"}
                      /\ input[r].hall = h /\ f \in DOMAIN Data(r)}

First(h) == IF h \in GivenHalls THEN GivenHall[h] ELSE input[h].data

NoLostPatch ==
    (\A r \in Requests : pc[r] = "ended") =>
        \A h \in Makers : hall[h] # NoRow =>
            \A f \in DOMAIN hall[h] :
                IF Asked(h, f) = {} THEN hall[h][f] = First(h)[f]
                ELSE \E r \in Asked(h, f) : hall[h][f] = Data(r)[f]

\* The next statement of r waits for the transaction of o: an insertion for the one that
\* has its position, an UPDATE for the one that has its row.
WaitsFor(r, o) ==
    /\ o # r /\ pc[r] = "flush"
    /\ \/ Op(r) = "create_seats" /\ HoldsPosition(o, input[r].hall, NextAt(r))
       \/ /\ Updates(r) /\ Written(r) # {} /\ \A f \in Written(r) : Data(r)[f] # Null
          /\ IF Op(r) = "delete_seat"
             THEN HoldsPosition(o, loaded[r].hall, loaded[r].at)
             ELSE HoldsHall(o, input[r].hall)

\* However grids of any shape overlap, and whatever is deleted or patched meanwhile,
\* the waits never close a circle: in every set of requests one waits for no other.  An
\* insertion that waits has its next position before that of the one it waits for.
NoWaitCircle ==
    \A S \in SUBSET Requests : IsFiniteSet(S) /\ S # {} =>
        \E r \in S : \A o \in S : ~ WaitsFor(r, o)

\* Every request ends: insertions of overlapping grids, deletions and patches wait
\* for each other, but never in a circle.  Each comes once, and from some point on none
\* is under way.
RequestsEnd == <>[](\A r \in Requests : pc[r] \in {"idle", "ended"})

-----------------------------------------------------------------------------
\* "Деактивирует кинозал (мягкое удаление). Все связанные места также
\* деактивируются." (all seats of the hall are deactivated as well): when
\* delete_hall commits, the hall has no active seat.
HallSeatsDeactivated ==
    [][\A r \in Requests :
           (pc[r] = "commit" /\ outcome'[r] = "committed" /\ Op(r) = "delete_hall") =>
               \A s \in seats' : s.hall = input[r].hall => ~ s.is_active]_vars
=============================================================================
