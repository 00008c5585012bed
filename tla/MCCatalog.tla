----------------------------- MODULE MCCatalog -----------------------------
(***************************************************************************)
(* One hall with a seat in the second row, and three requests.             *)
(***************************************************************************)
EXTENDS CatalogProperties

CONSTANTS r1, r2, r3, h

MCRequests == {r1, r2, r3}
MCHalls == {h}
MCHall == [x \in MCHalls |-> [is_active |-> TRUE, hourly_rate |-> 1]]

\* Row-major, as bulk_create_seats builds it.
Grid(n, perRow) == [i \in 1 .. n * perRow |-> <<(i - 1) \div perRow + 1, ((i - 1) % perRow) + 1>>]

MCPositions == (1 .. 2) \X (1 .. 2)
MCRates == 1 .. 2
MCSeats == {[hall |-> h, at |-> <<2, 1>>, by |-> h, is_active |-> TRUE]}

Create(at) == [op |-> "create_seats", hall |-> h, at |-> at]
Delete(by, at) == [op |-> "delete_seat", hall |-> h, seat |-> [by |-> by, at |-> at]]
UpdateHall(data) == [op |-> "update_hall", hall |-> h, data |-> data]

\* Two grids that share their first position, one of which meets the given seat at its
\* second; deletions of that seat and of one that a request may create.
SeatRequests ==
    {Create(Grid(2, 1)), Create(Grid(1, 2)), Delete(h, <<2, 1>>), Delete(r1, <<1, 1>>)}

HallRequests ==
    {UpdateHall([hourly_rate |-> 2]), UpdateHall([is_active |-> TRUE]), UpdateHall(<<>>),
     UpdateHall([is_active |-> Null]), UpdateHall([is_active |-> FALSE, hourly_rate |-> Null]),
     [op |-> "delete_hall", hall |-> h]}

\* A hall that a request may create, and a seat in it.
NewHall ==
    {[op |-> "create_hall", data |-> [is_active |-> TRUE, hourly_rate |-> 1]],
     [op |-> "create_seats", hall |-> r1, at |-> Grid(1, 1)]}

MCInputs == SeatRequests \cup HallRequests \cup NewHall
=============================================================================
