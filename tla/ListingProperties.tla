------------------------- MODULE ListingProperties -------------------------
(***************************************************************************)
(* What a client that walks a list may rely on.                            *)
(***************************************************************************)
EXTENDS Listing

NoTies == \A r, q \in committed : key[r] = key[q] => r = q

\* The pages of a count hold all of it, and the last one is not empty.
PagesExact ==
    /\ Pages(total) * page_size >= total
    /\ Pages(total) > 0 => (Pages(total) - 1) * page_size < total

\* A walk during which nothing was committed shows every row once: the pages are
\* disjoint and cover the list.  Bookings made at one time are excepted, since nothing
\* orders them and two pages may disagree.
QuietWalkExact ==
    (client = "done" /\ ~ news.walk /\ NoTies) =>
        \A r \in Rows : seen[r] = IF r \in start THEN 1 ELSE 0

\* A walk loses no row that was there when it began, though rows are inserted before it
\* and behind it: users with a smaller id that commit late, newer bookings.  They only
\* ever push rows to later pages, and one page is read for the last count.
NothingMissed ==
    (client = "done" /\ ~ news.response /\ NoTies) => \A r \in start : seen[r] > 0
=============================================================================
