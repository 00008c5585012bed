------------------------------ MODULE Listing ------------------------------
(***************************************************************************)
(* The paginated lists, GET /users/ and GET /bookings/, walked page by     *)
(* page by a client while other transactions commit rows.  A response      *)
(* counts the rows with one statement and reads the page with another, and *)
(* each sees what is committed when it runs.                               *)
(*                                                                         *)
(* Users come by id, which a sequence hands out when the row is inserted;  *)
(* bookings come by created_at, newest first, which is the time at which   *)
(* the transaction began, and rows of one time come in any order.  Rows    *)
(* become visible in the order of the commits, which is another one; a row *)
(* that never does stands for one that was rolled back.                    *)
(***************************************************************************)
EXTENDS Naturals, SequencesExt

CONSTANTS
    Rows,           \* rows of the list that may be inserted
    Sizes           \* page sizes that clients ask for

ASSUME ListingAssumption == IsFiniteSet(Rows) /\ Sizes \subseteq Nat \ {0}

VARIABLES
    list,           \* the list that is walked
    page_size,      \* the size of its pages
    key,            \* key[r]: the id or created_at of row r, 0 if it has none
    committed,      \* the rows that are visible
    client,         \* the statement that comes next
    page,           \* the page that is asked for
    total,          \* the count of its response
    seen,           \* history: how often the walk was shown row r,
    start,          \*   the rows visible when it began,
    news            \*   commits since: in the walk, and since the last count

vars == <<list, page_size, key, committed, client, page, total, seen, start, news>>

TypeOK ==
    /\ list \in {"users", "bookings"}
    /\ page_size \in Sizes
    /\ key \in [Rows -> Nat]
    /\ committed \subseteq {r \in Rows : key[r] > 0}
    /\ client \in {"count", "page", "done"}
    /\ page \in Nat \ {0}
    /\ total \in Nat
    /\ seen \in [Rows -> Nat]
    /\ start \subseteq committed
    /\ news \in [walk : BOOLEAN, response : BOOLEAN]

Init ==
    /\ list \in {"users", "bookings"}
    /\ page_size \in Sizes
    /\ key = [r \in Rows |-> 0]
    /\ committed = {}
    /\ client = "done" /\ page = 1 /\ total = 0
    /\ seen = [r \in Rows |-> 0]
    /\ start = {}
    /\ news = [walk |-> FALSE, response |-> FALSE]

-----------------------------------------------------------------------------
(***************************************************************************)
(* The transactions that insert                                            *)
(***************************************************************************)
LastKey == CHOOSE k \in {key[r] : r \in Rows} \cup {0} : \A r \in Rows : key[r] <= k

\* nextval for a user; now() for a booking, which does not go back.
Insert(r) ==
    /\ key[r] = 0
    /\ \/ key' = [key EXCEPT ![r] = LastKey + 1]
       \/ list = "bookings" /\ LastKey > 0 /\ key' = [key EXCEPT ![r] = LastKey]
    /\ UNCHANGED <<list, page_size, committed, client, page, total, seen, start, news>>

Commit(r) ==
    /\ key[r] > 0 /\ r \notin committed
    /\ committed' = committed \cup {r}
    /\ news' = [walk |-> TRUE, response |-> TRUE]
    /\ UNCHANGED <<list, page_size, key, client, page, total, seen, start>>

-----------------------------------------------------------------------------
(***************************************************************************)
(* The responses                                                           *)
(***************************************************************************)
Anyhow(a, b) ==                   \* mutant: no order_by
    TRUE

Before(a, b) == IF list = "users" THEN key[a] <= key[b] ELSE key[b] <= key[a]

\* The orders in which PostgreSQL may return the rows.
Orders ==
    {s \in SetToSeqs(committed) : \A i, j \in DOMAIN s : i < j => Before(s[i], s[j])}

OffsetOfNext ==                   \* mutant: pages counted from 0
    page * page_size

Offset == (page - 1) * page_size

\* OFFSET and LIMIT.
Items(s) == {s[i] : i \in DOMAIN s \cap (Offset + 1 .. Offset + page_size)}

FullPages(n) ==                   \* mutant: the last, partial page is not counted
    n \div page_size

\* PaginatedResponse.create
Pages(n) == (n + page_size - 1) \div page_size

-----------------------------------------------------------------------------
(***************************************************************************)
(* The walk                                                                *)
(***************************************************************************)
BeginAtZero ==                    \* mutant: the default page is 0
    /\ client = "done" /\ client' = "count" /\ page' = 0
    /\ seen' = [r \in Rows |-> 0]
    /\ start' = committed
    /\ news' = [walk |-> FALSE, response |-> FALSE]
    /\ UNCHANGED <<list, page_size, key, committed, total>>

\* The client asks for the first page.
Begin ==
    /\ client = "done" /\ client' = "count" /\ page' = 1
    /\ seen' = [r \in Rows |-> 0]
    /\ start' = committed
    /\ news' = [walk |-> FALSE, response |-> FALSE]
    /\ UNCHANGED <<list, page_size, key, committed, total>>

Count ==
    /\ client = "count" /\ client' = "page"
    /\ total' = Cardinality(committed)
    /\ news' = [news EXCEPT !.response = FALSE]
    /\ UNCHANGED <<list, page_size, key, committed, page, seen, start>>

\* The client asks for the next page if the response says that there is one.
ReadPage ==
    /\ client = "page"
    /\ \E s \in Orders :
           seen' = [r \in Rows |-> seen[r] + IF r \in Items(s) THEN 1 ELSE 0]
    /\ \/ page < Pages(total) /\ page' = page + 1 /\ client' = "count"
       \/ page >= Pages(total) /\ client' = "done" /\ UNCHANGED page
    /\ UNCHANGED <<list, page_size, key, committed, total, start, news>>

Next ==
    \/ \E r \in Rows : Insert(r) \/ Commit(r)
    \/ Begin \/ Count \/ ReadPage

Spec == Init /\ [][Next]_vars
=============================================================================
