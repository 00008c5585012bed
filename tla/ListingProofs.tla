--------------------------- MODULE ListingProofs ---------------------------
(***************************************************************************)
(* Theorems about the paginated lists, for any number of rows, every page  *)
(* size and every order of the commits.                                    *)
(***************************************************************************)
EXTENDS ListingProperties, FiniteSetTheorems, TLAPS

\* There is a greatest key, so that LastKey is one.
KeysBounded == \E k \in {key[r] : r \in Rows} \cup {0} : \A r \in Rows : key[r] <= k

(***************************************************************************)
(* The place of a row among the visible ones.  It tells, without the       *)
(* sequence that the query returns, which pages show the row.              *)
(***************************************************************************)
Rank(r) == Cardinality({q \in committed : Before(q, r)})

CountCurrent ==
    client = "page" /\ ~ news.response => total = Cardinality(committed)

\* What the news tell.
NewsTrue ==
    /\ news.response => news.walk
    /\ ~ news.walk => start = committed

\* So far a quiet walk showed the rows of the pages it has read.
QuietSoFar ==
    ~ news.walk /\ NoTies =>
        \A r \in Rows :
            seen[r] = IF r \in start /\ (client = "done" \/ Rank(r) <= Offset)
                      THEN 1 ELSE 0

\* A row that was there when the walk began has been shown or is still to come.
StillToCome ==
    NoTies =>
        \A r \in start :
            \/ seen[r] > 0
            \/ client # "done" /\ Rank(r) > Offset
            \/ client = "done" /\ news.response

ListingInv ==
    TypeOK /\ KeysBounded /\ CountCurrent /\ NewsTrue /\ QuietSoFar /\ StillToCome

-----------------------------------------------------------------------------
(***************************************************************************)
(* Keys.                                                                   *)
(***************************************************************************)
LEMMA LastKeyGreatest ==
    ASSUME TypeOK, KeysBounded
    PROVE  LastKey \in Nat /\ \A r \in Rows : key[r] <= LastKey
<1>1. LastKey \in {key[r] : r \in Rows} \cup {0} /\ \A r \in Rows : key[r] <= LastKey
  BY DEF KeysBounded, LastKey
<1>2. {key[r] : r \in Rows} \cup {0} \subseteq Nat
  BY DEF TypeOK
<1> QED BY <1>1, <1>2

LEMMA InsertedKey ==
    ASSUME TypeOK, KeysBounded, NEW r \in Rows, Insert(r)
    PROVE  /\ key' \in [Rows -> Nat] /\ KeysBounded'
           /\ \A q \in Rows : key[q] > 0 => key'[q] = key[q]
<1>1. LastKey \in Nat /\ (\A q \in Rows : key[q] <= LastKey) /\ key \in [Rows -> Nat]
  BY LastKeyGreatest DEF TypeOK
<1>2. PICK k \in {LastKey, LastKey + 1} : key' = [key EXCEPT ![r] = k] /\ k > 0
  BY <1>1 DEF Insert
<1>3. k \in Nat /\ k >= LastKey
  BY <1>1
<1>4. key' \in [Rows -> Nat] /\ key'[r] = k
      /\ \A q \in Rows : q # r => key'[q] = key[q]
  BY <1>1, <1>2, <1>3
<1>5. KeysBounded'
  <2>1. k \in {key'[q] : q \in Rows} \cup {0}
    BY <1>4
  <2>2. \A q \in Rows : key'[q] <= k
    BY <1>1, <1>3, <1>4
  <2> QED BY <2>1, <2>2 DEF KeysBounded
<1>6. \A q \in Rows : key[q] > 0 => key'[q] = key[q]
  BY <1>1, <1>4 DEF Insert
<1> QED BY <1>4, <1>5, <1>6

LEMMA CommittedFinite ==
    ASSUME TypeOK
    PROVE  /\ committed \subseteq Rows /\ IsFiniteSet(committed)
           /\ Cardinality(committed) \in Nat
BY ListingAssumption, FS_Subset, FS_CardinalityType DEF TypeOK

-----------------------------------------------------------------------------
(***************************************************************************)
(* Ranks and pages.                                                        *)
(***************************************************************************)
LEMMA BeforeTotal ==
    ASSUME TypeOK, NEW q \in Rows, NEW r \in Rows
    PROVE  /\ Before(r, r)
           /\ Before(q, r) /\ Before(r, q) => key[q] = key[r]
BY DEF TypeOK, Before

LEMMA RankBounded ==
    ASSUME TypeOK, NEW r \in Rows
    PROVE  Rank(r) \in Nat /\ Rank(r) <= Cardinality(committed)
<1>1. {q \in committed : Before(q, r)} \subseteq committed
  OBVIOUS
<1> QED BY <1>1, CommittedFinite, FS_Subset, FS_CardinalityType DEF Rank

\* A committed row is pushed to a later place by the rows that commit before it,
\* and to no earlier one by any.
LEMMA RankGrows ==
    ASSUME TypeOK, TypeOK', committed \subseteq committed', list' = list,
           \A q \in committed : key'[q] = key[q],
           NEW r \in committed
    PROVE  /\ Rank(r)' \in Nat /\ Rank(r) <= Rank(r)'
           /\ committed' = committed => Rank(r)' = Rank(r)
<1>1. /\ Rank(r) = Cardinality({q \in committed : Before(q, r)})
      /\ Rank(r)' = Cardinality({q \in committed' : Before(q, r)'})
  BY DEF Rank
<1>2. \A q \in committed : Before(q, r)' <=> Before(q, r)
  BY DEF Before
<1>3. {q \in committed : Before(q, r)} \subseteq {q \in committed' : Before(q, r)'}
  BY <1>2
<1>4. IsFiniteSet({q \in committed' : Before(q, r)'})
  <2>1. IsFiniteSet(committed')
    BY ListingAssumption, FS_Subset DEF TypeOK
  <2>2. {q \in committed' : Before(q, r)'} \subseteq committed'
    OBVIOUS
  <2> QED BY <2>1, <2>2, FS_Subset
<1>5. Rank(r)' \in Nat /\ Rank(r) <= Rank(r)'
  BY <1>1, <1>3, <1>4, FS_Subset, FS_CardinalityType
<1>6. committed' = committed => Rank(r)' = Rank(r)
  BY <1>1, <1>2
<1> QED BY <1>5, <1>6

\* Without ties there is one order, and every visible row stands in it at its rank.
LEMMA PlaceIsRank ==
    ASSUME TypeOK, NoTies, NEW s \in Orders
    PROVE  /\ DOMAIN s = 1 .. Cardinality(committed)
           /\ \A i \in DOMAIN s : s[i] \in committed /\ Rank(s[i]) = i
           /\ \A r \in committed : \E i \in DOMAIN s : s[i] = r
<1> DEFINE n == Cardinality(committed)
<1>1. n \in Nat /\ committed \subseteq Rows /\ IsFiniteSet(committed)
  BY CommittedFinite
<1>2. /\ s \in [1 .. n -> committed]
      /\ \A i, j \in 1 .. n : i # j => s[i] # s[j]
      /\ \A i, j \in 1 .. n : i < j => Before(s[i], s[j])
  BY DEF Orders, SetToSeqs
<1>3. \A r \in committed : \E i \in 1 .. n : s[i] = r
  <2>1. s \in Injection(1 .. n, committed)
    BY <1>2 DEF Injection, IsInjective
  <2>2. IsFiniteSet(1 .. n) /\ Cardinality(1 .. n) = n
    BY <1>1, FS_Interval
  <2>3. s \in Surjection(1 .. n, committed)
    BY <1>1, <2>1, <2>2, FS_Injection
  <2> QED BY <2>3 DEF Surjection
<1>4. ASSUME NEW i \in 1 .. n
      PROVE  Rank(s[i]) = i
  <2> DEFINE Ahead == {q \in committed : Before(q, s[i])}
             f == [j \in 1 .. i |-> s[j]]
  <2>1. 1 .. i \subseteq 1 .. n /\ i \in Nat
    BY <1>1
  <2>2. \A j \in 1 .. i : s[j] \in Ahead
    BY <1>1, <1>2, <2>1, BeforeTotal
  <2>3. ASSUME NEW q \in Ahead
        PROVE  \E j \in 1 .. i : s[j] = q
    <3>1. PICK j \in 1 .. n : s[j] = q
      BY <1>3
    <3>2. ASSUME j > i
          PROVE  FALSE
      <4>1. Before(s[i], s[j]) /\ Before(s[j], s[i]) /\ s[i] \in Rows /\ s[j] \in Rows
        BY <1>1, <1>2, <3>1, <3>2
      <4>2. key[s[i]] = key[s[j]]
        BY <4>1, BeforeTotal
      <4>3. s[i] = s[j]
        BY <1>2, <4>2 DEF NoTies
      <4> QED BY <1>2, <3>2, <4>3
    <3>3. j \in 1 .. i
      BY <1>1, <3>2
    <3> QED BY <3>1, <3>3
  <2>4. f \in Bijection(1 .. i, Ahead)
    <3>1. f \in [1 .. i -> Ahead]
      BY <2>2
    <3>2. \A j, k \in 1 .. i : f[j] = f[k] => j = k
      BY <1>2, <2>1
    <3>3. \A q \in Ahead : \E j \in 1 .. i : f[j] = q
      BY <2>3
    <3> HIDE DEF f, Ahead
    <3> QED BY <3>1, <3>2, <3>3 DEF Bijection, Injection, IsInjective, Surjection
  <2>5. IsFiniteSet(1 .. i) /\ Cardinality(1 .. i) = i
    BY <2>1, FS_Interval
  <2>6. Cardinality(Ahead) = i
    BY <2>4, <2>5, FS_Bijection DEF ExistsBijection
  <2> QED BY <2>6 DEF Rank
<1> QED BY <1>2, <1>3, <1>4

\* A page shows the rows whose rank lies in it.
LEMMA PageIsRanks ==
    ASSUME TypeOK, NoTies, NEW s \in Orders, NEW r \in Rows
    PROVE  r \in Items(s) <=>
               r \in committed /\ Offset < Rank(r) /\ Rank(r) <= Offset + page_size
<1>1. Offset \in Int /\ page_size \in Int
  <2>1. page \in Int /\ page_size \in Int
    BY ListingAssumption DEF TypeOK
  <2> QED BY <2>1 DEF Offset
<1>2. Rank(r) \in Nat /\ Cardinality(committed) \in Nat
  BY RankBounded, CommittedFinite
<1>3. DOMAIN s \subseteq Nat
  BY <1>2, PlaceIsRank
<1>4. ASSUME r \in Items(s)
      PROVE  r \in committed /\ Offset < Rank(r) /\ Rank(r) <= Offset + page_size
  <2>1. PICK i \in DOMAIN s \cap (Offset + 1 .. Offset + page_size) : s[i] = r
    BY <1>4 DEF Items
  <2>2. r \in committed /\ Rank(r) = i
    BY <2>1, PlaceIsRank
  <2> QED BY <1>1, <2>1, <2>2
<1>5. ASSUME r \in committed, Offset < Rank(r), Rank(r) <= Offset + page_size
      PROVE  r \in Items(s)
  <2>1. PICK i \in DOMAIN s : s[i] = r
    BY <1>5, PlaceIsRank
  <2>2. Rank(r) = i
    BY <2>1, PlaceIsRank
  <2>3. i \in Offset + 1 .. Offset + page_size
    BY <1>1, <1>2, <1>5, <2>2
  <2> QED BY <2>1, <2>3 DEF Items
<1> QED BY <1>4, <1>5

\* The pages of a count: the last one reaches the end and is not empty.
LEMMA PagesOfCount ==
    ASSUME TypeOK
    PROVE  /\ Pages(total) \in Nat
           /\ total <= Pages(total) * page_size
           /\ (Pages(total) - 1) * page_size < total
<1>1. page_size \in Nat \ {0} /\ total \in Nat
  BY ListingAssumption DEF TypeOK
<1>2. PICK v \in Nat : v = (total + page_size - 1) \div page_size
  BY <1>1
<1>3. v * page_size <= total + page_size - 1
      /\ total + page_size - 1 < v * page_size + page_size
  BY <1>1, <1>2
<1>4. (v - 1) * page_size = v * page_size - page_size /\ v * page_size \in Nat
  BY <1>1
<1>5. total <= v * page_size /\ (v - 1) * page_size < total
  BY <1>1, <1>3, <1>4
<1> QED BY <1>2, <1>5 DEF Pages

-----------------------------------------------------------------------------
(***************************************************************************)
(* The invariant.                                                          *)
(***************************************************************************)
LEMMA ListingInit == Init => ListingInv
<1> SUFFICES ASSUME Init
             PROVE  ListingInv
  OBVIOUS
<1>1. TypeOK
  BY DEF Init, TypeOK
<1>2. KeysBounded
  BY 0 \in {key[r] : r \in Rows} \cup {0} DEF Init, KeysBounded
<1>3. CountCurrent /\ NewsTrue /\ QuietSoFar /\ StillToCome
  BY DEF Init, CountCurrent, NewsTrue, QuietSoFar, StillToCome
<1> QED BY <1>1, <1>2, <1>3 DEF ListingInv

\* A row is inserted: nothing that is visible changes.
LEMMA InsertStep ==
    ASSUME ListingInv, NEW r \in Rows, Insert(r)
    PROVE  ListingInv'
<1>1. TypeOK /\ KeysBounded /\ CountCurrent /\ NewsTrue /\ QuietSoFar /\ StillToCome
  BY DEF ListingInv
<1>2. UNCHANGED <<list, page_size, committed, client, page, total, seen, start, news>>
  BY DEF Insert
<1>3. /\ key' \in [Rows -> Nat] /\ KeysBounded'
      /\ \A q \in Rows : key[q] > 0 => key'[q] = key[q]
  BY <1>1, InsertedKey
<1>4. committed \subseteq Rows /\ \A q \in committed : key'[q] = key[q]
  BY <1>1, <1>3 DEF TypeOK
<1>5. TypeOK'
  BY <1>1, <1>2, <1>3 DEF TypeOK
<1>6. (NoTies' <=> NoTies) /\ \A q \in start : Rank(q)' = Rank(q)
  <2>1. NoTies' <=> NoTies
    BY <1>2, <1>4 DEF NoTies
  <2>2. \A q \in committed : Rank(q)' = Rank(q)
    BY <1>1, <1>2, <1>4, <1>5, RankGrows
  <2> QED BY <1>1, <2>1, <2>2 DEF TypeOK
<1>7. CountCurrent' /\ NewsTrue'
  BY <1>1, <1>2 DEF CountCurrent, NewsTrue
<1>8. QuietSoFar' /\ StillToCome'
  BY <1>1, <1>2, <1>6 DEF QuietSoFar, StillToCome, Offset
<1> QED BY <1>3, <1>5, <1>7, <1>8 DEF ListingInv

\* A row becomes visible: the others keep their places or lose some to it.
LEMMA CommitStep ==
    ASSUME ListingInv, NEW r \in Rows, Commit(r)
    PROVE  ListingInv'
<1>1. TypeOK /\ KeysBounded /\ StillToCome
  BY DEF ListingInv
<1>2. /\ UNCHANGED <<list, page_size, key, client, page, total, seen, start>>
      /\ committed' = committed \cup {r}
      /\ news' = [walk |-> TRUE, response |-> TRUE] /\ key[r] > 0
  BY DEF Commit
<1>3. TypeOK'
  BY <1>1, <1>2 DEF TypeOK
<1>4. KeysBounded'
  BY <1>1, <1>2 DEF KeysBounded
<1>5. CountCurrent' /\ NewsTrue' /\ QuietSoFar'
  BY <1>2 DEF CountCurrent, NewsTrue, QuietSoFar
<1>6. StillToCome'
  <2> SUFFICES ASSUME NoTies', NEW q \in start
               PROVE  \/ seen[q] > 0
                      \/ client # "done" /\ Rank(q)' > Offset
                      \/ client = "done"
    BY <1>2 DEF StillToCome, Offset
  <2>1. NoTies
    BY <1>2 DEF NoTies
  <2>2. Rank(q)' \in Nat /\ Rank(q) <= Rank(q)' /\ Rank(q) \in Nat
    BY <1>1, <1>2, <1>3, RankGrows, RankBounded DEF TypeOK
  <2>3. Offset \in Int
    <3>1. page \in Int /\ page_size \in Int
      BY <1>1, ListingAssumption DEF TypeOK
    <3> QED BY <3>1 DEF Offset
  <2>4. seen[q] > 0 \/ (client # "done" /\ Rank(q) > Offset) \/ client = "done"
    BY <1>1, <2>1 DEF StillToCome
  <2> QED BY <2>2, <2>3, <2>4
<1> QED BY <1>3, <1>4, <1>5, <1>6 DEF ListingInv

\* The client asks for the first page, or a response counts the rows.
LEMMA BeginStep ==
    ASSUME ListingInv, Begin
    PROVE  ListingInv'
<1>1. TypeOK /\ KeysBounded
  BY DEF ListingInv
<1>2. /\ UNCHANGED <<list, page_size, key, committed, total>>
      /\ client' = "count" /\ page' = 1 /\ start' = committed
      /\ seen' = [r \in Rows |-> 0] /\ news' = [walk |-> FALSE, response |-> FALSE]
  BY DEF Begin
<1>3. TypeOK'
  BY <1>1, <1>2 DEF TypeOK
<1>4. KeysBounded' /\ CountCurrent' /\ NewsTrue'
  BY <1>1, <1>2 DEF KeysBounded, CountCurrent, NewsTrue
<1>5. Offset' = 0
  <2>1. page_size \in Int
    BY <1>1, ListingAssumption DEF TypeOK
  <2> QED BY <1>2, <2>1 DEF Offset
<1>6. ASSUME NEW r \in committed
      PROVE  Rank(r)' \in Nat /\ Rank(r)' > 0
  <2>1. {q \in committed : Before(q, r)} \subseteq committed
        /\ r \in {q \in committed : Before(q, r)}
    BY <1>1, BeforeTotal DEF TypeOK
  <2>2. Rank(r) \in Nat /\ Rank(r) # 0
    BY <1>1, <2>1, CommittedFinite, RankBounded, FS_Subset, FS_EmptySet DEF Rank, TypeOK
  <2>3. Rank(r)' = Rank(r)
    BY <1>2 DEF Rank, Before
  <2> QED BY <2>2, <2>3
<1>7. QuietSoFar' /\ StillToCome'
  <2>1. ASSUME NEW r \in committed
        PROVE  Rank(r)' > Offset' /\ ~ (Rank(r)' <= Offset')
    BY <1>5, <1>6
  <2> QED BY <1>2, <2>1 DEF QuietSoFar, StillToCome
<1> QED BY <1>3, <1>4, <1>7 DEF ListingInv

LEMMA CountStep ==
    ASSUME ListingInv, Count
    PROVE  ListingInv'
<1>1. TypeOK /\ KeysBounded /\ NewsTrue /\ QuietSoFar /\ StillToCome
  BY DEF ListingInv
<1>2. /\ UNCHANGED <<list, page_size, key, committed, page, seen, start>>
      /\ client = "count" /\ client' = "page" /\ total' = Cardinality(committed)
      /\ news' = [news EXCEPT !.response = FALSE]
  BY DEF Count
<1>3. TypeOK'
  BY <1>1, <1>2, CommittedFinite DEF TypeOK
<1>4. news'.walk = news.walk /\ news'.response = FALSE
  BY <1>1, <1>2 DEF TypeOK
<1>5. KeysBounded' /\ CountCurrent' /\ NewsTrue'
  BY <1>1, <1>2, <1>4 DEF KeysBounded, CountCurrent, NewsTrue
<1>6. (NoTies' <=> NoTies) /\ Offset' = Offset /\ \A r \in Rows : Rank(r)' = Rank(r)
  BY <1>2 DEF NoTies, Offset, Rank, Before
<1>7. QuietSoFar'
  BY <1>1, <1>2, <1>4, <1>6 DEF QuietSoFar
<1>8. StillToCome'
  <2>1. start \subseteq Rows
    BY <1>1 DEF TypeOK
  <2> QED BY <1>1, <1>2, <1>6, <2>1 DEF StillToCome
<1> QED BY <1>3, <1>5, <1>7, <1>8 DEF ListingInv

\* A response shows the rows of its page, and the next page begins where it ends.
LEMMA ReadPageStep ==
    ASSUME ListingInv, ReadPage
    PROVE  ListingInv'
<1>1. TypeOK /\ KeysBounded /\ CountCurrent /\ NewsTrue /\ QuietSoFar /\ StillToCome
  BY DEF ListingInv
<1>2. PICK s \in Orders :
          seen' = [r \in Rows |-> seen[r] + IF r \in Items(s) THEN 1 ELSE 0]
  BY DEF ReadPage
<1>3. /\ UNCHANGED <<list, page_size, key, committed, total, start, news>>
      /\ client = "page"
      /\ \/ page < Pages(total) /\ page' = page + 1 /\ client' = "count"
         \/ page >= Pages(total) /\ client' = "done" /\ UNCHANGED page
  BY DEF ReadPage
<1>4. TypeOK'
  <2>1. \A r \in Rows : seen[r] + (IF r \in Items(s) THEN 1 ELSE 0) \in Nat
    BY <1>1 DEF TypeOK
  <2>2. seen' \in [Rows -> Nat]
    BY <1>2, <2>1
  <2> QED BY <1>1, <1>3, <2>2 DEF TypeOK
<1>5. KeysBounded' /\ CountCurrent' /\ NewsTrue'
  BY <1>1, <1>3 DEF KeysBounded, CountCurrent, NewsTrue
<1>6. (NoTies' <=> NoTies) /\ \A r \in Rows : Rank(r)' = Rank(r)
  BY <1>3 DEF NoTies, Rank, Before
<1>7. /\ page \in Nat \ {0} /\ page_size \in Nat \ {0}
      /\ Offset \in Int /\ Offset' \in Int
      /\ client' = "count" => Offset' = Offset + page_size
      /\ \A r \in Rows : seen[r] \in Nat /\ Rank(r) \in Nat
  <2>1. page \in Nat \ {0} /\ page_size \in Nat \ {0}
    BY <1>1, ListingAssumption DEF TypeOK
  <2>2. page' \in Int /\ (page + 1 - 1) * page_size = (page - 1) * page_size + page_size
    BY <1>3, <2>1
  <2>3. Offset \in Int /\ Offset' \in Int
    BY <1>3, <2>1, <2>2 DEF Offset
  <2>4. ASSUME client' = "count"
        PROVE  Offset' = Offset + page_size
    <3>1. page' = page + 1 /\ page_size' = page_size
      BY <1>3, <2>4
    <3>2. Offset' = (page' - 1) * page_size'
      BY DEF Offset
    <3>3. page' - 1 = page + 1 - 1
      BY <2>1, <3>1
    <3> QED BY <2>2, <3>1, <3>2, <3>3 DEF Offset
  <2> QED BY <1>1, <2>1, <2>3, <2>4, RankBounded DEF TypeOK
\* The last page reaches the end of what was counted.
<1>8. ASSUME client' = "done", ~ news.response, NEW r \in Rows
      PROVE  Rank(r) <= Offset + page_size
  <2>1. total = Cardinality(committed) /\ total \in Nat
    BY <1>1, <1>3, <1>8 DEF CountCurrent, TypeOK
  <2>2. Pages(total) \in Nat /\ total <= Pages(total) * page_size /\ Pages(total) <= page
    BY <1>1, <1>3, <1>7, <1>8, PagesOfCount
  <2>3. Pages(total) * page_size <= page * page_size
    <3>1. PICK n \in Nat : page = Pages(total) + n
      <4>1. page - Pages(total) \in Nat /\ page = Pages(total) + (page - Pages(total))
        BY <1>7, <2>2
      <4> QED BY <4>1
    <3>2. PICK p \in Nat : p = Pages(total)
      BY <2>2
    <3>3. (p + n) * page_size = p * page_size + n * page_size /\ n * page_size \in Nat
          /\ p * page_size \in Nat
      BY <1>7
    <3> QED BY <3>1, <3>2, <3>3
  <2>4. Offset + page_size = page * page_size /\ page * page_size \in Int
    BY <1>7 DEF Offset
  <2>5. Pages(total) * page_size \in Int
    BY <1>7, <2>2
  <2>6. Rank(r) <= total
    BY <1>1, <2>1, RankBounded
  <2> QED BY <1>7, <2>1, <2>2, <2>3, <2>4, <2>5, <2>6
<1>9. QuietSoFar'
  <2> SUFFICES ASSUME ~ news.walk, NoTies, NEW r \in Rows
               PROVE  seen'[r] = IF r \in start /\ (client' = "done" \/ Rank(r) <= Offset')
                                 THEN 1 ELSE 0
    BY <1>3, <1>6 DEF QuietSoFar
  <2>1. start = committed /\ ~ news.response
    BY <1>1 DEF NewsTrue, TypeOK
  <2>2. seen[r] = IF r \in committed /\ Rank(r) <= Offset THEN 1 ELSE 0
    BY <1>1, <1>3, <2>1 DEF QuietSoFar
  <2>3. r \in Items(s) <=>
            r \in committed /\ Offset < Rank(r) /\ Rank(r) <= Offset + page_size
    BY <1>1, PageIsRanks
  <2>4. seen'[r] = IF r \in committed /\ Rank(r) <= Offset + page_size THEN 1 ELSE 0
    BY <1>2, <1>7, <2>2, <2>3
  <2>5. client' = "done" => Rank(r) <= Offset + page_size
    BY <1>8, <2>1
  <2> QED BY <1>3, <1>7, <2>1, <2>4, <2>5
<1>10. StillToCome'
  <2> SUFFICES ASSUME NoTies, NEW r \in start
               PROVE  \/ seen'[r] > 0
                      \/ client' # "done" /\ Rank(r) > Offset'
                      \/ client' = "done" /\ news.response
    <3>1. start \subseteq Rows
      BY <1>1 DEF TypeOK
    <3> QED BY <1>3, <1>6, <3>1 DEF StillToCome
  <2>1. r \in Rows /\ r \in committed
    BY <1>1 DEF TypeOK
  <2>2. seen[r] > 0 \/ Rank(r) > Offset
    BY <1>1, <1>3 DEF StillToCome
  <2>3. r \in Items(s) <=> Offset < Rank(r) /\ Rank(r) <= Offset + page_size
    BY <1>1, <2>1, PageIsRanks
  <2>4. /\ seen[r] > 0 => seen'[r] > 0
        /\ r \in Items(s) => seen'[r] > 0
    BY <1>2, <1>7, <2>1
  <2>5. seen'[r] > 0 \/ Rank(r) > Offset + page_size
    BY <1>7, <2>1, <2>2, <2>3, <2>4
  <2>6. client' = "done" /\ ~ news.response => Rank(r) <= Offset + page_size
    BY <1>8, <2>1
  <2> QED BY <1>3, <1>7, <2>1, <2>5, <2>6
<1> QED BY <1>4, <1>5, <1>9, <1>10 DEF ListingInv

LEMMA ListingStep == ListingInv /\ [Next]_vars => ListingInv'
<1> SUFFICES ASSUME ListingInv, [Next]_vars
             PROVE  ListingInv'
  OBVIOUS
<1>1. CASE \E r \in Rows : Insert(r) \/ Commit(r)
  BY <1>1, InsertStep, CommitStep
<1>2. CASE Begin
  BY <1>2, BeginStep
<1>3. CASE Count
  BY <1>3, CountStep
<1>4. CASE ReadPage
  BY <1>4, ReadPageStep
<1>5. CASE UNCHANGED vars
  BY <1>5 DEF vars, ListingInv, TypeOK, KeysBounded, CountCurrent, NewsTrue, QuietSoFar,
              StillToCome, NoTies, Rank, Before, Offset
<1> QED BY <1>1, <1>2, <1>3, <1>4, <1>5 DEF Next

LEMMA ListingAlways == Spec => []ListingInv
BY ListingInit, ListingStep, PTL DEF Spec

-----------------------------------------------------------------------------
(***************************************************************************)
(* What the invariant gives.                                               *)
(***************************************************************************)

\* The keys, the walk and its history stay in their types; a new key is greater than
\* every key before it, or as great.
THEOREM ListingTyped == Spec => []TypeOK
<1>1. ListingInv => TypeOK
  BY DEF ListingInv
<1> QED BY <1>1, ListingAlways, PTL

\* PaginatedResponse.create: no row is beyond the last page and no page is empty.
THEOREM PagesOfEveryCount == Spec => []PagesExact
<1>1. ListingInv => PagesExact
  BY PagesOfCount DEF ListingInv, PagesExact
<1> QED BY <1>1, ListingAlways, PTL

\* A walk during which nothing was committed shows every row exactly once.
THEOREM QuietWalkShowsAll == Spec => []QuietWalkExact
<1>1. ListingInv => QuietWalkExact
  BY DEF ListingInv, QuietSoFar, QuietWalkExact
<1> QED BY <1>1, ListingAlways, PTL

\* Whatever is committed during a walk, wherever in the order it lands, the walk shows
\* every row that was there when it began.
THEOREM WalkLosesNothing == Spec => []NothingMissed
<1>1. ListingInv => NothingMissed
  BY DEF ListingInv, StillToCome, NothingMissed
<1> QED BY <1>1, ListingAlways, PTL
=============================================================================
