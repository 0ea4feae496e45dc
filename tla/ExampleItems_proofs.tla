------------------------- MODULE ExampleItems_proofs ------------------------
(***************************************************************************)
(* What a client makes of the example routes' pages, for any number of     *)
(* rows, readers and pages: the walk through the list misses no row it     *)
(* should see, a page and its meta agree and the public list is the newest.*)
(***************************************************************************)
EXTENDS ExampleItems, FiniteSetTheorems, TLAPS

----------------------------------------------------------------------------
(* Pages of a sorted table. *)

(* An order of some rows goes through each of them once, newest first.     *)
LEMMA OrdersSort ==
  ASSUME NEW rows, IsFiniteSet(rows), NEW s \in Orders(rows)
  PROVE  LET n == Cardinality(rows) IN
         /\ n \in Nat
         /\ s \in [1..n -> rows]
         /\ \A i, j \in 1..n : s[i] = s[j] => i = j
         /\ \A r \in rows : \E j \in 1..n : s[j] = r
         /\ \A i, j \in 1..n : i < j => row[s[i]].stamp >= row[s[j]].stamp
  <1>. DEFINE n == Cardinality(rows)
  <1>1. n \in Nat  BY FS_CardinalityType
  <1>2. /\ s \in [1..n -> rows]
        /\ \A i, j \in 1..n : i # j => s[i] # s[j]
        /\ \A i, j \in 1..n : i < j => row[s[i]].stamp >= row[s[j]].stamp
    BY DEF Orders, SetToSeqs
  <1>. HIDE DEF n
  <1>3. s \in Injection(1..n, rows)
    BY <1>2 DEF Injection, IsInjective
  <1>4. Cardinality(1..n) = n
    BY <1>1, FS_Interval
  <1>5. s \in Surjection(1..n, rows)
    BY <1>3, <1>4, FS_Injection DEF n
  <1>. QED  BY <1>1, <1>2, <1>5 DEF Surjection, n

(* The first k of it are k rows. *)
FirstOf(s, k) == {s[i] : i \in 1..k}

LEMMA FirstRows ==
  ASSUME NEW n \in Nat, NEW rows, NEW s \in [1..n -> rows],
         \A i, j \in 1..n : s[i] = s[j] => i = j,
         NEW k \in 0..n
  PROVE  Cardinality(FirstOf(s, k)) = k
  <1>. DEFINE T == {s[i] : i \in 1..k}
              f == [i \in 1..k |-> s[i]]
  <1>1. 1..k \subseteq 1..n  OBVIOUS
  <1>2. f \in [1..k -> T]  OBVIOUS
  <1>3. \A i, j \in 1..k : f[i] = f[j] => i = j  BY <1>1
  <1>4. \A t \in T : \E i \in 1..k : f[i] = t  OBVIOUS
  <1>5. f \in Bijection(1..k, T)
    <2>. HIDE DEF f, T
    <2>. QED  BY <1>2, <1>3, <1>4
              DEF Bijection, Injection, Surjection, IsInjective
  <1>6. ExistsBijection(1..k, T)
    BY <1>5 DEF ExistsBijection
  <1>. HIDE DEF T
  <1>7. Cardinality(T) = k
    BY <1>6, FS_CountingElements
  <1>. QED  BY <1>7 DEF T, FirstOf

(* The rows newer than r. *)
NewerIn(rows, r) == {x \in rows : row[x].stamp > row[r].stamp}

(* A row that shares its stamp with none is where the number of newer rows *)
(* puts it.                                                                *)
LEMMA Rank ==
  ASSUME NEW rows, IsFiniteSet(rows), NEW s \in Orders(rows),
         \A x \in rows : row[x].stamp \in Nat,
         NEW j \in 1..Cardinality(rows),
         \A x \in rows \ {s[j]} : row[x].stamp # row[s[j]].stamp
  PROVE  Cardinality(NewerIn(rows, s[j])) = j - 1
  <1>. DEFINE n == Cardinality(rows)
  <1>1. /\ n \in Nat
        /\ s \in [1..n -> rows]
        /\ \A i, k \in 1..n : s[i] = s[k] => i = k
        /\ \A r \in rows : \E i \in 1..n : s[i] = r
        /\ \A i, k \in 1..n : i < k => row[s[i]].stamp >= row[s[k]].stamp
    BY OrdersSort
  <1>2. j \in 1..n  OBVIOUS
  <1>. HIDE DEF n
  <1>3. NewerIn(rows, s[j]) = FirstOf(s, j - 1)
    <2>1. ASSUME NEW i \in 1..n, i < j
          PROVE  row[s[i]].stamp > row[s[j]].stamp
      <3>1. s[i] \in rows \ {s[j]} /\ s[j] \in rows  BY <1>1, <1>2, <2>1
      <3>2. row[s[i]].stamp >= row[s[j]].stamp  BY <1>1, <1>2, <2>1
      <3>. QED  BY <3>1, <3>2
    <2>2. ASSUME NEW i \in 1..n, ~(i < j)
          PROVE  ~(row[s[i]].stamp > row[s[j]].stamp)
      <3>1. i = j \/ j < i  BY <1>1, <1>2, <2>2
      <3>2. s[i] \in rows /\ s[j] \in rows  BY <1>1, <1>2
      <3>3. row[s[i]].stamp \in Nat /\ row[s[j]].stamp \in Nat  BY <3>2
      <3>4. row[s[j]].stamp >= row[s[i]].stamp  BY <1>1, <1>2, <3>1, <3>3
      <3>. QED  BY <3>3, <3>4
    <2>3. \A i \in 1..n : i \in 1..(j - 1) <=> i < j  BY <1>1, <1>2
    <2>4. 1..(j - 1) \subseteq 1..n  BY <1>1, <1>2
    <2>. QED  BY <1>1, <2>1, <2>2, <2>3, <2>4 DEF NewerIn, FirstOf
  <1>4. j - 1 \in 0..n  BY <1>1, <1>2
  <1>5. Cardinality(FirstOf(s, j - 1)) = j - 1
    BY <1>1, <1>4, FirstRows
  <1>. QED  BY <1>3, <1>5

(* The page of limit rows at offset. *)
PageFrom(s, n, offset, limit) ==
  {s[i] : i \in 1..n \intersect (offset + 1)..(offset + limit)}

LEMMA PageOf ==
  ASSUME NEW public_only \in BOOLEAN, NEW M, M = Matching(public_only),
         IsFiniteSet(M), NEW limit \in Nat, NEW offset \in Nat,
         NEW items \in List(public_only, limit, offset)
  PROVE  \E s \in Orders(M) :
           items = PageFrom(s, Cardinality(M), offset, limit)
  <1>1. PICK s \in Orders(M) :
          items = {s[i] : i \in DOMAIN s \intersect (offset + 1)..(offset + limit)}
    BY DEF List
  <1>2. DOMAIN s = 1..Cardinality(M)
    BY OrdersSort
  <1>. QED  BY <1>1, <1>2 DEF PageFrom

(* The rows of the table have stamps, and there are finitely many. *)
Stamped == IsFiniteSet(visible) /\ \A r \in visible : row[r].stamp \in Nat

Newer(r) == Cardinality(NewerIn(visible, r))

(* A page of the admin list: whichever way tied rows are put, a row that is*)
(* not on it, and shares its stamp with none, has too few rows before it or*)
(* too many.                                                               *)
LEMMA AdminPage ==
  ASSUME Stamped, NEW limit \in Nat, NEW offset \in Nat,
         NEW items \in List(FALSE, limit, offset)
  PROVE  /\ items \subseteq visible
         /\ items # {} => offset < Cardinality(visible)
         /\ \A r \in visible \ items :
              Tied(r) \/ Newer(r) < offset \/ Newer(r) >= offset + limit
  <1>. DEFINE n == Cardinality(visible)
  <1>1. Matching(FALSE) = visible  BY DEF Matching
  <1>2. PICK s \in Orders(visible) :
          items = PageFrom(s, n, offset, limit)
    BY <1>1, PageOf DEF Stamped
  <1>3. /\ n \in Nat
        /\ s \in [1..n -> visible]
        /\ \A r \in visible : \E j \in 1..n : s[j] = r
    BY OrdersSort DEF Stamped
  <1>4. ASSUME NEW r \in visible \ items, ~Tied(r)
        PROVE  Newer(r) < offset \/ Newer(r) >= offset + limit
    <2>1. PICK j \in 1..n : s[j] = r  BY <1>3
    <2>2. j \notin (offset + 1)..(offset + limit)
      BY <1>2, <1>4, <2>1 DEF PageFrom
    <2>3. Newer(r) = j - 1
      <3>1. \A x \in visible \ {s[j]} : row[x].stamp # row[s[j]].stamp
        BY <1>4, <2>1 DEF Tied
      <3>. QED  BY <2>1, <3>1, Rank DEF Stamped, Newer
    <2>. HIDE DEF n
    <2>. QED  BY <1>3, <2>2, <2>3
  <1>. HIDE DEF n
  <1>5. items \subseteq visible  BY <1>2, <1>3 DEF PageFrom
  <1>6. ASSUME items # {} PROVE offset < n
    BY <1>2, <1>3, <1>6 DEF PageFrom
  <1>. QED  BY <1>4, <1>5, <1>6 DEF n

(* The public list: what it leaves out is no newer than what it shows, and *)
(* is left out only because it is full.                                    *)
LEMMA PublicPage ==
  ASSUME Stamped, NEW limit \in Nat, NEW items \in List(TRUE, limit, 0)
  PROVE  /\ items \subseteq Matching(TRUE)
         /\ \A r \in Matching(TRUE) \ items :
              /\ Cardinality(items) = limit
              /\ \A i \in items : row[i].stamp >= row[r].stamp
  <1>. DEFINE M == Matching(TRUE)
              n == Cardinality(M)
  <1>1. IsFiniteSet(M)
    <2>1. M \in SUBSET visible  BY DEF Matching
    <2>. QED  BY <2>1, FS_Subset DEF Stamped
  <1>2. PICK s \in Orders(M) :
          items = PageFrom(s, n, 0, limit)
    <2>1. M = Matching(TRUE) /\ 0 \in Nat /\ TRUE \in BOOLEAN  OBVIOUS
    <2>. HIDE DEF M
    <2>. QED  BY <1>1, <2>1, PageOf
  <1>3. /\ n \in Nat
        /\ s \in [1..n -> M]
        /\ \A i, j \in 1..n : s[i] = s[j] => i = j
        /\ \A r \in M : \E j \in 1..n : s[j] = r
        /\ \A i, j \in 1..n : i < j => row[s[i]].stamp >= row[s[j]].stamp
    BY <1>1, OrdersSort
  <1>. HIDE DEF M, n
  <1>4. ASSUME NEW r \in M \ items
        PROVE  /\ Cardinality(items) = limit
               /\ \A i \in items : row[i].stamp >= row[r].stamp
    <2>1. PICK j \in 1..n : s[j] = r  BY <1>3
    <2>2. limit < j  BY <1>2, <1>3, <1>4, <2>1 DEF PageFrom
    <2>3. items = FirstOf(s, limit)
      <3>1. 1..n \intersect (0 + 1)..(0 + limit) = 1..limit
        BY <1>3, <2>2
      <3>. QED  BY <1>2, <3>1 DEF FirstOf, PageFrom
    <2>4. Cardinality(items) = limit
      <3>1. limit \in 0..n  BY <1>3, <2>2
      <3>. QED  BY <1>3, <2>3, <3>1, FirstRows
    <2>5. \A i \in 1..limit : row[s[i]].stamp >= row[r].stamp
      BY <1>3, <2>1, <2>2
    <2>. QED  BY <2>3, <2>4, <2>5 DEF FirstOf
  <1>5. items \subseteq M  BY <1>2, <1>3 DEF PageFrom
  <1>. QED  BY <1>4, <1>5 DEF M

----------------------------------------------------------------------------
(* Arithmetic of the pages. *)

LEMMA PageCountBounds ==
  ASSUME NEW count \in Nat, NEW take \in Nat \ {0}, NEW page \in Nat \ {0}
  PROVE  /\ HasNextPage(page, count, take) => page * take < count
         /\ ~HasNextPage(page, count, take) => count <= page * take
  <1>. DEFINE a == count + take - 1
              q == a \div take
  <1>1. a \in Nat /\ q \in Nat /\ q * take <= a /\ a < (q + 1) * take
    OBVIOUS
  <1>. HIDE DEF q
  <1>2. CASE count = 0
    <2>1. ~HasNextPage(page, count, take)
      BY <1>2 DEF HasNextPage, PageCount
    <2>2. page * take \in Nat  OBVIOUS
    <2>. QED  BY <1>2, <2>1, <2>2
  <1>3. CASE count # 0
    <2>1. HasNextPage(page, count, take) <=> page < q
      BY <1>3 DEF HasNextPage, PageCount, q
    <2>2. ASSUME page < q PROVE page * take < count
      <3>1. (page + 1) * take <= q * take  BY <1>1, <2>2
      <3>2. (page + 1) * take = page * take + take  OBVIOUS
      <3>3. page * take \in Nat /\ q * take \in Nat  BY <1>1
      <3>. QED  BY <1>1, <3>1, <3>2, <3>3
    <2>3. ASSUME ~(page < q) PROVE count <= page * take
      <3>1. (q + 1) * take <= (page + 1) * take  BY <1>1, <2>3
      <3>2. (page + 1) * take = page * take + take  OBVIOUS
      <3>3. page * take \in Nat /\ (q + 1) * take \in Nat  BY <1>1
      <3>. QED  BY <1>1, <3>1, <3>2, <3>3
    <2>. QED  BY <2>1, <2>2, <2>3
  <1>. QED  BY <1>2, <1>3

LEMMA WrapIsInt == \A n \in Int : Wrap(n) \in Int
  <1>. SUFFICES ASSUME NEW n \in Int PROVE Wrap(n) \in Int  OBVIOUS
  <1>. DEFINE m == 2 * (IntMax + 1)
              k == n + IntMax + 1
  <1>1. m \in Nat \ {0} /\ k \in Int
    BY BoundsAssumption DEF BoundsAssumption
  <1>2. Wrap(n) = (k % m) - (IntMax + 1)  BY DEF Wrap
  <1>. HIDE DEF m, k
  <1>3. k % m \in Int  BY <1>1
  <1>. QED  BY <1>2, <1>3, BoundsAssumption DEF BoundsAssumption

(* Below i64::MAX nothing wraps. *)
LEMMA OffsetFits ==
  ASSUME NEW page \in Nat \ {0}, NEW take \in Nat,
         (page - 1) * take <= IntMax
  PROVE  Offset(page, take) = (page - 1) * take /\ (page - 1) * take \in Nat
  <1>. DEFINE n == (page - 1) * take
              m == IntMax + 1
  <1>1. n \in Nat /\ n <= IntMax
    <2>1. page - 1 \in Nat  OBVIOUS
    <2>. QED  BY <2>1
  <1>2. m \in Nat \ {0}
    BY BoundsAssumption DEF BoundsAssumption
  <1>3. n + m < 2 * m /\ n + m \in Nat  BY <1>1, <1>2, BoundsAssumption
  <1>. HIDE DEF n, m
  <1>4. (n + m) % (2 * m) = n + m
    BY <1>1, <1>2, <1>3
  <1>5. Wrap(n) = n
    <2>1. Wrap(n) = ((n + m) % (2 * m)) - m
      <3>1. n + IntMax + 1 = n + m
        BY <1>1, BoundsAssumption DEF m, BoundsAssumption
      <3>. QED  BY <3>1 DEF Wrap, m
    <2>. QED  BY <1>1, <1>2, <1>4, <2>1
  <1>. QED  BY <1>1, <1>5 DEF Offset, n

----------------------------------------------------------------------------
(* The inductive invariant. *)

(* A committed row is in the table for good, as it was inserted. *)
TableFits ==
  /\ now \in 0..MaxTime
  /\ post \in [Rows -> PostStates]
  /\ row \in [Rows -> [stamp : 0..MaxTime, is_public : BOOLEAN]]
  /\ visible \subseteq Rows
  /\ \A r \in visible : post[r] # "none"

(* Where a row the walk has still to show stands: behind k newer ones. *)
Ahead(r, k) == Tied(r) \/ Newer(r) >= k

Skipped(w) == (w.page - 1) * w.take

Through(w) == w.page * w.take

(* Before its page is read, and while it may have to be read again, what a *)
(* walk has not shown is on this page or a later one.                      *)
ListFits(w) ==
  w.stage \in {"listing", "counting"} /\ w.fromStart
    => /\ Skipped(w) <= IntMax
       /\ \A r \in w.due \ w.seen : Ahead(r, Skipped(w))

PageFits(w) ==
  w.stage = "counting"
    => /\ w.fromStart
            => \A r \in w.due \ (w.seen \union w.items) : Ahead(r, Through(w))
       /\ w.items # {} /\ Skipped(w) <= IntMax
            => Skipped(w) < Cardinality(visible)

AnswerFits(w) ==
  w.stage = "answered"
    => /\ Through(w) < w.count
       /\ w.fromStart => \A r \in w.due \ w.seen : Ahead(r, Through(w))

DoneFits(w) ==
  w.stage = "done" /\ w.fromStart => \A r \in w.due \ w.seen : Tied(r)

MetaFits(w) ==
  w.stage \in {"answered", "done"} /\ w.items # {} /\ Skipped(w) <= IntMax
    => Skipped(w) < w.count

ShownFits(w) ==
  w.stage = "shown" =>
    /\ \A r \in w.items : row[r].is_public
    /\ \A r \in w.due \ w.items :
         row[r].is_public =>
           /\ Cardinality(w.items) = PublicLimit
           /\ \A i \in w.items : row[i].stamp >= row[r].stamp

GoodWalks ==
  {w \in Walks :
     /\ w.items \subseteq visible
     /\ w.due \subseteq visible
     /\ ListFits(w)
     /\ PageFits(w)
     /\ AnswerFits(w)
     /\ DoneFits(w)
     /\ MetaFits(w)
     /\ ShownFits(w)}

Inv == TableFits /\ req \in [Readers -> GoodWalks]

----------------------------------------------------------------------------
(* The table only grows. *)

LEMMA TableIsStamped ==
  ASSUME TableFits
  PROVE  Stamped /\ Cardinality(visible) \in 0..Cardinality(Rows)
  <1>1. IsFiniteSet(visible) /\ Cardinality(visible) <= Cardinality(Rows)
    BY RowsAssumption, FS_Subset DEF TableFits, RowsAssumption
  <1>2. Cardinality(visible) \in Nat /\ Cardinality(Rows) \in Nat
    BY <1>1, RowsAssumption, FS_CardinalityType DEF RowsAssumption
  <1>3. \A r \in visible : row[r].stamp \in Nat
    BY BoundsAssumption DEF TableFits, BoundsAssumption
  <1>. QED  BY <1>1, <1>2, <1>3 DEF Stamped

Grown ==
  /\ visible \subseteq visible'
  /\ \A r \in visible : row'[r] = row[r]

LEMMA TableGrows ==
  ASSUME TableFits, [Next]_vars
  PROVE  TableFits' /\ Grown
  <1>. USE DEF TableFits, Grown, PostStates
  <1>1. ASSUME UNCHANGED table PROVE TableFits' /\ Grown
    BY <1>1 DEF table
  <1>2. ASSUME NEW r \in Rows, NameBlank(r) \/ Created(r) \/ CreateFails(r)
        PROVE  TableFits' /\ Grown
    BY <1>2 DEF NameBlank, Created, CreateFails
  <1>3. ASSUME NEW r \in Rows, Commit(r) PROVE TableFits' /\ Grown
    BY <1>3 DEF Commit
  <1>4. ASSUME NEW r \in Rows, Insert(r) PROVE TableFits' /\ Grown
    <2>1. r \notin visible  BY <1>4 DEF Insert
    <2>2. PICK is_public \in BOOLEAN :
            row' = [row EXCEPT ![r] = [stamp |-> now, is_public |-> is_public]]
      BY <1>4 DEF Insert
    <2>3. row' \in [Rows -> [stamp : 0..MaxTime, is_public : BOOLEAN]]
      BY <2>2
    <2>. QED  BY <1>4, <2>1, <2>2, <2>3 DEF Insert
  <1>5. ASSUME Tick PROVE TableFits' /\ Grown
    BY <1>5, BoundsAssumption DEF Tick, BoundsAssumption
  <1>6. ASSUME NEW c \in Readers,
               AskPublic(c) \/ ListPublic(c) \/ BeginWalk(c) \/ ListPage(c)
                 \/ CountRows(c) \/ CountFails(c) \/ NextPage(c) \/ Leave(c)
        PROVE  UNCHANGED table
    BY <1>6 DEF AskPublic, ListPublic, BeginWalk, ListPage, CountRows,
                CountFails, NextPage, Leave
  <1>7. CASE UNCHANGED vars  BY <1>1, <1>7 DEF vars
  <1>. QED  BY <1>1, <1>2, <1>3, <1>4, <1>5, <1>6, <1>7 DEF Next

(* A row's place moves back only, and a tie stays one. *)
LEMMA AheadStays ==
  ASSUME TableFits, TableFits', Grown, NEW r \in visible, NEW k \in Int,
         Ahead(r, k)
  PROVE  Ahead(r, k)' /\ (Tied(r) => Tied(r)')
  <1>1. Tied(r) => Tied(r)'  BY DEF Tied, Grown
  <1>2. ASSUME Newer(r) >= k PROVE Newer(r)' >= k
    <2>1. IsFiniteSet(visible')
      BY TableIsStamped, RowsAssumption, FS_Subset DEF TableFits, RowsAssumption
    <2>2. NewerIn(visible, r) \subseteq NewerIn(visible, r)'
      BY DEF NewerIn, Grown
    <2>3. NewerIn(visible, r)' \in SUBSET visible'  BY DEF NewerIn
    <2>4. IsFiniteSet(NewerIn(visible, r)')  BY <2>1, <2>3, FS_Subset
    <2>5. /\ IsFiniteSet(NewerIn(visible, r))
          /\ Cardinality(NewerIn(visible, r))
               <= Cardinality(NewerIn(visible, r)')
      BY <2>2, <2>4, FS_Subset
    <2>6. /\ Cardinality(NewerIn(visible, r)) \in Nat
          /\ Cardinality(NewerIn(visible, r)') \in Nat
      BY <2>4, <2>5, FS_CardinalityType
    <2>. QED  BY <1>2, <2>5, <2>6 DEF Newer
  <1>. QED  BY <1>1, <1>2 DEF Ahead

LEMMA WalksStayGood ==
  ASSUME TableFits, TableFits', Grown
  PROVE  GoodWalks \subseteq GoodWalks'
  <1>. SUFFICES ASSUME NEW w \in GoodWalks PROVE w \in GoodWalks'
    OBVIOUS
  <1>1. /\ w \in Walks
        /\ w.items \subseteq visible
        /\ w.due \subseteq visible
    BY DEF GoodWalks
  <1>2. Skipped(w) \in Int /\ Through(w) \in Int
    BY <1>1 DEF Walks, Skipped, Through
  <1>3. w.items \subseteq visible' /\ w.due \subseteq visible'
    BY <1>1 DEF Grown
  <1>4. /\ \A r \in visible : Ahead(r, Skipped(w)) => Ahead(r, Skipped(w))'
        /\ \A r \in visible : Ahead(r, Through(w)) => Ahead(r, Through(w))'
        /\ \A r \in visible : Tied(r) => Tied(r)'
    <2>1. \A r \in visible : Tied(r) => Tied(r)'
      BY DEF Tied, Grown
    <2>2. ASSUME NEW r \in visible, Ahead(r, Skipped(w))
          PROVE  Ahead(r, Skipped(w))'
      BY <1>2, <2>2, AheadStays
    <2>3. ASSUME NEW r \in visible, Ahead(r, Through(w))
          PROVE  Ahead(r, Through(w))'
      BY <1>2, <2>3, AheadStays
    <2>. QED  BY <2>1, <2>2, <2>3
  <1>5. ListFits(w)'
    BY <1>1, <1>4 DEF GoodWalks, ListFits, Skipped
  <1>6. PageFits(w)'
    <2>1. Cardinality(visible) <= Cardinality(visible')
      BY TableIsStamped, RowsAssumption, FS_Subset
         DEF TableFits, RowsAssumption, Grown
    <2>2. Cardinality(visible) \in Nat /\ Cardinality(visible') \in Nat
      BY RowsAssumption, FS_Subset, FS_CardinalityType
         DEF TableFits, RowsAssumption
    <2>. QED  BY <1>1, <1>2, <1>4, <2>1, <2>2
              DEF GoodWalks, PageFits, Skipped, Through
  <1>7. AnswerFits(w)'
    BY <1>1, <1>4 DEF GoodWalks, AnswerFits, Through
  <1>8. DoneFits(w)'
    BY <1>1, <1>4 DEF GoodWalks, DoneFits
  <1>9. MetaFits(w)'
    BY DEF GoodWalks, MetaFits, Skipped
  <1>10. ShownFits(w)'
    BY <1>1 DEF GoodWalks, ShownFits, Grown
  <1>. QED  BY <1>1, <1>3, <1>5, <1>6, <1>7, <1>8, <1>9, <1>10 DEF GoodWalks

----------------------------------------------------------------------------
(* Every step of a walk. *)

LEMMA IdleIsGood == TableFits => Idle \in GoodWalks
  <1>. SUFFICES ASSUME TableFits PROVE Idle \in GoodWalks  OBVIOUS
  <1>1. Idle.stage = "idle" /\ Idle.items = {} /\ Idle.due = {}
    BY DEF Idle
  <1>2. Idle \in Walks
    <2>1. Cardinality(Rows) \in Nat
      BY RowsAssumption, FS_CardinalityType DEF RowsAssumption
    <2>. QED  BY <2>1, BoundsAssumption
              DEF Idle, Walks, Stages, BoundsAssumption
  <1>. QED  BY <1>1, <1>2 DEF GoodWalks, ListFits, PageFits, AnswerFits,
               DoneFits, MetaFits, ShownFits

LEMMA PublicBegins ==
  ASSUME TableFits
  PROVE  [[Idle EXCEPT !.stage = "public"] EXCEPT !.due = visible] \in GoodWalks
  <1>. DEFINE i == [Idle EXCEPT !.stage = "public"]
              w == [i EXCEPT !.due = visible]
  <1>1. i \in Walks /\ i.stage = "public" /\ i.items = {}
    BY IdleIsGood DEF Idle, GoodWalks, Walks, Stages
  <1>. HIDE DEF i
  <1>2. w \in Walks /\ w.stage = "public" /\ w.items = {} /\ w.due = visible
    BY <1>1 DEF Walks, TableFits
  <1>. HIDE DEF w
  <1>3. w \in GoodWalks
    BY <1>2 DEF GoodWalks, ListFits, PageFits, AnswerFits, DoneFits, MetaFits,
                ShownFits
  <1>. QED  BY <1>3 DEF w, i

LEMMA HoldingFields ==
  ASSUME NEW w \in Walks, NEW stage \in Stages, NEW items \in SUBSET Rows
  PROVE  LET v == Holding(w, stage, items) IN
         /\ v \in Walks
         /\ v.stage = stage /\ v.items = items
         /\ v.fromStart = w.fromStart /\ v.page = w.page /\ v.take = w.take
         /\ v.count = w.count /\ v.seen = w.seen /\ v.due = w.due
  BY DEF Holding, Walks

LEMMA PublicIsShown ==
  ASSUME TableFits, NEW w \in GoodWalks, w.stage = "public",
         NEW items \in List(TRUE, PublicLimit, 0)
  PROVE  Holding(w, "shown", items) \in GoodWalks
  <1>. DEFINE v == Holding(w, "shown", items)
  <1>1. /\ items \subseteq Matching(TRUE)
        /\ \A r \in Matching(TRUE) \ items :
             /\ Cardinality(items) = PublicLimit
             /\ \A i \in items : row[i].stamp >= row[r].stamp
    BY TableIsStamped, PublicPage, BoundsAssumption DEF BoundsAssumption
  <1>2. /\ items \subseteq visible
        /\ \A r \in items : row[r].is_public
        /\ \A r \in visible : row[r].is_public => r \in Matching(TRUE)
    BY <1>1 DEF Matching
  <1>3. w \in Walks /\ w.due \subseteq visible  BY DEF GoodWalks
  <1>4. v \in Walks /\ v.stage = "shown" /\ v.items = items /\ v.due = w.due
    BY <1>2, <1>3, HoldingFields DEF Stages, TableFits
  <1>. HIDE DEF v
  <1>5. ShownFits(v)
    BY <1>1, <1>2, <1>3, <1>4 DEF ShownFits
  <1>6. v \in GoodWalks
    BY <1>2, <1>3, <1>4, <1>5
       DEF GoodWalks, ListFits, PageFits, AnswerFits, DoneFits, MetaFits
  <1>. QED  BY <1>6 DEF v

LEMMA WalkBegins ==
  ASSUME TableFits, NEW page \in 1..IntMax, NEW take \in 1..MaxTake
  PROVE  [stage |-> "listing", fromStart |-> page = 1,
          page |-> page, take |-> take, items |-> {}, count |-> 0,
          seen |-> {}, due |-> visible] \in GoodWalks
  <1>. DEFINE w == [stage |-> "listing", fromStart |-> page = 1,
                    page |-> page, take |-> take, items |-> {}, count |-> 0,
                    seen |-> {}, due |-> visible]
  <1>1. /\ w.stage = "listing" /\ (w.fromStart <=> page = 1) /\ w.page = page
        /\ w.take = take /\ w.items = {} /\ w.seen = {} /\ w.due = visible
    OBVIOUS
  <1>2. w \in Walks
    <2>1. 0 \in 0..Cardinality(Rows)
      BY RowsAssumption, FS_CardinalityType DEF RowsAssumption
    <2>2. (page = 1) \in BOOLEAN  OBVIOUS
    <2>. QED  BY <2>1, <2>2 DEF Walks, Stages, TableFits
  <1>. HIDE DEF w
  <1>3. ListFits(w)
    <2>1. page = 1 => Skipped(w) = 0
      <3>1. page = 1 => (page - 1) * take = 0
        BY BoundsAssumption DEF BoundsAssumption
      <3>. QED  BY <1>1, <3>1 DEF Skipped
    <2>2. \A r \in visible : Newer(r) >= 0
      <3>1. ASSUME NEW r \in visible PROVE Newer(r) \in Nat
        <4>1. NewerIn(visible, r) \in SUBSET visible  BY DEF NewerIn
        <4>2. IsFiniteSet(visible)  BY TableIsStamped DEF Stamped
        <4>. QED  BY <4>1, <4>2, FS_Subset, FS_CardinalityType DEF Newer
      <3>. QED  BY <3>1
    <2>. QED  BY <1>1, <2>1, <2>2, BoundsAssumption
              DEF ListFits, Ahead, BoundsAssumption
  <1>4. w \in GoodWalks
    BY <1>1, <1>2, <1>3
       DEF GoodWalks, PageFits, AnswerFits, DoneFits, MetaFits, ShownFits
  <1>. QED  BY <1>4 DEF w

LEMMA PageIsListed ==
  ASSUME TableFits, NEW w \in GoodWalks, w.stage = "listing",
         Offset(w.page, w.take) >= 0,
         NEW items \in List(FALSE, w.take, Offset(w.page, w.take))
  PROVE  Holding(w, "counting", items) \in GoodWalks
  <1>. DEFINE v == Holding(w, "counting", items)
              offset == Offset(w.page, w.take)
  <1>1. w \in Walks /\ w.due \subseteq visible /\ ListFits(w)
    BY DEF GoodWalks
  <1>2. w.page \in Nat \ {0} /\ w.take \in Nat \ {0}
    BY <1>1, BoundsAssumption DEF Walks, BoundsAssumption
  <1>3. /\ Skipped(w) \in Nat /\ Through(w) \in Nat
        /\ Through(w) = Skipped(w) + w.take
    <2>1. (w.page - 1) * w.take + w.take = w.page * w.take  BY <1>2
    <2>2. (w.page - 1) * w.take \in Nat /\ w.page * w.take \in Nat
      BY <1>2
    <2>. QED  BY <2>1, <2>2 DEF Skipped, Through
  <1>4. Skipped(w) <= IntMax => offset = Skipped(w)
    BY <1>2, OffsetFits DEF Skipped
  <1>5. offset \in Nat
    <2>1. (w.page - 1) * w.take \in Int  BY <1>2
    <2>2. offset \in Int  BY <2>1, WrapIsInt DEF Offset
    <2>. QED  BY <2>2
  <1>. HIDE DEF offset
  <1>6. /\ items \subseteq visible
        /\ items # {} => offset < Cardinality(visible)
        /\ \A r \in visible \ items :
             Tied(r) \/ Newer(r) < offset \/ Newer(r) >= offset + w.take
    BY <1>2, <1>5, TableIsStamped, AdminPage DEF offset
  <1>7. /\ v \in Walks /\ v.stage = "counting" /\ v.items = items
        /\ v.fromStart = w.fromStart /\ v.page = w.page /\ v.take = w.take
        /\ v.seen = w.seen /\ v.due = w.due
    BY <1>1, <1>6, HoldingFields DEF Stages, TableFits
  <1>. HIDE DEF v
  <1>8. Skipped(v) = Skipped(w) /\ Through(v) = Through(w)
    BY <1>7 DEF Skipped, Through
  <1>9. ListFits(v)
    BY <1>1, <1>7, <1>8 DEF ListFits
  <1>10. PageFits(v)
    <2>1. ASSUME w.fromStart, NEW r \in w.due \ (w.seen \union items)
          PROVE  Ahead(r, Through(w))
      <3>1. Skipped(w) <= IntMax /\ Ahead(r, Skipped(w))
        BY <1>1, <2>1 DEF ListFits
      <3>2. Tied(r) \/ Newer(r) < Skipped(w) \/ Newer(r) >= Through(w)
        BY <1>1, <1>3, <1>4, <1>6, <2>1, <3>1
      <3>3. Newer(r) \in Nat
        <4>1. NewerIn(visible, r) \in SUBSET visible  BY DEF NewerIn
        <4>2. IsFiniteSet(visible)  BY TableIsStamped DEF Stamped
        <4>. QED  BY <4>1, <4>2, FS_Subset, FS_CardinalityType DEF Newer
      <3>. QED  BY <1>3, <3>1, <3>2, <3>3 DEF Ahead
    <2>. QED  BY <1>4, <1>6, <1>7, <1>8, <2>1 DEF PageFits
  <1>11. v \in GoodWalks
    BY <1>1, <1>6, <1>7, <1>9, <1>10
       DEF GoodWalks, AnswerFits, DoneFits, MetaFits, ShownFits
  <1>. QED  BY <1>11 DEF v

LEMMA PageIsAnswered ==
  ASSUME TableFits, NEW w \in GoodWalks, w.stage = "counting"
  PROVE  Seen(Answered(w, Cardinality(visible))) \in GoodWalks
  <1>. DEFINE n == Cardinality(visible)
              v == Seen(Answered(w, n))
              more == HasNextPage(w.page, n, w.take)
  <1>1. /\ w \in Walks /\ w.items \subseteq visible /\ w.due \subseteq visible
        /\ ListFits(w) /\ PageFits(w)
    BY DEF GoodWalks
  <1>2. n \in 0..Cardinality(Rows) /\ n \in Nat
    BY TableIsStamped, FS_CardinalityType DEF Stamped
  <1>3. w.page \in Nat \ {0} /\ w.take \in Nat \ {0}
    BY <1>1, BoundsAssumption DEF Walks, BoundsAssumption
  <1>. HIDE DEF n
  <1>4. /\ more => Through(w) < n
        /\ ~more => n <= Through(w)
    BY <1>2, <1>3, PageCountBounds DEF Through
  <1>. HIDE DEF more
  <1>5. /\ v \in Walks
        /\ v.stage = IF more THEN "answered" ELSE "done"
        /\ v.items = w.items /\ v.fromStart = w.fromStart
        /\ v.page = w.page /\ v.take = w.take /\ v.count = n
        /\ v.seen = w.seen \union w.items /\ v.due = w.due
    <2>. DEFINE stage == IF more THEN "answered" ELSE "done"
                h == Holding(w, stage, w.items)
    <2>1. /\ h \in Walks /\ h.stage = stage /\ h.items = w.items
          /\ h.fromStart = w.fromStart /\ h.page = w.page /\ h.take = w.take
          /\ h.seen = w.seen /\ h.due = w.due
      <3>1. stage \in Stages /\ w.items \in SUBSET Rows
        BY <1>1 DEF Stages, Walks
      <3>. HIDE DEF stage
      <3>. QED  BY <1>1, <3>1, HoldingFields
    <2>2. v = Seen([h EXCEPT !.count = n])
      BY DEF Answered, more
    <2>. HIDE DEF h
    <2>. DEFINE g == [h EXCEPT !.count = n]
    <2>3. /\ g \in Walks /\ g.stage = h.stage /\ g.items = h.items
          /\ g.fromStart = h.fromStart /\ g.page = h.page /\ g.take = h.take
          /\ g.count = n /\ g.seen = h.seen /\ g.due = h.due
      BY <1>2, <2>1 DEF Walks
    <2>. HIDE DEF g
    <2>4. g.seen \union g.items \in SUBSET Rows
      BY <2>3 DEF Walks
    <2>5. /\ Seen(g) \in Walks /\ Seen(g).stage = g.stage
          /\ Seen(g).items = g.items /\ Seen(g).fromStart = g.fromStart
          /\ Seen(g).page = g.page /\ Seen(g).take = g.take
          /\ Seen(g).count = g.count /\ Seen(g).due = g.due
          /\ Seen(g).seen = g.seen \union g.items
      BY <2>3, <2>4 DEF Seen, Walks
    <2>6. v = Seen(g)  BY <2>2 DEF g
    <2>. HIDE DEF v, stage
    <2>. QED  BY <2>1, <2>3, <2>5, <2>6 DEF stage
  <1>. HIDE DEF v
  <1>6. Skipped(v) = Skipped(w) /\ Through(v) = Through(w)
    BY <1>5 DEF Skipped, Through
  <1>7. AnswerFits(v)
    BY <1>1, <1>4, <1>5, <1>6 DEF AnswerFits, PageFits
  <1>8. DoneFits(v)
    <2>. SUFFICES ASSUME ~more, w.fromStart,
                         NEW r \in w.due \ (w.seen \union w.items)
                  PROVE  Tied(r)
      BY <1>5 DEF DoneFits
    <2>1. Ahead(r, Through(w))  BY <1>1 DEF PageFits
    <2>2. Newer(r) < n
      <3>1. NewerIn(visible, r) \subseteq visible /\ IsFiniteSet(visible)
        BY TableIsStamped DEF NewerIn, Stamped
      <3>2. r \in visible /\ r \notin NewerIn(visible, r)
        <4>1. r \in visible  BY <1>1
        <4>2. row[r].stamp \in Nat  BY <4>1, TableIsStamped DEF Stamped
        <4>. QED  BY <4>1, <4>2 DEF NewerIn
      <3>3. /\ Newer(r) <= n
            /\ Newer(r) = n => NewerIn(visible, r) = visible
            /\ Newer(r) \in Nat
        BY <3>1, FS_Subset, FS_CardinalityType DEF Newer, n
      <3>. QED  BY <1>2, <3>2, <3>3
    <2>3. Through(w) \in Nat /\ Newer(r) \in Int
      <3>1. w.page * w.take \in Nat  BY <1>3
      <3>2. NewerIn(visible, r) \in SUBSET visible /\ IsFiniteSet(visible)
        BY TableIsStamped DEF NewerIn, Stamped
      <3>3. Newer(r) \in Nat
        BY <3>2, FS_Subset, FS_CardinalityType DEF Newer
      <3>. QED  BY <3>1, <3>3 DEF Through
    <2>. QED  BY <1>2, <1>4, <2>1, <2>2, <2>3 DEF Ahead
  <1>9. MetaFits(v)
    BY <1>1, <1>5, <1>6 DEF MetaFits, PageFits, n
  <1>10. v \in GoodWalks
    BY <1>1, <1>5, <1>7, <1>8, <1>9
       DEF GoodWalks, ListFits, PageFits, ShownFits
  <1>. QED  BY <1>10 DEF v, n

LEMMA PageIsAskedAgain ==
  ASSUME TableFits, NEW w \in GoodWalks, w.stage = "counting"
  PROVE  Holding(w, "listing", {}) \in GoodWalks
  <1>. DEFINE v == Holding(w, "listing", {})
  <1>1. w \in Walks /\ w.due \subseteq visible /\ ListFits(w)
    BY DEF GoodWalks
  <1>2. /\ v \in Walks /\ v.stage = "listing" /\ v.items = {}
        /\ v.fromStart = w.fromStart /\ v.page = w.page /\ v.take = w.take
        /\ v.seen = w.seen /\ v.due = w.due
    BY <1>1, HoldingFields DEF Stages
  <1>. HIDE DEF v
  <1>3. ListFits(v)
    BY <1>1, <1>2 DEF ListFits, Skipped
  <1>4. v \in GoodWalks
    BY <1>1, <1>2, <1>3
       DEF GoodWalks, PageFits, AnswerFits, DoneFits, MetaFits, ShownFits
  <1>. QED  BY <1>4 DEF v

LEMMA PageIsTurned ==
  ASSUME TableFits, NEW w \in GoodWalks, w.stage = "answered"
  PROVE  Holding(Turned(w), "listing", {}) \in GoodWalks
  <1>. DEFINE t == Turned(w)
              v == Holding(t, "listing", {})
  <1>1. w \in Walks /\ w.due \subseteq visible /\ AnswerFits(w)
    BY DEF GoodWalks
  <1>2. /\ w.page \in Nat \ {0} /\ w.take \in Nat \ {0} /\ w.count \in Nat
        /\ w.count <= IntMax /\ 0 \in 0..Cardinality(Rows)
    <2>1. Cardinality(Rows) \in Nat
      BY RowsAssumption, FS_CardinalityType DEF RowsAssumption
    <2>. QED  BY <1>1, <2>1, BoundsAssumption, RowsAssumption
              DEF Walks, BoundsAssumption, RowsAssumption
  <1>3. Through(w) \in Nat /\ w.page <= Through(w) /\ Through(w) < IntMax
    <2>1. w.page <= w.page * w.take /\ w.page * w.take \in Nat  BY <1>2
    <2>2. Through(w) < w.count  BY <1>1 DEF AnswerFits
    <2>. QED  BY <1>2, <2>1, <2>2, BoundsAssumption DEF Through, BoundsAssumption
  <1>4. w.page + 1 \in 1..IntMax
    BY <1>2, <1>3, BoundsAssumption DEF BoundsAssumption
  <1>5. /\ t \in Walks /\ t.page = w.page + 1 /\ t.take = w.take
        /\ t.fromStart = w.fromStart /\ t.seen = w.seen /\ t.due = w.due
    BY <1>1, <1>2, <1>4 DEF Turned, Walks
  <1>. HIDE DEF t
  <1>6. /\ v \in Walks /\ v.stage = "listing" /\ v.items = {}
        /\ v.fromStart = w.fromStart /\ v.page = w.page + 1 /\ v.take = w.take
        /\ v.seen = w.seen /\ v.due = w.due
    BY <1>5, HoldingFields DEF Stages
  <1>. HIDE DEF v
  <1>7. Skipped(v) = Through(w)
    <2>1. (w.page + 1) - 1 = w.page  BY <1>2
    <2>. QED  BY <1>6, <2>1 DEF Skipped, Through
  <1>8. ListFits(v)
    BY <1>1, <1>3, <1>6, <1>7, BoundsAssumption
       DEF ListFits, AnswerFits, BoundsAssumption
  <1>9. v \in GoodWalks
    BY <1>1, <1>6, <1>8
       DEF GoodWalks, PageFits, AnswerFits, DoneFits, MetaFits, ShownFits
  <1>. QED  BY <1>9 DEF v, t

----------------------------------------------------------------------------
(* The invariant holds. *)

LEMMA InitFits == Init => Inv
  <1>. SUFFICES ASSUME Init PROVE Inv  OBVIOUS
  <1>1. TableFits
    BY BoundsAssumption DEF Init, TableFits, PostStates, BoundsAssumption
  <1>. QED  BY <1>1, IdleIsGood DEF Init, Inv

LEMMA NextFits == Inv /\ [Next]_vars => Inv'
  <1>. SUFFICES ASSUME Inv, [Next]_vars PROVE Inv'  OBVIOUS
  <1>1. TableFits' /\ Grown  BY TableGrows DEF Inv
  <1>2. GoodWalks \subseteq GoodWalks'  BY <1>1, WalksStayGood DEF Inv
  <1>3. TableFits /\ req \in [Readers -> GoodWalks]  BY DEF Inv
  <1>4. ASSUME UNCHANGED req PROVE Inv'
    BY <1>1, <1>2, <1>3, <1>4 DEF Inv
  <1>5. ASSUME NEW r \in Rows,
               NameBlank(r) \/ Insert(r) \/ Commit(r) \/ Created(r)
                 \/ CreateFails(r)
        PROVE  Inv'
    BY <1>4, <1>5 DEF NameBlank, Insert, Commit, Created, CreateFails
  <1>6. ASSUME Tick PROVE Inv'  BY <1>4, <1>6 DEF Tick
  <1>7. CASE UNCHANGED vars  BY <1>4, <1>7 DEF vars
  <1>8. ASSUME NEW c \in Readers, NEW walk \in GoodWalks,
               req' = [req EXCEPT ![c] = walk]
        PROVE  Inv'
    BY <1>1, <1>2, <1>3, <1>8 DEF Inv
  <1>9. ASSUME NEW c \in Readers, AskPublic(c) PROVE Inv'
    BY <1>3, <1>8, <1>9, PublicBegins DEF AskPublic, Become
  <1>10. ASSUME NEW c \in Readers, ListPublic(c) PROVE Inv'
    <2>1. PICK items \in List(TRUE, PublicLimit, 0) :
            Become(c, Holding(req[c], "shown", items))
      BY <1>10 DEF ListPublic
    <2>2. req[c] \in GoodWalks /\ req[c].stage = "public"
      BY <1>3, <1>10 DEF ListPublic, At
    <2>3. Holding(req[c], "shown", items) \in GoodWalks
      BY <1>3, <2>2, PublicIsShown
    <2>. QED  BY <1>8, <2>1, <2>3 DEF Become
  <1>11. ASSUME NEW c \in Readers, BeginWalk(c) PROVE Inv'
    <2>1. PICK page \in -1..IntMax, take \in -1..(MaxTake + 1) :
            /\ BoundedNumber(page, 1, IntMax)
            /\ BoundedNumber(take, 1, MaxTake)
            /\ Become(c, [stage |-> "listing", fromStart |-> page = 1,
                     page |-> page, take |-> take, items |-> {}, count |-> 0,
                     seen |-> {}, due |-> visible])
      BY <1>11 DEF BeginWalk
    <2>2. page \in 1..IntMax /\ take \in 1..MaxTake
      BY <2>1, BoundsAssumption DEF BoundedNumber, BoundsAssumption
    <2>3. [stage |-> "listing", fromStart |-> page = 1,
           page |-> page, take |-> take, items |-> {}, count |-> 0,
           seen |-> {}, due |-> visible] \in GoodWalks
      BY <1>3, <2>2, WalkBegins
    <2>. QED  BY <1>8, <2>1, <2>3 DEF Become
  <1>12. ASSUME NEW c \in Readers, ListPage(c) PROVE Inv'
    <2>1. PICK items \in List(FALSE, req[c].take,
                              Offset(req[c].page, req[c].take)) :
            Become(c, Holding(req[c], "counting", items))
      BY <1>12 DEF ListPage
    <2>2. /\ req[c] \in GoodWalks /\ req[c].stage = "listing"
          /\ Offset(req[c].page, req[c].take) >= 0
      BY <1>3, <1>12 DEF ListPage, At
    <2>3. Holding(req[c], "counting", items) \in GoodWalks
      BY <1>3, <2>2, PageIsListed
    <2>. QED  BY <1>8, <2>1, <2>3 DEF Become
  <1>13. ASSUME NEW c \in Readers, CountRows(c) PROVE Inv'
    <2>1. req[c] \in GoodWalks /\ req[c].stage = "counting"
      BY <1>3, <1>13 DEF CountRows, At
    <2>2. Matching(FALSE) = visible  BY DEF Matching
    <2>3. Seen(Answered(req[c], Cardinality(visible))) \in GoodWalks
      BY <1>3, <2>1, PageIsAnswered
    <2>4. req' = [req EXCEPT ![c] = Seen(Answered(req[c], Cardinality(visible)))]
      BY <1>13, <2>2 DEF CountRows, Become
    <2>. QED  BY <1>8, <2>3, <2>4
  <1>14. ASSUME NEW c \in Readers, CountFails(c) PROVE Inv'
    <2>1. req[c] \in GoodWalks /\ req[c].stage = "counting"
      BY <1>3, <1>14 DEF CountFails, At
    <2>2. Holding(req[c], "listing", {}) \in GoodWalks
      BY <1>3, <2>1, PageIsAskedAgain
    <2>. QED  BY <1>8, <1>14, <2>2 DEF CountFails, Become
  <1>15. ASSUME NEW c \in Readers, NextPage(c) PROVE Inv'
    <2>1. req[c] \in GoodWalks /\ req[c].stage = "answered"
      BY <1>3, <1>15 DEF NextPage, At
    <2>2. Holding(Turned(req[c]), "listing", {}) \in GoodWalks
      BY <1>3, <2>1, PageIsTurned
    <2>. QED  BY <1>8, <1>15, <2>2 DEF NextPage, Become
  <1>16. ASSUME NEW c \in Readers, Leave(c) PROVE Inv'
    BY <1>3, <1>8, <1>16, IdleIsGood DEF Leave, Become
  <1>. QED  BY <1>5, <1>6, <1>7, <1>9, <1>10, <1>11, <1>12, <1>13, <1>14,
               <1>15, <1>16 DEF Next

LEMMA SpecInv == Spec => []Inv
  BY InitFits, NextFits, PTL DEF Spec

----------------------------------------------------------------------------
(* The types hold and a page agrees with its meta, though two statements   *)
(* read them (ListMeta::new).                                              *)
THEOREM PageAgreesWithMeta == Spec => []Consistent
  <1>1. Inv => Consistent
    <2>. SUFFICES ASSUME Inv PROVE Consistent  OBVIOUS
    <2>1. \A c \in Readers : req[c] \in Walks /\ MetaFits(req[c])
      BY DEF Inv, GoodWalks
    <2>2. req \in [Readers -> Walks]  BY <2>1 DEF Inv
    <2>. QED  BY <2>1, <2>2
              DEF Inv, TableFits, Consistent, TypeOK, MetaCoversItems, MetaFits,
                  Skipped
  <1>. QED  BY <1>1, SpecInv, PTL

(* A walk from page 1 to the page that has no next shows every row it found*)
(* in the table, except for rows that tie (example_repo.rs:34).            *)
THEOREM WalkIsComplete == Spec => []WalkMissesNothing
  <1>1. Inv => WalkMissesNothing
    BY DEF Inv, GoodWalks, DoneFits, WalkMissesNothing, At
  <1>. QED  BY <1>1, SpecInv, PTL

(* The public list is the newest of the public rows, and they alone.       *)
THEOREM PublicIsNewest == Spec => []PublicShowsNewest
  <1>1. Inv => PublicShowsNewest
    BY DEF Inv, GoodWalks, ShownFits, PublicShowsNewest, At
  <1>. QED  BY <1>1, SpecInv, PTL
=============================================================================
