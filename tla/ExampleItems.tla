----------------------------- MODULE ExampleItems ---------------------------
(***************************************************************************)
(* The template service's example routes (template/src/inbound/example.rs, *)
(* template/src/adapters/example_repo.rs): admins create rows while others *)
(* walk the paginated list, each statement a transaction of its own.       *)
(*                                                                         *)
(* A row's created_at is the start of its INSERT, a tick of a clock coarse *)
(* enough for two rows to share one; the row is visible once it commits.   *)
(* i64 is scaled down to the integers -(IntMax + 1)..IntMax.               *)
(***************************************************************************)
EXTENDS Integers, FiniteSets, SequencesExt

CONSTANTS
  Readers,
  Rows,         \* each is one create request
  MaxTake,      \* MAX_TAKE
  PublicLimit,  \* the limit of list_public
  IntMax,       \* i64::MAX
  MaxTime       \* bound of the model: ticks of the database's clock

ASSUME BoundsAssumption ==
  /\ MaxTake \in Nat \ {0}
  /\ PublicLimit \in Nat \ {0}
  /\ IntMax \in Nat \ {0}
  /\ MaxTime \in Nat

(* COUNT of any table fits its bigint. *)
ASSUME RowsAssumption == IsFiniteSet(Rows) /\ Cardinality(Rows) <= IntMax

VARIABLES
  now,      \* the database's clock
  post,     \* post[r]: where the create request of r stands
  row,      \* row[r]: its stamp (created_at) and whether it is public
  visible,  \* the committed rows
  req       \* req[c]: the walk of c through the pages, or its public list

table == <<now, post, row, visible>>
vars == <<table, req>>

PostStates == {"none", "inserting", "committed", "201", "400", "500"}

Stages ==
  {"idle",
   "listing",    \* admin: about to SELECT the page
   "counting",   \* has the page, about to COUNT
   "answered",   \* has the page and its meta
   "done",       \* has a page whose meta says there is no next
   "public",     \* public: about to SELECT
   "shown"}      \* public: has the list

Walks ==
  [stage : Stages, fromStart : BOOLEAN, page : 1..IntMax, take : 1..MaxTake,
   items : SUBSET Rows,  \* the page at hand
   count : 0..Cardinality(Rows),
   seen : SUBSET Rows,   \* the rows of all the pages so far
   due : SUBSET Rows]    \* the rows committed before the first request

Idle ==
  [stage |-> "idle", fromStart |-> FALSE, page |-> 1, take |-> 1, items |-> {},
   count |-> 0, seen |-> {}, due |-> {}]

Init ==
  /\ now = 0
  /\ post = [r \in Rows |-> "none"]
  /\ row = [r \in Rows |-> [stamp |-> 0, is_public |-> FALSE]]
  /\ visible = {}
  /\ req = [c \in Readers |-> Idle]

At(c, stage) == req[c].stage = stage

Become(c, walk) == req' = [req EXCEPT ![c] = walk]

(* The walk w at stage, with items at hand. *)
Holding(w, stage, items) == [[w EXCEPT !.stage = stage] EXCEPT !.items = items]

----------------------------------------------------------------------------
(* POST /admin/example. *)
NameBlank(r) ==
  /\ post[r] = "none"
  /\ post' = [post EXCEPT ![r] = "400"]
  /\ UNCHANGED <<now, row, visible, req>>

Insert(r) ==
  /\ post[r] = "none"
  /\ post' = [post EXCEPT ![r] = "inserting"]
  /\ \E is_public \in BOOLEAN :
       row' = [row EXCEPT ![r] = [stamp |-> now, is_public |-> is_public]]
  /\ UNCHANGED <<now, visible, req>>

Commit(r) ==
  /\ post[r] = "inserting"
  /\ post' = [post EXCEPT ![r] = "committed"]
  /\ visible' = visible \union {r}
  /\ UNCHANGED <<now, row, req>>

Created(r) ==
  /\ post[r] = "committed"
  /\ post' = [post EXCEPT ![r] = "201"]
  /\ UNCHANGED <<now, row, visible, req>>

(* The database fails, before the commit or with its answer on the way. *)
CreateFails(r) ==
  /\ post[r] \in {"inserting", "committed"}
  /\ post' = [post EXCEPT ![r] = "500"]
  /\ UNCHANGED <<now, row, visible, req>>

----------------------------------------------------------------------------
(* ORDER BY created_at DESC: rows of one stamp come in any order. *)
Orders(rows) ==
  {s \in SetToSeqs(rows) :
     \A i, j \in DOMAIN s : i < j => row[s[i]].stamp >= row[s[j]].stamp}

Matching_All(public_only) == visible

Matching(public_only) == {r \in visible : public_only => row[r].is_public}

(* The pages that one SELECT may answer with. *)
List(public_only, limit, offset) ==
  {{s[i] : i \in DOMAIN s \intersect (offset + 1)..(offset + limit)} :
     s \in Orders(Matching(public_only))}

(* GET /example. *)
AskPublic(c) ==
  /\ At(c, "idle")
  /\ Become(c, [[Idle EXCEPT !.stage = "public"] EXCEPT !.due = visible])
  /\ UNCHANGED table

ListPublic(c) ==
  /\ At(c, "public")
  /\ \E items \in List(TRUE, PublicLimit, 0) :
       Become(c, Holding(req[c], "shown", items))
  /\ UNCHANGED table

(* GET /admin/example, and the page after it while meta says there is one. *)
BoundedNumber(value, min, max) == value >= min /\ value <= max

(* What a client may ask for; out of bounds is a 400. *)
BeginWalk(c) ==
  /\ At(c, "idle")
  /\ \E page \in -1..IntMax, take \in -1..(MaxTake + 1) :
       /\ BoundedNumber(page, 1, IntMax)
       /\ BoundedNumber(take, 1, MaxTake)
       /\ Become(c, [stage |-> "listing", fromStart |-> page = 1,
                     page |-> page, take |-> take, items |-> {}, count |-> 0,
                     seen |-> {}, due |-> visible])
  /\ UNCHANGED table

(* i64 arithmetic of a release build. *)
Wrap(n) == ((n + IntMax + 1) % (2 * (IntMax + 1))) - (IntMax + 1)

Offset(page, take) == Wrap((page - 1) * take)

(* A negative OFFSET is an error of the statement: a 500. *)
ListPage(c) ==
  /\ At(c, "listing")
  /\ Offset(req[c].page, req[c].take) >= 0
  /\ \E items \in List(FALSE, req[c].take, Offset(req[c].page, req[c].take)) :
       Become(c, Holding(req[c], "counting", items))
  /\ UNCHANGED table

PageCount_Floor(count, take) == IF count < take THEN 1 ELSE count \div take

PageCount(count, take) ==
  IF count = 0 THEN 1 ELSE (count + take - 1) \div take

HasNextPage(page, count, take) == page < PageCount(count, take)

(* The page and its meta, as the client takes them. *)
Answered(w, count) ==
  [Holding(w, IF HasNextPage(w.page, count, w.take) THEN "answered" ELSE "done",
           w.items) EXCEPT !.count = count]

Seen(w) == [w EXCEPT !.seen = w.seen \union w.items]

CountRows_Cached(c) ==
  /\ At(c, "counting")
  /\ Become(c, Seen(Answered(req[c], Cardinality(req[c].due))))
  /\ UNCHANGED table

CountRows(c) ==
  /\ At(c, "counting")
  /\ Become(c, Seen(Answered(req[c], Cardinality(Matching(FALSE)))))
  /\ UNCHANGED table

(* The COUNT fails: a 500, and the client asks for the page again. *)
CountFails(c) ==
  /\ At(c, "counting")
  /\ Become(c, Holding(req[c], "listing", {}))
  /\ UNCHANGED table

Turned(w) == [[w EXCEPT !.page = w.page + 1] EXCEPT !.count = 0]

NextPage(c) ==
  /\ At(c, "answered")
  /\ Become(c, Holding(Turned(req[c]), "listing", {}))
  /\ UNCHANGED table

(* It is answered for good, or goes away. *)
Leave(c) ==
  /\ ~At(c, "idle")
  /\ Become(c, Idle)
  /\ UNCHANGED table

Tick ==
  /\ now < MaxTime
  /\ now' = now + 1
  /\ UNCHANGED <<post, row, visible, req>>

Next ==
  \/ \E r \in Rows :
       NameBlank(r) \/ Insert(r) \/ Commit(r) \/ Created(r) \/ CreateFails(r)
  \/ \E c \in Readers :
       \/ AskPublic(c)
       \/ ListPublic(c)
       \/ BeginWalk(c)
       \/ ListPage(c)
       \/ CountRows(c)
       \/ CountFails(c)
       \/ NextPage(c)
       \/ Leave(c)
  \/ Tick

Spec == Init /\ [][Next]_vars

----------------------------------------------------------------------------
TypeOK ==
  /\ now \in 0..MaxTime
  /\ post \in [Rows -> PostStates]
  /\ row \in [Rows -> [stamp : 0..MaxTime, is_public : BOOLEAN]]
  /\ visible \subseteq Rows
  /\ req \in [Readers -> Walks]

Tied(r) ==
  \E other \in visible \ {r} : row[other].stamp = row[r].stamp

(* A client that follows has_next_page from page 1 to the last sees every  *)
(* row that was committed when it began, whatever is created or fails in   *)
(* the meantime and whichever commits first; only rows that share their    *)
(* created_at with another may fall between two pages (example.rs:168-176, *)
(* example_repo.rs:34).                                                    *)
WalkMissesNothing ==
  \A c \in Readers :
    At(c, "done") /\ req[c].fromStart
      => \A r \in req[c].due \ req[c].seen : Tied(r)

(* The page and its meta are read by two statements, and still agree: a    *)
(* page with rows on it starts before item_count, so it is one of the pages*)
(* of its own meta, whenever an i64 holds its offset (ListMeta::new).      *)
MetaCoversItems ==
  \A c \in Readers :
    /\ req[c].stage \in {"answered", "done"}
    /\ req[c].items # {}
    /\ (req[c].page - 1) * req[c].take <= IntMax
    => (req[c].page - 1) * req[c].take < req[c].count

Consistent == TypeOK /\ MetaCoversItems

(* The public list, cut at its limit, shows no private row and leaves out  *)
(* no public one that is newer than a row it shows (example.rs:157-160).   *)
PublicShowsNewest ==
  \A c \in Readers :
    At(c, "shown") =>
      /\ \A r \in req[c].items : row[r].is_public
      /\ \A r \in req[c].due \ req[c].items :
           row[r].is_public =>
             /\ Cardinality(req[c].items) = PublicLimit
             /\ \A i \in req[c].items : row[i].stamp >= row[r].stamp
=============================================================================
