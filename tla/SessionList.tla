---------------------------- MODULE SessionList ----------------------------
(* The sidebar: conversations newest first, read page by page with a        *)
(* cursor (services/sessions.py, list_page and the cursors; static/app.js,  *)
(* refresh and load-more) while turns, renames and deletions move rows.     *)
EXTENDS Integers, Sequences, SequencesExt, FiniteSets

CONSTANTS
  Rows,              \* session ids, numbers: ObjectIds are ordered
  PageSize,          \* SESSION_PAGE_SIZE
  Shift,             \* what a cursor's time is off by, in ticks
  MaxClock, MaxInFlight   \* bounds

\* What the settings must be.
ListSettings == /\ Rows \subseteq Nat /\ IsFiniteSet(Rows)
                /\ PageSize \in Nat \ {0} /\ Shift \in Int /\ MaxClock \in Nat \ {0}

VARIABLES
  clock,
  updated,           \* updated_at of each conversation; 0 not yet made, -1 deleted
  list,              \* state.sessions
  cursor,            \* state.cursor: <<>> for null, or << [at, id] >>
  inFlight,          \* responses on their way: [kind, page, next]
  loaded,            \* a first page has arrived
  moved,             \* rows changed since the first page was read
  backdated,         \* rows given an older time than they had
  mixed              \* the list is not the last first page read and its followers:
                     \* two list requests were in flight, or that page was lost

listVars == <<clock, updated, list, cursor, inFlight, loaded, moved, backdated, mixed>>

\* The sort of list_page: newest first, ids break ties.
Before(a, b) == updated[a] > updated[b] \/ (updated[a] = updated[b] /\ a > b)

NewestFirst(rows) ==
  CHOOSE q \in [1..Cardinality(rows) -> rows] :
    \A i, j \in 1..Cardinality(rows) : i < j => Before(q[i], q[j])

\* Mutant: the tie-break lets the last row of a page in again.
OlderOrSame(row, after) ==
  after = <<>> \/ updated[row] < after[1].at
    \/ (updated[row] = after[1].at /\ row <= after[1].id)

\* Mutant: no tie-break.
OlderByTime(row, after) == after = <<>> \/ updated[row] < after[1].at

\* Strictly older than the cursor.
Older(row, after) ==
  after = <<>> \/ updated[row] < after[1].at
    \/ (updated[row] = after[1].at /\ row < after[1].id)

\* encode_cursor: Mongo gives updated_at back without a zone, and timestamp()
\* reads it in the server's, so that the instant a cursor names is off by the
\* server's offset from UTC; decode_cursor does not undo it.
EncodeCursor(row) == << [at |-> updated[row] + Shift, id |-> row] >>

\* list_page: one row more than the page tells whether there is another.
ListPage(after) ==
  LET found == NewestFirst({r \in Rows : updated[r] > 0 /\ Older(r, after)})
      page == SubSeq(found, 1, IF Len(found) < PageSize THEN Len(found) ELSE PageSize)
  IN  [page |-> page,
       next |-> IF Len(found) > PageSize THEN EncodeCursor(Last(page)) ELSE <<>>]

-----------------------------------------------------------------------------
Init == /\ updated \in {u \in [Rows -> 0..1] : \A a, b \in Rows : a < b /\ u[a] = 0 => u[b] = 0}
        /\ clock = 1
        /\ list = <<>> /\ cursor = <<>> /\ inFlight = {} /\ loaded = FALSE
        /\ moved = {} /\ backdated = {} /\ mixed = FALSE

Tick == /\ clock < MaxClock /\ clock' = clock + 1
        /\ UNCHANGED <<updated, list, cursor, inFlight, loaded, moved, backdated, mixed>>

\* create: ids increase.
Create(row) ==
  /\ updated[row] = 0 /\ \A other \in Rows : other < row => updated[other] # 0
  /\ updated' = [updated EXCEPT ![row] = clock]
  /\ moved' = moved \cup {row}
  /\ UNCHANGED <<clock, list, cursor, inFlight, loaded, backdated, mixed>>

\* append_exchange, append_message and rename stamp the row with the time
\* they began at, which a later writer may have passed.
Touch(row) ==
  /\ updated[row] > 0
  /\ \E at \in {clock - 1, clock} \ {0} :
       /\ updated' = [updated EXCEPT ![row] = at]
       /\ backdated' = IF at < updated[row] THEN backdated \cup {row} ELSE backdated
  /\ moved' = moved \cup {row}
  /\ UNCHANGED <<clock, list, cursor, inFlight, loaded, mixed>>

\* delete
Delete(row) ==
  /\ updated[row] > 0
  /\ updated' = [updated EXCEPT ![row] = -1]
  /\ moved' = moved \cup {row}
  /\ UNCHANGED <<clock, list, cursor, inFlight, loaded, backdated, mixed>>

\* A list request is answered by the server; the browser sees it later.
Request(kind, after) ==
  /\ Cardinality(inFlight) < MaxInFlight
  /\ inFlight' = inFlight \cup {[kind |-> kind, page |-> ListPage(after).page,
                                 next |-> ListPage(after).next]}

\* refresh(): the first page, after signing in, a reply or a deletion.
Refresh ==
  /\ Request("first", <<>>)
  /\ mixed' = (inFlight # {})
  /\ moved' = {} /\ backdated' = {}
  /\ UNCHANGED <<clock, updated, list, cursor, loaded>>

\* "Load older conversations", shown while there is a cursor.
LoadMore ==
  /\ cursor # <<>>
  /\ Request("more", cursor)
  /\ mixed' = (mixed \/ inFlight # {})
  /\ UNCHANGED <<clock, updated, list, cursor, loaded, moved, backdated>>

\* A response replaces the list or extends it.
Arrive(response) ==
  /\ inFlight' = inFlight \ {response}
  /\ list' = IF response.kind = "first" THEN response.page ELSE list \o response.page
  /\ cursor' = response.next
  /\ loaded' = TRUE
  /\ UNCHANGED <<clock, updated, moved, backdated, mixed>>

\* ... or is lost: the browser shows an error and keeps its list.
Lost(response) ==
  /\ inFlight' = inFlight \ {response}
  /\ mixed' = (mixed \/ response.kind = "first")
  /\ UNCHANGED <<clock, updated, list, cursor, loaded, moved, backdated>>

Next == \/ Tick \/ Refresh \/ LoadMore
        \/ \E row \in Rows : Create(row) \/ Touch(row) \/ Delete(row)
        \/ \E response \in inFlight : Arrive(response) \/ Lost(response)

Spec == Init /\ [][Next]_listVars

-----------------------------------------------------------------------------
\* The variables hold what their comments say.
TypeOK ==
  /\ clock \in Nat /\ updated \in [Rows -> -1..MaxClock]
  /\ ToSet(list) \subseteq Rows
  /\ Len(cursor) <= 1
  /\ \A response \in inFlight : ToSet(response.page) \subseteq Rows
  /\ moved \subseteq Rows /\ backdated \subseteq Rows

\* The list is that of one walk through the pages.
OneWalk == ~mixed /\ \A response \in inFlight : response.kind = "more"

\* No conversation twice while one list request follows another, however the
\* rows move between the pages; only a row stamped with an older time than it
\* had can come again (sessions.py:203, "returned again on the next page").
NoRowTwice ==
  OneWalk =>
    \A i, j \in DOMAIN list : i # j /\ list[i] = list[j] => list[i] \in backdated

\* No conversation is skipped: one that has not changed since the first page
\* was read is in the list or still behind the cursor.
UnmovedRowsReached ==
  loaded /\ OneWalk /\ inFlight = {} =>
    \A row \in Rows \ moved :
      updated[row] > 0 => row \in ToSet(list) \/ (cursor # <<>> /\ Older(row, cursor))

=============================================================================
