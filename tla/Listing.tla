------------------------------- MODULE Listing -------------------------------
(***************************************************************************)
(* A client walks through the pages of a listing: GET /tasks               *)
(* (store/tasks.go) or GET /memory/search (store/knowledge.go).  The order *)
(* is that of created_at, which has whole seconds, and then of the id,     *)
(* which is random; the cursor is the position of the last row of a page.  *)
(*                                                                         *)
(* Meanwhile rows are created, and begin or cease to match: their status,  *)
(* the client's memberships and grants and the leases that end (List       *)
(* requeues them first) are those of TaskLifecycle, Projects and Knowledge *)
(* and may change at any time here.  Rows are never deleted.               *)
(***************************************************************************)
EXTENDS Naturals, Sequences, SequencesExt, FiniteSets

CONSTANTS
    Ids,      \* task_id or knowledge_id, in the order of the strings
    Limits,   \* what a client may ask for as the rows of a page
    MaxLag,   \* bound: seconds from the created_at of a task to its INSERT
    MaxTime   \* bound: seconds

ASSUME IdsAssumption == Ids \subseteq Nat \ {0} /\ IsFiniteSet(Ids)
ASSUME BoundsAssumption == Limits \subseteq Nat \ {0} /\ MaxLag \in Nat /\ MaxTime \in Nat

VARIABLES
    table,     \* "tasks" or "knowledge"
    now,
    rows,
    matching,  \* ids that pass the WHERE clause, but for the cursor
    walking,   \* there is a next page to ask for
    cursor,
    seen,      \* rows returned in this walk, in order
    steady     \* history: ids the walk had ahead of it and that matched ever since

vars == <<table, now, rows, matching, walking, cursor, seen, steady>>
walk == <<walking, cursor, seen, steady>>

\* The empty cursor, before every row.
Start == [created |-> 0, id |-> 0]

Position(r) == [created |-> r.created, id |-> r.id]

Init ==
    /\ table \in {"tasks", "knowledge"}
    /\ now = 0
    /\ rows = {}
    /\ matching = {}
    /\ walking = FALSE
    /\ cursor = Start
    /\ seen = <<>>
    /\ steady = {}

-----------------------------------------------------------------------------
(* TaskStore.List and KnowledgeStore.Search *)

Before(r, s) == r.created < s.created \/ (r.created = s.created /\ r.id < s.id)

\* Mutant: the row of the cursor is on the next page again.
AfterOrAt(c) == {r \in rows : r.id \in matching /\ ~Before(r, c)}

After(c) == {r \in rows : r.id \in matching /\ Before(c, r)}

Place(S, r) == Cardinality({s \in S : Before(s, r)})

\* ORDER BY created_at and the id
InOrder(S) == [i \in 1 .. Cardinality(S) |-> CHOOSE r \in S : Place(S, r) = i - 1]

FirstOf(S, n) == {r \in S : Place(S, r) < n}

\* LIMIT limit+1: one row more tells that there is a next page.
Fetched(limit) == FirstOf(After(cursor), limit + 1)
Page(limit) == FirstOf(Fetched(limit), limit)
More(limit) == Cardinality(Fetched(limit)) > limit

LastRow(S) == CHOOSE r \in S : \A s \in S \ {r} : Before(s, r)

\* Mutant: the position of the row that tells of a next page.
NextCursorPastIt(limit) ==
    IF More(limit) THEN Position(LastRow(Fetched(limit))) ELSE Start

\* The position of the last row of the page.
NextCursor(limit) ==
    IF More(limit) THEN Position(LastRow(Page(limit))) ELSE Start

\* The answer and its next_cursor, which the client presents next.
Return(limit, S) ==
    /\ walking
    /\ seen' = seen \o InOrder(S)
    /\ walking' = More(limit)
    /\ cursor' = NextCursor(limit)
    /\ UNCHANGED <<table, now, rows, matching, steady>>

ListTasks(limit) ==
    /\ table = "tasks"
    /\ Return(limit, Page(limit))

\* Tags are looked at when the page is cut: a page may be empty and not the last.
SearchKnowledge(limit) ==
    /\ table = "knowledge"
    /\ Return(limit, {r \in Page(limit) : r.tagged})

Begin ==
    /\ ~walking
    /\ walking' = TRUE
    /\ cursor' = Start
    /\ seen' = <<>>
    /\ steady' = matching
    /\ UNCHANGED <<table, now, rows, matching>>

-----------------------------------------------------------------------------
(* The others *)

NewRow(id, lag, tagged) == [created |-> now - lag, id |-> id, tagged |-> tagged]

\* The time of a task is read before its INSERT gets the connection, that of an
\* entry in its transaction.  (The tags of tasks are in the WHERE clause.)
Create(id, lag, tagged) ==
    /\ \A r \in rows : r.id # id
    /\ lag <= now
    /\ IF table = "tasks" THEN tagged ELSE lag = 0
    /\ rows' = rows \cup {NewRow(id, lag, tagged)}
    /\ \/ /\ matching' = matching \cup {id}
          /\ steady' = IF walking /\ Before(cursor, NewRow(id, lag, tagged))
                       THEN steady \cup {id} ELSE steady
       \/ UNCHANGED <<matching, steady>>
    /\ UNCHANGED <<table, now, walking, cursor, seen>>

\* The status of a row, or what the client may see, changes.
Change(r) ==
    /\ matching' = IF r.id \in matching THEN matching \ {r.id} ELSE matching \cup {r.id}
    /\ steady' = steady \cap matching'
    /\ UNCHANGED <<table, now, rows, walking, cursor, seen>>

Tick ==
    /\ now < MaxTime
    /\ now' = now + 1
    /\ UNCHANGED <<table, rows, matching, walk>>

Next ==
    \/ \E limit \in Limits : ListTasks(limit) \/ SearchKnowledge(limit)
    \/ Begin
    \/ \E id \in Ids, lag \in 0 .. MaxLag, tagged \in BOOLEAN : Create(id, lag, tagged)
    \/ \E r \in rows : Change(r)
    \/ Tick

Spec == Init /\ [][Next]_vars

-----------------------------------------------------------------------------
(* Properties *)

\* A walk to the last page returns every row that matched from its beginning,
\* and every row that came in ahead of the cursor and matched since, however
\* many rows share a second and whatever is created, taken or replaced while
\* the client turns the pages.  A row that comes in behind the cursor, within
\* the second of the last row or with a time read earlier, is not promised.
WalkMissesNothing ==
    ~walking => \A r \in rows : r.id \in steady /\ r.tagged => r \in ToSet(seen)

\* "Ascending (created_at, task_id) order" (TaskStore.List) over all pages of a
\* walk, so no row comes twice, though rows change and come in late between two
\* pages.
PagesAscend ==
    \A i, j \in DOMAIN seen : i < j => Before(seen[i], seen[j])
=============================================================================
