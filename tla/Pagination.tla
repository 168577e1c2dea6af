----------------------------- MODULE Pagination -----------------------------
(***************************************************************************)
(* The list queries (batches, sensors, batchSensorAssociations,            *)
(* temperatureMeasurements) and a client that walks through one of them    *)
(* page by page.                                                           *)
(*                                                                         *)
(* A page is one SELECT with LIMIT and OFFSET and no ORDER BY.  The model  *)
(* assumes that rows come in the order PostgreSQL stores them, which it    *)
(* does not promise and which the plan of a join need not keep: what holds *)
(* here is the best that offset cursors can do.  A new row version goes to *)
(* the end of the table, or into space that vacuum has reclaimed from a    *)
(* dead one, and an UPDATE writes a new version.  A cursor is an offset    *)
(* into that order, and other goroutines write between two pages of a walk.*)
(***************************************************************************)
EXTENDS Integers, Sequences, FiniteSets

CONSTANTS
    Rows,           \* rows a user's list can hold
    Regimes,        \* sets of the kinds of writes made while a client walks
    Firsts,         \* values a client may send as first, NULL when absent
    NULL

\* append: an INSERT at the end; fill: one into reclaimed space.
Kinds == {"append", "fill", "update", "delete"}

ASSUME PaginationAssumption ==
    /\ NULL \notin Int
    /\ Firsts \subseteq Int \cup {NULL}
    /\ Regimes \subseteq SUBSET Kinds

VARIABLES
    heap,           \* the live rows in storage order
    dead,           \* whether the table holds space of dead row versions
    others,         \* the kinds of writes that others make during the walk
    phase,          \* of the walk: "idle", "walking", "done", "failed"
    first,          \* page size of the walk
    after,          \* the cursor the next page is asked with, NULL at first
    got,            \* the rows received so far, in order
    base            \* the rows that were there when the walk began

vars == <<heap, dead, others, phase, first, after, got, base>>
walk == <<phase, first, after, got, base>>

RowsOf(s) == {s[i] : i \in DOMAIN s}

-----------------------------------------------------------------------------
(* One page *)

\* No cursor, one that is not base64 and one that holds no offset all mean 0.
Offset(a) == IF a \in Int THEN a ELSE 0

\* LIMIT and OFFSET are converted to uint64: a negative one becomes a number
\* the database refuses.  first + 1 is computed before, so first = -1 is no
\* error but LIMIT 0.
SqlFails(f, a) == Offset(a) < 0 \/ (f # NULL /\ f + 1 < 0)

Least(m, n) == IF m < n THEN m ELSE n

\* Faulty: LIMIT first, without the row that tells that there are more.
SelectedExactly(s, f, a) ==
    LET last == IF f = NULL THEN Len(s) ELSE Least(Offset(a) + f, Len(s))
    IN SubSeq(s, Offset(a) + 1, last)

Selected(s, f, a) ==
    LET last == IF f = NULL THEN Len(s) ELSE Least(Offset(a) + f + 1, Len(s))
    IN SubSeq(s, Offset(a) + 1, last)

\* The loop over the rows turns the i-th into an edge while i is below first,
\* and takes any further one as the sign of a next page.
EdgeCount(s, f, a) ==
    IF f = NULL \/ Len(Selected(s, f, a)) <= f THEN Len(Selected(s, f, a))
    ELSE IF f < 0 THEN 0 ELSE f

\* Faulty: the edges are allocated for a full page.
EdgesPadded(s, f, a) ==
    IF f = NULL THEN Selected(s, f, a)
    ELSE [i \in 1 .. f |-> IF i <= EdgeCount(s, f, a) THEN Selected(s, f, a)[i] ELSE NULL]

Edges(s, f, a) == SubSeq(Selected(s, f, a), 1, EdgeCount(s, f, a))
\* Faulty: a full page means that there are more.
HasNextPageIfFull(s, f, a) == f # NULL /\ f > 0 /\ EdgeCount(s, f, a) = f

HasNextPage(s, f, a) == Len(Selected(s, f, a)) > EdgeCount(s, f, a)

\* Faulty: the cursor is the index of the edge, not of the row behind it.
LastCursorShort(s, f, a) == Offset(a) + EdgeCount(s, f, a) - 1

\* Faulty: counts from one twice.
LastCursorLong(s, f, a) == Offset(a) + EdgeCount(s, f, a) + 1

\* The cursor of the last edge: offset + i + 1.
LastCursor(s, f, a) == Offset(a) + EdgeCount(s, f, a)

-----------------------------------------------------------------------------
(* The table under the walk *)

\* Where a new row version can be stored: behind row n of the heap.
Spots == {n \in 0 .. Len(heap) : n = Len(heap) \/ dead}

Placed(s, n, r) == SubSeq(s, 1, n) \o <<r>> \o SubSeq(s, n + 1, Len(s))
Without(s, i) == SubSeq(s, 1, i - 1) \o SubSeq(s, i + 1, Len(s))

Init ==
    /\ heap = <<>> /\ dead = FALSE /\ others \in Regimes
    /\ phase = "idle" /\ first = NULL /\ after = NULL /\ got = <<>> /\ base = {}

\* Before the walk begins anything may be written.
Happens(kind) == phase = "idle" \/ kind \in others

Insert(r) ==
    /\ r \notin RowsOf(heap) \cup RowsOf(got) \cup base
    /\ \E n \in Spots :
         /\ Happens(IF n = Len(heap) THEN "append" ELSE "fill")
         /\ heap' = Placed(heap, n, r)
    /\ UNCHANGED <<dead, others, walk>>

Update(r) ==
    /\ Happens("update")
    /\ \E i \in DOMAIN heap, n \in 0 .. Len(heap) - 1 :
         /\ heap[i] = r
         /\ n = Len(heap) - 1 \/ dead
         /\ heap' = Placed(Without(heap, i), n, r)
    /\ dead' = TRUE
    /\ UNCHANGED <<others, walk>>

Delete(r) ==
    /\ Happens("delete")
    /\ \E i \in DOMAIN heap : heap[i] = r /\ heap' = Without(heap, i)
    /\ dead' = TRUE
    /\ UNCHANGED <<others, walk>>

-----------------------------------------------------------------------------
(* The walk: ask for a page, then for the one after its last cursor, until  *)
(* the server says there is no next page.                                   *)

Begin ==
    /\ phase = "idle"
    /\ phase' = "walking"
    /\ first' \in Firsts
    /\ base' = RowsOf(heap)
    /\ UNCHANGED <<heap, dead, others, after, got>>

\* Faulty: goes on after a page with no edge to take a cursor from.
FetchOn ==
    /\ phase = "walking"
    /\ ~SqlFails(first, after)
    /\ got' = got \o Edges(heap, first, after)
    /\ IF HasNextPage(heap, first, after)
       THEN phase' = phase /\ after' = LastCursor(heap, first, after)
       ELSE phase' = "done" /\ after' = after
    /\ UNCHANGED <<heap, dead, others, first, base>>

Fetch ==
    /\ phase = "walking"
    /\ ~SqlFails(first, after)
    /\ got' = got \o Edges(heap, first, after)
    /\ IF HasNextPage(heap, first, after) /\ EdgeCount(heap, first, after) > 0
       THEN phase' = phase /\ after' = LastCursor(heap, first, after)
       ELSE phase' = "done" /\ after' = after
    /\ UNCHANGED <<heap, dead, others, first, base>>

FetchFails ==
    /\ phase = "walking"
    /\ SqlFails(first, after)
    /\ phase' = "failed"
    /\ UNCHANGED <<heap, dead, others, first, after, got, base>>

Next ==
    \/ \E r \in Rows : Insert(r) \/ Update(r) \/ Delete(r)
    \/ Begin \/ Fetch \/ FetchFails

Spec == Init /\ [][Next]_vars

\* The client goes on asking; nothing is assumed of the writers.
FairSpec == Spec /\ WF_vars(Begin) /\ WF_vars(Fetch \/ FetchFails)

-----------------------------------------------------------------------------
(* Properties *)

\* Every variable holds a value of its type: a page never brings a missing row.
TypeOK ==
    /\ heap \in Seq(Rows)
    /\ dead \in BOOLEAN
    /\ others \in Regimes
    /\ phase \in {"idle", "walking", "done", "failed"}
    /\ first \in Firsts \cup {NULL}
    /\ after \in Int \cup {NULL}
    /\ got \in Seq(Rows)
    /\ base \subseteq Rows

\* Offsets are sound cursors for a table that only grows at its end: what a walk
\* has seen is the front of the list, without gap or repetition.
WalkIsPrefix ==
    others \subseteq {"append"} =>
        Len(got) <= Len(heap) /\ got = SubSeq(heap, 1, Len(got))

FullWalk == phase = "done" /\ (first = NULL \/ first > 0)

\* Rows that were listed all the time and never came.
Missed == (base \cap RowsOf(heap)) \ RowsOf(got)

\* The tests take the cursor of a row to lead to the row behind it: a finished
\* walk has missed nothing.  Updates break it.
WalkSeesAll == FullWalk => Missed = {}

\* A row deleted before the cursor moves the others forward by one, so a walk
\* misses as many rows as were deleted, at most, and none of a list that grows.
MissesOnlyForDeletions ==
    FullWalk /\ others \subseteq {"append", "delete"} =>
        Cardinality(Missed) <= Cardinality(base \ RowsOf(heap))

\* No row reaches a walk twice while rows are only appended and deleted.
\* (Updates, and inserts into space that vacuum reclaimed, do repeat rows.)
NoRepeats ==
    others \subseteq {"append", "delete"} =>
        \A i, j \in DOMAIN got : got[i] = got[j] => i = j

\* hasNextPage, which the resolvers get by selecting one row more than asked
\* for, says that there are rows behind the page; but first = -1, no error,
\* makes LIMIT 0 and an empty page that claims to be the last.
NextPageTruthful ==
    \A f \in Firsts \ {-1}, a \in {NULL} \cup 0 .. Len(heap) :
        ~SqlFails(f, a) =>
            (HasNextPage(heap, f, a) <=> Len(heap) > LastCursor(heap, f, a))

\* A walk ends, whatever is written in the meantime, as long as the list has a
\* largest size: every page moves the cursor, also across deleted rows.
WalkEnds == []<>(phase \in {"done", "failed"})
=============================================================================
