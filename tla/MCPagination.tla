---------------------------- MODULE MCPagination ----------------------------
(***************************************************************************)
(* Instances of Pagination for TLC.                                        *)
(***************************************************************************)
EXTENDS Pagination, TLC

\* A list that only grows, one that rows leave too, and one under all writes.
AllRegimes == {{"append"}, {"append", "delete"}, Kinds}

\* Page sizes at the edges of the arithmetic: absent, negative enough to wrap
\* around uint64, zero, and up to more than the list holds.
AnyFirst == {NULL, -2, -1, 0, 1, 2, 4}

\* A row's place in the list is its place in the heap, never its name.
RowSymmetry == Permutations(Rows)

OnlyUpdates == {{"update"}}
=============================================================================
