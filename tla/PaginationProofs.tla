-------------------------- MODULE PaginationProofs --------------------------
(***************************************************************************)
(* What holds of Pagination for any rows, page sizes and kinds of writes.  *)
(***************************************************************************)
EXTENDS Pagination, SequenceTheorems, FunctionTheorems, FiniteSetTheorems, TLAPS

-----------------------------------------------------------------------------
(* The table, element by element *)

\* A row version that dies leaves the order of the others as it was.
LEMMA WithoutElements ==
    ASSUME NEW s \in Seq(Rows), NEW i \in 1 .. Len(s)
    PROVE  /\ Without(s, i) \in Seq(Rows)
           /\ Len(Without(s, i)) = Len(s) - 1
           /\ \A j \in 1 .. Len(s) - 1 :
                Without(s, i)[j] = IF j < i THEN s[j] ELSE s[j + 1]
<1> DEFINE front == SubSeq(s, 1, i - 1)
           back == SubSeq(s, i + 1, Len(s))
<1>1. Len(s) \in Nat /\ \A j \in 1 .. Len(s) : s[j] \in Rows
  BY LenProperties, ElementOfSeq
<1>2. /\ front \in Seq(Rows)
      /\ Len(front) = i - 1
      /\ \A j \in 1 .. i - 1 : front[j] = s[j]
  BY <1>1, SubSeqProperties
<1>3. /\ back \in Seq(Rows)
      /\ Len(back) = Len(s) - i
      /\ \A j \in 1 .. Len(s) - i : back[j] = s[i + j]
  BY <1>1, SubSeqProperties
<1> HIDE DEF front, back
<1>4. /\ front \o back \in Seq(Rows)
      /\ Len(front \o back) = Len(front) + Len(back)
      /\ \A j \in 1 .. Len(front) + Len(back) :
           (front \o back)[j] = IF j <= Len(front) THEN front[j] ELSE back[j - Len(front)]
  BY <1>2, <1>3, ConcatProperties
<1>5. Len(front) + Len(back) = Len(s) - 1
  BY <1>1, <1>2, <1>3
<1>6. ASSUME NEW j \in 1 .. Len(s) - 1
      PROVE  (front \o back)[j] = IF j < i THEN s[j] ELSE s[j + 1]
  <2>1. CASE j < i
    BY <1>1, <1>2, <1>4, <1>5, <2>1
  <2>2. CASE ~(j < i)
    <3>1. (front \o back)[j] = back[j - (i - 1)]
      BY <1>1, <1>2, <1>4, <1>5, <2>2
    <3>2. j - (i - 1) \in 1 .. Len(s) - i /\ i + (j - (i - 1)) = j + 1
      BY <1>1, <2>2
    <3> QED
      BY <1>3, <2>2, <3>1, <3>2
  <2> QED
    BY <2>1, <2>2
<1> QED
  BY <1>4, <1>5, <1>6 DEF Without, front, back

\* A row version stored behind row n moves those after it back by one.
LEMMA PlacedElements ==
    ASSUME NEW s \in Seq(Rows), NEW n \in 0 .. Len(s), NEW r \in Rows
    PROVE  /\ Placed(s, n, r) \in Seq(Rows)
           /\ Len(Placed(s, n, r)) = Len(s) + 1
           /\ \A j \in 1 .. Len(s) + 1 :
                Placed(s, n, r)[j] = IF j <= n THEN s[j]
                                     ELSE IF j = n + 1 THEN r ELSE s[j - 1]
<1> DEFINE front == SubSeq(s, 1, n)
           back == SubSeq(s, n + 1, Len(s))
<1>1. Len(s) \in Nat /\ \A j \in 1 .. Len(s) : s[j] \in Rows
  BY LenProperties, ElementOfSeq
<1>2. /\ front \in Seq(Rows)
      /\ Len(front) = n
      /\ \A j \in 1 .. n : front[j] = s[j]
  BY <1>1, SubSeqProperties
<1>3. /\ back \in Seq(Rows)
      /\ Len(back) = Len(s) - n
      /\ \A j \in 1 .. Len(s) - n : back[j] = s[n + j]
  BY <1>1, SubSeqProperties
<1>4. <<r>> \in Seq(Rows) /\ Len(<<r>>) = 1 /\ <<r>>[1] = r
  OBVIOUS
<1> HIDE DEF front, back
<1> DEFINE mid == front \o <<r>>
<1>5. /\ mid \in Seq(Rows)
      /\ Len(mid) = n + 1
      /\ \A j \in 1 .. n + 1 : mid[j] = IF j <= n THEN s[j] ELSE r
  <2>1. /\ mid \in Seq(Rows)
        /\ Len(mid) = Len(front) + Len(<<r>>)
        /\ \A j \in 1 .. Len(front) + Len(<<r>>) :
             mid[j] = IF j <= Len(front) THEN front[j] ELSE <<r>>[j - Len(front)]
    BY <1>2, <1>4, ConcatProperties
  <2>2. \A j \in 1 .. n + 1 : ~(j <= n) => j - n = 1
    BY <1>1
  <2> QED
    BY <1>1, <1>2, <1>4, <2>1, <2>2
<1> HIDE DEF mid
<1>6. /\ mid \o back \in Seq(Rows)
      /\ Len(mid \o back) = Len(mid) + Len(back)
      /\ \A j \in 1 .. Len(mid) + Len(back) :
           (mid \o back)[j] = IF j <= Len(mid) THEN mid[j] ELSE back[j - Len(mid)]
  BY <1>3, <1>5, ConcatProperties
<1>7. Len(mid) + Len(back) = Len(s) + 1
  BY <1>1, <1>3, <1>5
<1>8. ASSUME NEW j \in 1 .. Len(s) + 1
      PROVE  (mid \o back)[j] = IF j <= n THEN s[j] ELSE IF j = n + 1 THEN r ELSE s[j - 1]
  <2>1. CASE j <= n + 1
    BY <1>1, <1>5, <1>6, <1>7, <2>1
  <2>2. CASE ~(j <= n + 1)
    <3>1. (mid \o back)[j] = back[j - (n + 1)]
      BY <1>1, <1>5, <1>6, <1>7, <2>2
    <3>2. j - (n + 1) \in 1 .. Len(s) - n /\ n + (j - (n + 1)) = j - 1
      BY <1>1, <2>2
    <3> QED
      BY <1>1, <1>3, <2>2, <3>1, <3>2
  <2> QED
    BY <2>1, <2>2
<1> QED
  BY <1>6, <1>7, <1>8 DEF mid, Placed, front, back

-----------------------------------------------------------------------------
(* A page, element by element *)

Cursors == Int \cup {NULL}

LEMMA OffsetType == \A a \in Cursors : Offset(a) \in Int
BY DEF Offset, Cursors, PaginationAssumption

\* What a SELECT that does not fail returns: the rows behind the offset, up to
\* one more than asked for.
LEMMA SelectedElements ==
    ASSUME NEW s \in Seq(Rows), NEW f \in Cursors, NEW a \in Cursors, ~SqlFails(f, a)
    PROVE  /\ Selected(s, f, a) \in Seq(Rows)
           /\ Len(Selected(s, f, a)) =
                LET rest == IF Offset(a) < Len(s) THEN Len(s) - Offset(a) ELSE 0
                IN IF f = NULL THEN rest ELSE Least(f + 1, rest)
           /\ \A j \in 1 .. Len(Selected(s, f, a)) :
                /\ Offset(a) + j \in 1 .. Len(s)
                /\ Selected(s, f, a)[j] = s[Offset(a) + j]
<1> DEFINE off == Offset(a)
           last == IF f = NULL THEN Len(s) ELSE Least(off + f + 1, Len(s))
<1>1. Len(s) \in Nat /\ \A j \in 1 .. Len(s) : s[j] \in Rows
  BY LenProperties, ElementOfSeq
<1>2. off \in Nat /\ (f # NULL => f \in Int /\ f + 1 >= 0)
  BY OffsetType DEF SqlFails, Cursors
<1>3. Selected(s, f, a) = SubSeq(s, off + 1, last)
  BY DEF Selected
<1>4. last \in Int /\ last <= Len(s)
  BY <1>1, <1>2 DEF Least
<1>5. /\ SubSeq(s, off + 1, last) \in Seq(Rows)
      /\ Len(SubSeq(s, off + 1, last)) = IF off + 1 <= last THEN last - off ELSE 0
      /\ \A j \in 1 .. last - off : SubSeq(s, off + 1, last)[j] = s[off + j]
  <2> HIDE DEF off, last
  <2>1. \A j \in off + 1 .. last : s[j] \in Rows
    BY <1>1, <1>2, <1>4
  <2>2. off + 1 \in Int /\ last - (off + 1) + 1 = last - off
        /\ \A j \in Int : off + 1 + j - 1 = off + j
    BY <1>2, <1>4
  <2> QED
    BY <1>2, <1>4, <2>1, <2>2, SubSeqProperties
<1>6. (IF off + 1 <= last THEN last - off ELSE 0) =
        LET rest == IF off < Len(s) THEN Len(s) - off ELSE 0
        IN IF f = NULL THEN rest ELSE Least(f + 1, rest)
  BY <1>1, <1>2 DEF Least
<1> QED
  <2> HIDE DEF last
  <2> QED
    BY <1>1, <1>2, <1>3, <1>4, <1>5, <1>6

\* The edges of a page are the rows behind its cursor, with none left out.
LEMMA PageElements ==
    ASSUME NEW s \in Seq(Rows), NEW f \in Cursors, NEW a \in Cursors, ~SqlFails(f, a)
    PROVE  /\ Edges(s, f, a) \in Seq(Rows)
           /\ EdgeCount(s, f, a) \in Nat
           /\ Len(Edges(s, f, a)) = EdgeCount(s, f, a)
           /\ \A j \in 1 .. EdgeCount(s, f, a) :
                /\ Offset(a) + j \in 1 .. Len(s)
                /\ Edges(s, f, a)[j] = s[Offset(a) + j]
<1> DEFINE sel == Selected(s, f, a)
           k == EdgeCount(s, f, a)
<1>1. /\ sel \in Seq(Rows)
      /\ Len(sel) \in Nat
      /\ \A j \in 1 .. Len(sel) :
           sel[j] \in Rows /\ Offset(a) + j \in 1 .. Len(s) /\ sel[j] = s[Offset(a) + j]
  BY SelectedElements, LenProperties, ElementOfSeq
<1>2. k \in Nat /\ k <= Len(sel)
  BY <1>1 DEF EdgeCount, Cursors, SqlFails
<1>3. Edges(s, f, a) = SubSeq(sel, 1, k)
  BY DEF Edges
<1> HIDE DEF sel, k
<1>4. /\ SubSeq(sel, 1, k) \in Seq(Rows)
      /\ Len(SubSeq(sel, 1, k)) = k
      /\ \A j \in 1 .. k : SubSeq(sel, 1, k)[j] = sel[j]
  BY <1>1, <1>2, SubSeqProperties
<1> QED
  BY <1>1, <1>2, <1>3, <1>4 DEF k

-----------------------------------------------------------------------------
(* Types *)

LEMMA TypeStep == TypeOK /\ [Next]_vars => TypeOK'
<1> SUFFICES ASSUME TypeOK, [Next]_vars
             PROVE  TypeOK'
  OBVIOUS
<1> USE DEF TypeOK
<1>1. ASSUME NEW r \in Rows, Insert(r)
      PROVE  TypeOK'
  <2>1. PICK n \in 0 .. Len(heap) : heap' = Placed(heap, n, r)
    BY <1>1 DEF Insert, Spots
  <2> QED
    BY <1>1, <2>1, PlacedElements DEF Insert, walk
<1>2. ASSUME NEW r \in Rows, Update(r)
      PROVE  TypeOK'
  <2>1. PICK i \in 1 .. Len(heap), n \in 0 .. Len(heap) - 1 :
               heap' = Placed(Without(heap, i), n, r)
    BY <1>2 DEF Update
  <2>2. Without(heap, i) \in Seq(Rows) /\ Len(Without(heap, i)) = Len(heap) - 1
    BY WithoutElements
  <2> QED
    BY <1>2, <2>1, <2>2, PlacedElements DEF Update, walk
<1>3. ASSUME NEW r \in Rows, Delete(r)
      PROVE  TypeOK'
  <2>1. PICK i \in 1 .. Len(heap) : heap' = Without(heap, i)
    BY <1>3 DEF Delete
  <2> QED
    BY <1>3, <2>1, WithoutElements DEF Delete, walk
<1>4. CASE Begin
  <2>1. RowsOf(heap) \subseteq Rows
    BY ElementOfSeq, LenProperties DEF RowsOf
  <2> QED
    BY <1>4, <2>1 DEF Begin
<1>5. CASE Fetch
  <2>1. first \in Cursors /\ after \in Cursors
    BY PaginationAssumption DEF Cursors
  <2>2. /\ Edges(heap, first, after) \in Seq(Rows)
        /\ EdgeCount(heap, first, after) \in Nat
    BY <1>5, <2>1, PageElements DEF Fetch
  <2>3. got' \in Seq(Rows)
    BY <1>5, <2>2, ConcatProperties DEF Fetch
  <2>4. LastCursor(heap, first, after) \in Int
    BY <2>1, <2>2, OffsetType DEF LastCursor
  <2> QED
    BY <1>5, <2>3, <2>4 DEF Fetch
<1>6. CASE FetchFails
  BY <1>6 DEF FetchFails
<1>7. CASE UNCHANGED vars
  BY <1>7 DEF vars
<1> QED
  BY <1>1, <1>2, <1>3, <1>4, <1>5, <1>6, <1>7 DEF Next

\* The variables hold values of their types; a page never brings a missing row.
THEOREM TypeCorrect == Spec => []TypeOK
<1>1. Init => TypeOK
  BY EmptySeq DEF Init, TypeOK
<1> QED
  BY <1>1, TypeStep, PTL DEF Spec

-----------------------------------------------------------------------------
(* The walk *)

\* A cursor counts the rows received so far.
CursorCounts ==
    /\ phase = "idle" => got = <<>> /\ after = NULL
    /\ phase = "walking" => Offset(after) = Len(got)

\* A row has one live version.
RowsDistinct == \A i, j \in 1 .. Len(heap) : heap[i] = heap[j] => i = j

\* Rows behind the cursor are new to the walk.
AheadIsNew ==
    others \subseteq {"append", "delete"} /\ phase = "walking" =>
        \A i \in 1 .. Len(heap), j \in 1 .. Len(got) :
            i > Len(got) => heap[i] # got[j]

\* The rows received have different places in the list.
GotDistinct ==
    others \subseteq {"append", "delete"} =>
        \A i, j \in 1 .. Len(got) : got[i] = got[j] => i = j

\* What was received is, element by element, the front of a list that grows.
GotIsFront ==
    others \subseteq {"append"} =>
        Len(got) <= Len(heap) /\ \A j \in 1 .. Len(got) : got[j] = heap[j]

WalkInv == CursorCounts /\ RowsDistinct /\ AheadIsNew /\ GotDistinct /\ GotIsFront

LEMMA Lengths == TypeOK => /\ Len(heap) \in Nat /\ DOMAIN heap = 1 .. Len(heap)
                           /\ Len(got) \in Nat /\ DOMAIN got = 1 .. Len(got)
BY LenProperties DEF TypeOK

\* Nothing is received before the walk, and what happens in it is one of its kinds.
LEMMA IdleGot == CursorCounts /\ phase = "idle" => Len(got) = 0
BY EmptySeq DEF CursorCounts

LEMMA InsertStep ==
    ASSUME TypeOK, WalkInv, NEW r \in Rows, Insert(r)
    PROVE  WalkInv'
<1>1. PICK n \in Spots :
             /\ Happens(IF n = Len(heap) THEN "append" ELSE "fill")
             /\ heap' = Placed(heap, n, r)
  BY DEF Insert
<1>2. /\ Len(heap) \in Nat /\ Len(got) \in Nat /\ n \in 0 .. Len(heap)
      /\ \A i \in 1 .. Len(heap) : heap[i] # r
      /\ \A j \in 1 .. Len(got) : got[j] # r
  BY Lengths DEF Insert, RowsOf, Spots
<1>3. /\ Len(heap') = Len(heap) + 1
      /\ \A j \in 1 .. Len(heap) + 1 :
           heap'[j] = IF j <= n THEN heap[j] ELSE IF j = n + 1 THEN r ELSE heap[j - 1]
  BY <1>1, <1>2, PlacedElements DEF TypeOK
<1>4. UNCHANGED <<others, phase, got, after>>
  BY DEF Insert, walk
<1>5. others \subseteq {"append", "delete"} => n = Len(heap) \/ Len(got) = 0
  BY <1>1, IdleGot DEF Happens, WalkInv
<1>6. CursorCounts'
  BY <1>4 DEF WalkInv, CursorCounts, Offset
<1>7. RowsDistinct'
  BY <1>2, <1>3 DEF WalkInv, RowsDistinct
<1>8. AheadIsNew'
  BY <1>2, <1>3, <1>4, <1>5 DEF WalkInv, AheadIsNew
<1>9. GotDistinct' /\ GotIsFront'
  BY <1>2, <1>3, <1>4, <1>5 DEF WalkInv, GotDistinct, GotIsFront
<1> QED
  BY <1>6, <1>7, <1>8, <1>9 DEF WalkInv

LEMMA UpdateStep ==
    ASSUME TypeOK, WalkInv, NEW r \in Rows, Update(r)
    PROVE  WalkInv'
<1>1. PICK i \in 1 .. Len(heap), n \in 0 .. Len(heap) - 1 :
             heap[i] = r /\ heap' = Placed(Without(heap, i), n, r)
  BY Lengths DEF Update
<1> DEFINE rest == Without(heap, i)
<1>2. /\ Len(heap) \in Nat /\ Len(got) \in Nat
      /\ rest \in Seq(Rows)
      /\ Len(rest) = Len(heap) - 1
      /\ \A j \in 1 .. Len(heap) - 1 : rest[j] = IF j < i THEN heap[j] ELSE heap[j + 1]
  BY Lengths, WithoutElements DEF TypeOK
<1> HIDE DEF rest
<1>3. /\ Len(heap') = Len(heap)
      /\ \A j \in 1 .. Len(heap) :
           heap'[j] = IF j <= n THEN rest[j] ELSE IF j = n + 1 THEN r ELSE rest[j - 1]
  <2>1. n \in 0 .. Len(rest) /\ Len(rest) + 1 = Len(heap)
    BY <1>2
  <2>2. heap' = Placed(rest, n, r)
    BY <1>1 DEF rest
  <2>3. /\ Len(Placed(rest, n, r)) = Len(rest) + 1
        /\ \A j \in 1 .. Len(rest) + 1 :
             Placed(rest, n, r)[j] = IF j <= n THEN rest[j]
                                     ELSE IF j = n + 1 THEN r ELSE rest[j - 1]
    BY <1>2, <2>1, PlacedElements
  <2> QED
    BY <2>1, <2>2, <2>3
<1>4. UNCHANGED <<others, phase, got, after>>
  BY DEF Update, walk
<1>5. others \subseteq {"append", "delete"} => Len(got) = 0
  BY IdleGot DEF Update, Happens, WalkInv
<1>6. CursorCounts'
  BY <1>4 DEF WalkInv, CursorCounts, Offset
<1>7. RowsDistinct'
  <2>1. \A j, k \in 1 .. Len(heap) - 1 : rest[j] = rest[k] => j = k
    BY <1>1, <1>2 DEF WalkInv, RowsDistinct
  <2>2. \A j \in 1 .. Len(heap) - 1 : rest[j] # r
    BY <1>1, <1>2 DEF WalkInv, RowsDistinct
  <2> SUFFICES ASSUME NEW j \in 1 .. Len(heap), NEW k \in 1 .. Len(heap),
                      heap'[j] = heap'[k], j < k
               PROVE  FALSE
    BY <1>2, <1>3 DEF RowsDistinct
  <2>3. CASE k <= n
    BY <1>2, <1>3, <2>1, <2>3
  <2>4. CASE j <= n /\ k = n + 1
    BY <1>2, <1>3, <2>2, <2>4
  <2>5. CASE j <= n /\ k > n + 1
    <3>1. heap'[j] = rest[j] /\ heap'[k] = rest[k - 1]
      BY <1>2, <1>3, <2>5
    <3>2. /\ j \in 1 .. Len(heap) - 1 /\ k - 1 \in 1 .. Len(heap) - 1
          /\ rest[j] = rest[k - 1] /\ j # k - 1
      BY <1>1, <1>2, <2>5, <3>1
    <3> QED
      BY <2>1, <3>2
  <2>6. CASE j = n + 1
    <3>1. heap'[j] = r /\ heap'[k] = rest[k - 1]
      BY <1>2, <1>3, <2>6
    <3> QED
      BY <1>2, <2>2, <2>6, <3>1
  <2>7. CASE j > n + 1
    <3>1. heap'[j] = rest[j - 1] /\ heap'[k] = rest[k - 1]
      BY <1>2, <1>3, <2>7
    <3>2. /\ j - 1 \in 1 .. Len(heap) - 1 /\ k - 1 \in 1 .. Len(heap) - 1
          /\ rest[j - 1] = rest[k - 1] /\ j - 1 # k - 1
      BY <1>1, <1>2, <2>7, <3>1
    <3> QED
      BY <2>1, <3>2
  <2> QED
    BY <1>2, <2>3, <2>4, <2>5, <2>6, <2>7
<1>8. AheadIsNew' /\ GotDistinct' /\ GotIsFront'
  BY <1>2, <1>3, <1>4, <1>5 DEF AheadIsNew, GotDistinct, GotIsFront
<1> QED
  BY <1>6, <1>7, <1>8 DEF WalkInv

LEMMA DeleteStep ==
    ASSUME TypeOK, WalkInv, NEW r \in Rows, Delete(r)
    PROVE  WalkInv'
<1>1. PICK i \in 1 .. Len(heap) : heap' = Without(heap, i)
  BY Lengths DEF Delete
<1>2. /\ Len(heap) \in Nat /\ Len(got) \in Nat
      /\ Len(heap') = Len(heap) - 1
      /\ \A j \in 1 .. Len(heap) - 1 : heap'[j] = IF j < i THEN heap[j] ELSE heap[j + 1]
  BY <1>1, Lengths, WithoutElements DEF TypeOK
<1>3. UNCHANGED <<others, phase, got, after>>
  BY DEF Delete, walk
<1>4. others \subseteq {"append"} => Len(got) = 0
  BY IdleGot DEF Delete, Happens, WalkInv
<1>5. CursorCounts'
  BY <1>3 DEF WalkInv, CursorCounts, Offset
<1>6. RowsDistinct'
  BY <1>2 DEF WalkInv, RowsDistinct
<1>7. AheadIsNew'
  BY <1>2, <1>3 DEF WalkInv, AheadIsNew
<1>8. GotDistinct' /\ GotIsFront'
  BY <1>2, <1>3, <1>4 DEF WalkInv, GotDistinct, GotIsFront
<1> QED
  BY <1>5, <1>6, <1>7, <1>8 DEF WalkInv

LEMMA FetchStep ==
    ASSUME TypeOK, WalkInv, Fetch
    PROVE  WalkInv'
<1> DEFINE k == EdgeCount(heap, first, after)
           page == Edges(heap, first, after)
<1>1. first \in Cursors /\ after \in Cursors
  BY PaginationAssumption DEF Cursors, TypeOK
<1>2. /\ page \in Seq(Rows)
      /\ k \in Nat
      /\ Len(page) = k
      /\ \A j \in 1 .. k : Offset(after) + j \in 1 .. Len(heap)
                           /\ page[j] = heap[Offset(after) + j]
  BY <1>1, PageElements DEF Fetch, TypeOK
<1>3. Len(heap) \in Nat /\ Len(got) \in Nat /\ Offset(after) = Len(got) /\ phase = "walking"
  BY Lengths DEF Fetch, WalkInv, CursorCounts
<1>4. UNCHANGED <<heap, others>> /\ got' = got \o page
  BY DEF Fetch
<1>5. /\ phase' = "walking" => after' = Len(got) + k /\ after' \in Int
      /\ phase' \in {"walking", "done"}
  BY <1>2, <1>3 DEF Fetch, LastCursor
<1> HIDE DEF k, page
<1>6. /\ Len(got') = Len(got) + k
      /\ \A j \in 1 .. Len(got) + k :
           got'[j] = IF j <= Len(got) THEN got[j] ELSE page[j - Len(got)]
  BY <1>2, <1>4, ConcatProperties DEF TypeOK
<1>7. \A j \in 1 .. Len(got) + k : ~(j <= Len(got)) =>
        j \in 1 .. Len(heap) /\ got'[j] = heap[j]
  <2> SUFFICES ASSUME NEW j \in 1 .. Len(got) + k, ~(j <= Len(got))
               PROVE  j \in 1 .. Len(heap) /\ got'[j] = heap[j]
    OBVIOUS
  <2>1. j - Len(got) \in 1 .. k /\ Len(got) + (j - Len(got)) = j
    BY <1>2, <1>3
  <2> QED
    BY <1>2, <1>3, <1>6, <2>1
<1>8. CursorCounts'
  BY <1>5, <1>6 DEF CursorCounts, Offset
<1>9. RowsDistinct'
  BY <1>4 DEF WalkInv, RowsDistinct
<1>10. AheadIsNew'
  <2> SUFFICES ASSUME others \subseteq {"append", "delete"},
                      NEW i \in 1 .. Len(heap), NEW j \in 1 .. Len(got) + k,
                      i > Len(got) + k
               PROVE  heap[i] # got'[j]
    BY <1>4, <1>6 DEF AheadIsNew
  <2>1. CASE j <= Len(got)
    BY <1>2, <1>3, <1>6, <2>1 DEF WalkInv, AheadIsNew
  <2>2. CASE ~(j <= Len(got))
    BY <1>2, <1>3, <1>7, <2>2 DEF WalkInv, RowsDistinct
  <2> QED
    BY <2>1, <2>2
<1>11. GotDistinct'
  <2> SUFFICES ASSUME others \subseteq {"append", "delete"},
                      NEW i \in 1 .. Len(got) + k, NEW j \in 1 .. Len(got) + k,
                      got'[i] = got'[j]
               PROVE  i = j
    BY <1>4, <1>6 DEF GotDistinct
  <2>1. CASE i <= Len(got) /\ j <= Len(got)
    BY <1>2, <1>3, <1>6, <2>1 DEF WalkInv, GotDistinct
  <2>2. CASE i <= Len(got) /\ ~(j <= Len(got))
    BY <1>2, <1>3, <1>6, <1>7, <2>2 DEF WalkInv, AheadIsNew
  <2>3. CASE ~(i <= Len(got)) /\ j <= Len(got)
    BY <1>2, <1>3, <1>6, <1>7, <2>3 DEF WalkInv, AheadIsNew
  <2>4. CASE ~(i <= Len(got)) /\ ~(j <= Len(got))
    BY <1>2, <1>3, <1>7, <2>4 DEF WalkInv, RowsDistinct
  <2> QED
    BY <2>1, <2>2, <2>3, <2>4
<1>12. GotIsFront'
  <2> SUFFICES ASSUME others \subseteq {"append"}
               PROVE  /\ Len(got) + k <= Len(heap)
                      /\ \A j \in 1 .. Len(got) + k : got'[j] = heap[j]
    BY <1>4, <1>6 DEF GotIsFront
  <2>1. Len(got) <= Len(heap) /\ \A j \in 1 .. Len(got) : got[j] = heap[j]
    BY DEF WalkInv, GotIsFront
  <2>2. Len(got) + k <= Len(heap)
    <3>1. CASE k = 0
      BY <1>3, <2>1, <3>1
    <3>2. CASE k > 0
      BY <1>2, <1>3, <3>2
    <3> QED
      BY <1>2, <3>1, <3>2
  <2>3. \A j \in 1 .. Len(got) + k : got'[j] = heap[j]
    BY <1>2, <1>3, <1>6, <1>7, <2>1
  <2> QED
    BY <2>2, <2>3
<1> QED
  BY <1>8, <1>9, <1>10, <1>11, <1>12 DEF WalkInv

LEMMA WalkStep == TypeOK /\ WalkInv /\ [Next]_vars => WalkInv'
<1> SUFFICES ASSUME TypeOK, WalkInv, [Next]_vars
             PROVE  WalkInv'
  OBVIOUS
<1> USE DEF WalkInv, CursorCounts, RowsDistinct, AheadIsNew, GotDistinct, GotIsFront
<1>1. CASE Begin
  <2>1. Len(got) = 0
    BY <1>1, IdleGot DEF Begin
  <2>2. Offset(after) = 0
    BY <1>1, PaginationAssumption DEF Begin, Offset
  <2>3. UNCHANGED <<heap, others, got, after>> /\ phase' = "walking"
    BY <1>1 DEF Begin
  <2>4. Offset(after)' = Len(got)'
    BY <2>1, <2>2, <2>3 DEF Offset
  <2> QED
    BY <2>1, <2>3, <2>4
<1>2. CASE FetchFails
  BY <1>2 DEF FetchFails
<1>3. CASE UNCHANGED vars
  <2>1. UNCHANGED <<heap, others, phase, got, after>>
    BY <1>3 DEF vars
  <2> QED
    BY <2>1 DEF Offset
<1> QED
  BY <1>1, <1>2, <1>3, InsertStep, UpdateStep, DeleteStep, FetchStep DEF Next

LEMMA WalkInvariant == Spec => [](TypeOK /\ WalkInv)
<1>1. Init => TypeOK /\ WalkInv
  <2> SUFFICES ASSUME Init
               PROVE  TypeOK /\ WalkInv
    OBVIOUS
  <2>1. <<>> \in Seq(Rows) /\ Len(<<>>) = 0
    BY EmptySeq
  <2>2. heap = <<>> /\ got = <<>> /\ after = NULL /\ phase = "idle"
    BY DEF Init
  <2>3. TypeOK
    BY <2>1 DEF Init, TypeOK
  <2>4. Len(heap) = 0 /\ Len(got) = 0
    BY <2>1, <2>2
  <2> QED
    BY <2>2, <2>3, <2>4 DEF WalkInv, CursorCounts, RowsDistinct, AheadIsNew,
                            GotDistinct, GotIsFront
<1> QED
  BY <1>1, TypeStep, WalkStep, PTL DEF Spec

\* For a table that only grows at its end an offset is a sound cursor: a walk
\* has seen the front of the list, without gap or repetition.
THEOREM WalkIsAlwaysPrefix == Spec => []WalkIsPrefix
<1>1. TypeOK /\ WalkInv => WalkIsPrefix
  <2> SUFFICES ASSUME TypeOK, GotIsFront, others \subseteq {"append"}
               PROVE  Len(got) <= Len(heap) /\ got = SubSeq(heap, 1, Len(got))
    BY DEF WalkInv, WalkIsPrefix
  <2>1. /\ Len(heap) \in Nat /\ Len(got) \in Nat /\ Len(got) <= Len(heap)
        /\ \A j \in 1 .. Len(got) : got[j] = heap[j] /\ heap[j] \in Rows
    BY Lengths, ElementOfSeq DEF GotIsFront, TypeOK
  <2>2. /\ SubSeq(heap, 1, Len(got)) \in Seq(Rows)
        /\ Len(SubSeq(heap, 1, Len(got))) = Len(got)
        /\ \A j \in 1 .. Len(got) : SubSeq(heap, 1, Len(got))[j] = heap[j]
    BY <2>1, SubSeqProperties
  <2> QED
    BY <2>1, <2>2, SeqEqual DEF TypeOK
<1> QED
  BY <1>1, WalkInvariant, PTL

\* Rows that others append or delete never make a walk receive a row twice.
THEOREM NothingRepeats == Spec => []NoRepeats
<1>1. TypeOK /\ WalkInv => NoRepeats
  BY Lengths DEF WalkInv, GotDistinct, NoRepeats
<1> QED
  BY <1>1, WalkInvariant, PTL

\* hasNextPage tells the truth for any list, offset and page size but -1.
THEOREM NextPageAlwaysTruthful == Spec => []NextPageTruthful
<1>1. TypeOK => NextPageTruthful
  <2> SUFFICES ASSUME TypeOK,
                      NEW f \in Firsts \ {-1}, NEW a \in {NULL} \cup 0 .. Len(heap),
                      ~SqlFails(f, a)
               PROVE  HasNextPage(heap, f, a) <=> Len(heap) > LastCursor(heap, f, a)
    BY DEF NextPageTruthful
  <2> DEFINE rest == IF Offset(a) < Len(heap) THEN Len(heap) - Offset(a) ELSE 0
             count == Len(Selected(heap, f, a))
  <2>1. f \in Cursors /\ a \in Cursors
    BY PaginationAssumption, Lengths DEF Cursors
  <2>2. count = IF f = NULL THEN rest ELSE Least(f + 1, rest)
    BY <2>1, SelectedElements DEF TypeOK
  <2>3. /\ Len(heap) \in Nat
        /\ Offset(a) \in Nat /\ Offset(a) <= Len(heap)
        /\ f # NULL => f \in Nat
    BY <2>1, Lengths, PaginationAssumption DEF Offset, SqlFails, Cursors
  <2>4. EdgeCount(heap, f, a) =
          IF f = NULL \/ count <= f THEN count ELSE IF f < 0 THEN 0 ELSE f
    BY DEF EdgeCount
  <2> HIDE DEF count
  <2> QED
    BY <2>2, <2>3, <2>4 DEF HasNextPage, LastCursor, Least, count
<1> QED
  BY <1>1, TypeCorrect, PTL

-----------------------------------------------------------------------------
(* What a walk misses *)

\* Rows of the walk's beginning that deletions moved across the cursor, and
\* those that were deleted.
PassedOver ==
    {r \in base \ RowsOf(got) : \E i \in 1 .. Len(heap) : i <= Len(got) /\ heap[i] = r}
Gone == base \ RowsOf(heap)

OnlyShrinks == others \subseteq {"append", "delete"}

\* The rows of the beginning stay in front of those appended later.
BaseFirst ==
    OnlyShrinks /\ phase = "walking" =>
        \A i, j \in 1 .. Len(heap) : i < j /\ heap[j] \in base => heap[i] \in base

PassedCounted ==
    OnlyShrinks /\ phase = "walking" => Cardinality(PassedOver) <= Cardinality(Gone)

MissInv == IsFiniteSet(base) /\ BaseFirst /\ PassedCounted /\ MissesOnlyForDeletions

LEMMA RowsOfPlaces ==
    ASSUME NEW s \in Seq(Rows)
    PROVE  \A r : r \in RowsOf(s) <=> \E i \in 1 .. Len(s) : s[i] = r
BY LenProperties DEF RowsOf

LEMMA RowsOfFinite ==
    ASSUME NEW s \in Seq(Rows)
    PROVE  IsFiniteSet(RowsOf(s))
<1>1. Len(s) \in Nat /\ s \in [1 .. Len(s) -> Rows]
  BY LenProperties
<1>2. s \in [1 .. Len(s) -> RowsOf(s)]
  BY <1>1, RowsOfPlaces
<1>3. s \in Surjection(1 .. Len(s), RowsOf(s))
  BY <1>2, RowsOfPlaces, Fun_IsSurj
<1> QED
  BY <1>1, <1>3, FS_Interval, FS_Surjection

\* A count that falls stays below one that rises.
LEMMA CountsMove ==
    ASSUME NEW S, IsFiniteSet(S), NEW H \in SUBSET S, NEW G \in SUBSET H,
           NEW P \in SUBSET S, NEW Q \in SUBSET P, Cardinality(P) <= Cardinality(G)
    PROVE  Cardinality(Q) <= Cardinality(H)
<1>1. IsFiniteSet(P) /\ IsFiniteSet(H)
  BY FS_Subset
<1>2. /\ Cardinality(Q) <= Cardinality(P) /\ Cardinality(G) <= Cardinality(H)
      /\ IsFiniteSet(Q) /\ IsFiniteSet(G)
  BY <1>1, FS_Subset
<1>3. /\ Cardinality(P) \in Nat /\ Cardinality(Q) \in Nat
      /\ Cardinality(G) \in Nat /\ Cardinality(H) \in Nat
  BY <1>1, <1>2, FS_CardinalityType
<1> QED
  BY <1>2, <1>3

\* A row more on either side.
LEMMA CountsGrow ==
    ASSUME NEW S, IsFiniteSet(S), NEW G \in SUBSET S, NEW P \in SUBSET S,
           NEW r, r \notin G, NEW x, NEW Q \in SUBSET (P \cup {x}),
           Cardinality(P) <= Cardinality(G)
    PROVE  Cardinality(Q) <= Cardinality(G \cup {r})
<1>1. IsFiniteSet(P) /\ IsFiniteSet(G)
  BY FS_Subset
<1>2. Cardinality(P) \in Nat /\ Cardinality(G) \in Nat
  BY <1>1, FS_CardinalityType
<1>3. IsFiniteSet(P \cup {x}) /\ Cardinality(P \cup {x}) <= Cardinality(P) + 1
  <2>1. /\ IsFiniteSet(P \cup {x})
        /\ Cardinality(P \cup {x}) = IF x \in P THEN Cardinality(P) ELSE Cardinality(P) + 1
    BY <1>1, FS_AddElement
  <2> QED
    BY <1>2, <2>1
<1>4. Cardinality(G \cup {r}) = Cardinality(G) + 1
  BY <1>1, FS_AddElement
<1>5. Cardinality(Q) <= Cardinality(P \cup {x})
  BY <1>3, FS_Subset
<1>6. IsFiniteSet(Q)
  BY <1>3, FS_Subset
<1>7. Cardinality(Q) \in Nat /\ Cardinality(P \cup {x}) \in Nat
  BY <1>3, <1>6, FS_CardinalityType
<1> QED
  BY <1>2, <1>3, <1>4, <1>5, <1>7

\* The page after which a walk stops reaches the end of the list.
LEMMA LastPage ==
    ASSUME NEW s \in Seq(Rows), NEW f \in Cursors, NEW a \in Cursors, ~SqlFails(f, a),
           f = NULL \/ f > 0,
           ~(HasNextPage(s, f, a) /\ EdgeCount(s, f, a) > 0)
    PROVE  Len(s) <= Offset(a) + EdgeCount(s, f, a)
<1> DEFINE rest == IF Offset(a) < Len(s) THEN Len(s) - Offset(a) ELSE 0
           count == Len(Selected(s, f, a))
<1>1. count = IF f = NULL THEN rest ELSE Least(f + 1, rest)
  BY SelectedElements
<1>2. Len(s) \in Nat /\ Offset(a) \in Int /\ (f # NULL => f \in Int)
  BY LenProperties, OffsetType DEF Cursors
<1>3. EdgeCount(s, f, a) = IF f = NULL \/ count <= f THEN count ELSE IF f < 0 THEN 0 ELSE f
  BY DEF EdgeCount
<1>4. ~(count > EdgeCount(s, f, a) /\ EdgeCount(s, f, a) > 0)
  BY DEF HasNextPage
<1> HIDE DEF count
<1> QED
  BY <1>1, <1>2, <1>3, <1>4 DEF Least

LEMMA InsertMisses ==
    ASSUME TypeOK, WalkInv, MissInv, NEW r \in Rows, Insert(r)
    PROVE  MissInv'
<1>1. PICK n \in Spots :
             /\ Happens(IF n = Len(heap) THEN "append" ELSE "fill")
             /\ heap' = Placed(heap, n, r)
  BY DEF Insert
<1>2. /\ Len(heap) \in Nat /\ n \in 0 .. Len(heap) /\ r \notin base
      /\ heap \in Seq(Rows) /\ heap' \in Seq(Rows)
      /\ UNCHANGED <<others, phase, first, got, base>>
  BY Lengths, TypeStep DEF Insert, Spots, walk, TypeOK, Next
<1>3. /\ Len(heap') = Len(heap) + 1
      /\ \A j \in 1 .. Len(heap) + 1 :
           heap'[j] = IF j <= n THEN heap[j] ELSE IF j = n + 1 THEN r ELSE heap[j - 1]
  <2>1. /\ Len(Placed(heap, n, r)) = Len(heap) + 1
        /\ \A j \in 1 .. Len(heap) + 1 :
             Placed(heap, n, r)[j] = IF j <= n THEN heap[j]
                                     ELSE IF j = n + 1 THEN r ELSE heap[j - 1]
    BY <1>2, PlacedElements
  <2> QED
    BY <1>1, <2>1
<1>4. Gone' = Gone
  <2>1. \A x \in base : x \in RowsOf(heap') => x \in RowsOf(heap)
    BY <1>2, <1>3, RowsOfPlaces
  <2>2. ASSUME NEW x \in base, x \in RowsOf(heap)
        PROVE  x \in RowsOf(heap')
    <3>1. PICK j \in 1 .. Len(heap) : heap[j] = x
      BY <1>2, <2>2, RowsOfPlaces
    <3>2. \E k \in 1 .. Len(heap') : heap'[k] = x
      <4>1. CASE j <= n
        BY <1>2, <1>3, <3>1, <4>1
      <4>2. CASE ~(j <= n)
        <5>1. j + 1 \in 1 .. Len(heap) + 1 /\ ~(j + 1 <= n) /\ j + 1 # n + 1 /\ (j + 1) - 1 = j
          BY <1>2, <4>2
        <5>2. heap'[j + 1] = heap[j]
          BY <1>3, <5>1
        <5> QED
          BY <1>3, <3>1, <5>1, <5>2
      <4> QED
        BY <4>1, <4>2
    <3> QED
      BY <1>2, <3>2, RowsOfPlaces
  <2> QED
    BY <1>2, <2>1, <2>2 DEF Gone
<1>5. OnlyShrinks /\ phase = "walking" => n = Len(heap)
  BY <1>1 DEF Happens, OnlyShrinks
<1>6. BaseFirst'
  BY <1>2, <1>3, <1>5 DEF MissInv, BaseFirst, OnlyShrinks
<1>7. PassedCounted'
  <2> SUFFICES ASSUME OnlyShrinks, phase = "walking"
               PROVE  Cardinality(PassedOver') <= Cardinality(Gone)
    BY <1>2, <1>4 DEF PassedCounted, OnlyShrinks
  <2>1. PassedOver' \subseteq PassedOver
    BY <1>2, <1>3, <1>5 DEF PassedOver
  <2> QED
    BY <2>1, CountsMove DEF MissInv, PassedCounted, PassedOver, Gone
<1>8. MissesOnlyForDeletions'
  <2>1. Missed' = Missed
    BY <1>2, <1>4 DEF Missed, Gone
  <2> QED
    BY <1>2, <1>4, <2>1 DEF MissInv, MissesOnlyForDeletions, FullWalk, Gone
<1> QED
  BY <1>2, <1>6, <1>7, <1>8 DEF MissInv

LEMMA DeleteMisses ==
    ASSUME TypeOK, WalkInv, MissInv, NEW r \in Rows, Delete(r)
    PROVE  MissInv'
<1>1. PICK i \in 1 .. Len(heap) : heap[i] = r /\ heap' = Without(heap, i)
  BY Lengths DEF Delete
<1>2. /\ Len(heap) \in Nat /\ Len(got) \in Nat
      /\ heap \in Seq(Rows) /\ heap' \in Seq(Rows)
      /\ UNCHANGED <<others, phase, first, got, base>>
  BY Lengths, TypeStep DEF Delete, walk, TypeOK, Next
<1>3. /\ Len(heap') = Len(heap) - 1
      /\ \A j \in 1 .. Len(heap) - 1 : heap'[j] = IF j < i THEN heap[j] ELSE heap[j + 1]
  BY <1>1, <1>2, WithoutElements
<1>4. RowsOf(heap') \subseteq RowsOf(heap)
  BY <1>2, <1>3, RowsOfPlaces
<1>5. r \in RowsOf(heap) /\ r \notin RowsOf(heap')
  BY <1>1, <1>2, <1>3, RowsOfPlaces DEF WalkInv, RowsDistinct
<1>6. Gone \subseteq Gone' /\ (r \in base => Gone \cup {r} \subseteq Gone' /\ r \notin Gone)
  BY <1>2, <1>4, <1>5 DEF Gone
<1>7. BaseFirst'
  <2> SUFFICES ASSUME OnlyShrinks, phase = "walking",
                      NEW j \in 1 .. Len(heap) - 1, NEW k \in 1 .. Len(heap) - 1,
                      j < k, heap'[k] \in base
               PROVE  heap'[j] \in base
    BY <1>2, <1>3 DEF BaseFirst, OnlyShrinks
  <2> DEFINE was(n) == IF n < i THEN n ELSE n + 1
  <2>1. /\ was(j) \in 1 .. Len(heap) /\ was(k) \in 1 .. Len(heap) /\ was(j) < was(k)
        /\ heap'[j] = heap[was(j)] /\ heap'[k] = heap[was(k)]
    BY <1>2, <1>3
  <2> QED
    BY <2>1 DEF MissInv, BaseFirst
<1>8. PassedCounted'
  <2> SUFFICES ASSUME OnlyShrinks, phase = "walking"
               PROVE  Cardinality(PassedOver') <= Cardinality(Gone')
    BY <1>2 DEF PassedCounted, OnlyShrinks
  <2>1. Cardinality(PassedOver) <= Cardinality(Gone)
    BY DEF MissInv, PassedCounted
  <2>2. IsFiniteSet(base) /\ PassedOver \subseteq base /\ Gone \subseteq base /\ Gone' \subseteq base
    BY <1>2 DEF MissInv, PassedOver, Gone
  <2>3. CASE PassedOver' \subseteq PassedOver
    BY <1>6, <2>1, <2>2, <2>3, CountsMove
  <2>4. CASE ~(PassedOver' \subseteq PassedOver)
    <3>1. PICK x : x \in PassedOver' /\ x \notin PassedOver
      BY <2>4
    <3>2. PICK j \in 1 .. Len(heap) - 1 : j <= Len(got) /\ heap'[j] = x
      BY <1>2, <1>3, <3>1 DEF PassedOver
    <3>3. x \in base /\ x \notin RowsOf(got)
      BY <1>2, <3>1 DEF PassedOver
    <3>4. j = Len(got) /\ i <= j /\ heap[j + 1] = x
      BY <1>2, <1>3, <3>1, <3>2, <3>3 DEF PassedOver
    <3>5. r \in base
      BY <1>1, <1>2, <3>3, <3>4 DEF MissInv, BaseFirst
    <3>6. PassedOver' \subseteq PassedOver \cup {x}
      <4> SUFFICES ASSUME NEW y \in PassedOver', y \notin PassedOver
                   PROVE  y = x
        OBVIOUS
      <4>1. PICK k \in 1 .. Len(heap) - 1 : k <= Len(got) /\ heap'[k] = y
        BY <1>2, <1>3 DEF PassedOver
      <4>2. y \in base /\ y \notin RowsOf(got)
        BY <1>2 DEF PassedOver
      <4>3. k = Len(got)
        BY <1>2, <1>3, <4>1, <4>2 DEF PassedOver
      <4> QED
        BY <3>2, <3>4, <4>1, <4>3
    <3>7. Cardinality(PassedOver') <= Cardinality(Gone \cup {r})
      BY <1>6, <2>1, <2>2, <3>5, <3>6, CountsGrow
    <3>8. IsFiniteSet(Gone')
      BY <2>2, FS_Subset
    <3>9. Gone' = Gone \cup {r}
      <4>1. \A y \in Gone' : y # r => y \in Gone
        <5> SUFFICES ASSUME NEW y \in Gone', y # r, y \in RowsOf(heap)
                     PROVE  FALSE
          BY <1>2 DEF Gone
        <5>1. PICK k \in 1 .. Len(heap) : heap[k] = y
          BY <1>2, RowsOfPlaces
        <5>2. heap'[IF k < i THEN k ELSE k - 1] = y /\ (IF k < i THEN k ELSE k - 1) \in 1 .. Len(heap) - 1
          BY <1>1, <1>2, <1>3, <5>1
        <5> QED
          BY <1>2, <1>3, <5>2, RowsOfPlaces DEF Gone
      <4> QED
        BY <1>6, <3>5, <4>1
    <3> QED
      BY <3>7, <3>9
  <2> QED
    BY <2>3, <2>4
<1>9. MissesOnlyForDeletions'
  <2> SUFFICES ASSUME FullWalk, OnlyShrinks
               PROVE  Cardinality(Missed') <= Cardinality(Gone')
    BY <1>2 DEF MissesOnlyForDeletions, FullWalk, OnlyShrinks, Gone
  <2>1. Missed' \subseteq Missed /\ Missed \subseteq base /\ Gone' \subseteq base
    BY <1>2, <1>4 DEF Missed, Gone
  <2>2. Cardinality(Missed) <= Cardinality(Gone)
    BY DEF MissInv, MissesOnlyForDeletions, OnlyShrinks, Gone
  <2> QED
    BY <1>6, <2>1, <2>2, CountsMove DEF MissInv
<1> QED
  BY <1>2, <1>7, <1>8, <1>9 DEF MissInv

LEMMA FetchMisses ==
    ASSUME TypeOK, WalkInv, MissInv, Fetch
    PROVE  MissInv'
<1> DEFINE k == EdgeCount(heap, first, after)
           page == Edges(heap, first, after)
<1>1. first \in Cursors /\ after \in Cursors
  BY PaginationAssumption DEF Cursors, TypeOK
<1>2. /\ heap \in Seq(Rows) /\ got \in Seq(Rows) /\ got' \in Seq(Rows)
      /\ Len(heap) \in Nat /\ Len(got) \in Nat
      /\ Offset(after) = Len(got) /\ phase = "walking"
      /\ UNCHANGED <<heap, others, first, base>> /\ got' = got \o page
  BY Lengths, TypeStep DEF Fetch, WalkInv, CursorCounts, TypeOK, Next
<1>3. /\ page \in Seq(Rows)
      /\ k \in Nat
      /\ Len(page) = k
      /\ \A j \in 1 .. k : page[j] = heap[Len(got) + j]
  <2>1. ~SqlFails(first, after)
    BY DEF Fetch
  <2>2. /\ page \in Seq(Rows)
        /\ k \in Nat
        /\ Len(page) = k
        /\ \A j \in 1 .. k : page[j] = heap[Offset(after) + j]
    BY <1>1, <1>2, <2>1, PageElements
  <2> QED
    BY <1>2, <2>2
<1>4. phase' = "done" => ~(HasNextPage(heap, first, after) /\ k > 0)
  BY DEF Fetch
<1>5. (first = NULL \/ first > 0) /\ phase' = "done" => Len(heap) <= Len(got) + k
  BY <1>1, <1>2, <1>4, LastPage DEF Fetch
<1> HIDE DEF k, page
<1>6. /\ Len(got') = Len(got) + k
      /\ \A j \in 1 .. Len(got) + k :
           got'[j] = IF j <= Len(got) THEN got[j] ELSE page[j - Len(got)]
  BY <1>2, <1>3, ConcatProperties
<1>7. \A x : x \in RowsOf(got') <=> \E j \in 1 .. Len(got') : got'[j] = x
  BY <1>2, RowsOfPlaces
<1>8. RowsOf(got) \subseteq RowsOf(got')
  <2> SUFFICES ASSUME NEW x \in RowsOf(got)
               PROVE  x \in RowsOf(got')
    OBVIOUS
  <2>1. PICK j \in 1 .. Len(got) : got[j] = x
    BY <1>2, RowsOfPlaces
  <2>2. j \in 1 .. Len(got') /\ got'[j] = x
    BY <1>2, <1>3, <1>6, <2>1
  <2> QED
    BY <1>7, <2>2
<1>9. \A j \in 1 .. Len(heap) : j <= Len(got) + k /\ ~(j <= Len(got)) => heap[j] \in RowsOf(got')
  <2> SUFFICES ASSUME NEW j \in 1 .. Len(heap), j <= Len(got) + k, ~(j <= Len(got))
               PROVE  heap[j] \in RowsOf(got')
    OBVIOUS
  <2>1. j - Len(got) \in 1 .. k /\ Len(got) + (j - Len(got)) = j
    BY <1>2, <1>3
  <2>2. got'[j] = heap[j]
    BY <1>2, <1>3, <1>6, <2>1
  <2>3. j \in 1 .. Len(got')
    BY <1>2, <1>3, <1>6
  <2> QED
    BY <1>7, <2>2, <2>3
<1>10. PassedOver' \subseteq PassedOver
  BY <1>2, <1>6, <1>8, <1>9 DEF PassedOver
<1>11. BaseFirst' /\ UNCHANGED <<Gone, OnlyShrinks>>
  BY <1>2 DEF MissInv, BaseFirst, OnlyShrinks, Gone
<1>12. OnlyShrinks => Cardinality(PassedOver') <= Cardinality(Gone)
  <2>1. PassedOver \subseteq base /\ Gone \subseteq base
    BY DEF PassedOver, Gone
  <2> QED
    BY <1>2, <1>10, <2>1, CountsMove DEF MissInv, PassedCounted
<1>13. MissesOnlyForDeletions'
  <2> SUFFICES ASSUME phase' = "done", first = NULL \/ first > 0, OnlyShrinks
               PROVE  Cardinality(Missed') <= Cardinality(Gone)
    BY <1>2 DEF MissesOnlyForDeletions, FullWalk, OnlyShrinks, Gone
  <2>1. Missed' \subseteq PassedOver'
    <3> SUFFICES ASSUME NEW x \in Missed'
                 PROVE  x \in PassedOver'
      OBVIOUS
    <3>1. x \in base /\ x \in RowsOf(heap) /\ x \notin RowsOf(got')
      BY <1>2 DEF Missed
    <3>2. PICK j \in 1 .. Len(heap) : heap[j] = x
      BY <1>2, <3>1, RowsOfPlaces
    <3> QED
      BY <1>2, <1>3, <1>5, <1>6, <3>1, <3>2 DEF PassedOver
  <2>2. PassedOver' \subseteq base /\ IsFiniteSet(base) /\ Gone \subseteq base
    BY <1>2 DEF PassedOver, MissInv, Gone
  <2> QED
    BY <1>12, <2>1, <2>2, CountsMove
<1> QED
  BY <1>2, <1>11, <1>12, <1>13 DEF MissInv, PassedCounted

LEMMA MissStep == TypeOK /\ WalkInv /\ MissInv /\ [Next]_vars => MissInv'
<1> SUFFICES ASSUME TypeOK, WalkInv, MissInv, [Next]_vars
             PROVE  MissInv'
  OBVIOUS
<1>1. ASSUME NEW r \in Rows, Update(r)
      PROVE  MissInv'
  <2>1. UNCHANGED <<others, phase, first, got, base>>
    BY <1>1 DEF Update, walk
  <2>2. phase \in {"walking", "done"} => ~OnlyShrinks
    BY <1>1 DEF Update, Happens, OnlyShrinks
  <2> QED
    BY <2>1, <2>2 DEF MissInv, BaseFirst, PassedCounted, MissesOnlyForDeletions,
                      FullWalk, OnlyShrinks
<1>2. CASE Begin
  <2>1. /\ base' = RowsOf(heap) /\ phase' = "walking"
        /\ UNCHANGED <<heap, others, got>>
        /\ heap \in Seq(Rows) /\ Len(got) = 0
    BY <1>2, IdleGot DEF Begin, TypeOK, WalkInv
  <2>2. IsFiniteSet(base')
    BY <2>1, RowsOfFinite
  <2>3. BaseFirst'
    BY <2>1, RowsOfPlaces DEF BaseFirst
  <2>4. PassedOver' = {} /\ Gone' = {}
    BY <2>1 DEF PassedOver, Gone
  <2>5. PassedCounted' /\ MissesOnlyForDeletions'
    BY <2>1, <2>4, FS_EmptySet DEF PassedCounted, MissesOnlyForDeletions, FullWalk
  <2> QED
    BY <2>2, <2>3, <2>5 DEF MissInv
<1>3. CASE FetchFails
  BY <1>3 DEF FetchFails, MissInv, BaseFirst, PassedCounted, MissesOnlyForDeletions, FullWalk
<1>4. CASE UNCHANGED vars
  BY <1>4 DEF vars, MissInv, BaseFirst, PassedCounted, PassedOver, Gone, OnlyShrinks,
              MissesOnlyForDeletions, FullWalk, Missed
<1> QED
  BY <1>1, <1>2, <1>3, <1>4, InsertMisses, DeleteMisses, FetchMisses DEF Next

LEMMA MissInvariant == Spec => [](TypeOK /\ WalkInv /\ MissInv)
<1>1. Init => MissInv
  BY FS_EmptySet DEF Init, MissInv, BaseFirst, PassedCounted, MissesOnlyForDeletions, FullWalk
<1> QED
  BY <1>1, WalkInvariant, MissStep, PTL DEF Spec

\* A finished walk over a list that rows are only appended to and deleted from
\* has missed no more of its rows than were deleted on the way.
THEOREM MissesAreDeletions == Spec => []MissesOnlyForDeletions
BY MissInvariant, PTL DEF MissInv

\* A list that only grows keeps the rows of the beginning.
BaseStays == others \subseteq {"append"} /\ phase # "idle" => base \subseteq RowsOf(heap)

LEMMA BaseStaysStep == TypeOK /\ BaseStays /\ [Next]_vars => BaseStays'
<1> SUFFICES ASSUME TypeOK, BaseStays, [Next]_vars
             PROVE  BaseStays'
  OBVIOUS
<1>1. ASSUME NEW r \in Rows, Insert(r), others \subseteq {"append"}, phase # "idle"
      PROVE  base \subseteq RowsOf(heap')
  <2>1. heap' = Placed(heap, Len(heap), r)
    BY <1>1 DEF Insert, Spots, Happens
  <2>2. heap \in Seq(Rows) /\ heap' \in Seq(Rows) /\ Len(heap) \in Nat
    BY <1>1, Lengths, TypeStep DEF TypeOK, Next
  <2>3. /\ Len(Placed(heap, Len(heap), r)) = Len(heap) + 1
        /\ \A j \in 1 .. Len(heap) : Placed(heap, Len(heap), r)[j] = heap[j]
    <3>1. Len(heap) \in 0 .. Len(heap)
      BY <2>2
    <3>2. /\ Len(Placed(heap, Len(heap), r)) = Len(heap) + 1
          /\ \A j \in 1 .. Len(heap) + 1 :
               Placed(heap, Len(heap), r)[j] =
                 IF j <= Len(heap) THEN heap[j]
                 ELSE IF j = Len(heap) + 1 THEN r ELSE heap[j - 1]
      BY <2>2, <3>1, PlacedElements
    <3> QED
      BY <2>2, <3>2
  <2>4. Len(heap') = Len(heap) + 1 /\ \A j \in 1 .. Len(heap) : heap'[j] = heap[j]
    BY <2>1, <2>3
  <2>5. \A j \in 1 .. Len(heap) : heap[j] \in RowsOf(heap')
    BY <2>2, <2>4, RowsOfPlaces
  <2> QED
    BY <1>1, <2>2, <2>5, RowsOfPlaces DEF BaseStays
<1>2. ASSUME NEW r \in Rows, Insert(r) \/ Update(r) \/ Delete(r)
      PROVE  BaseStays'
  BY <1>1, <1>2 DEF BaseStays, Insert, Update, Delete, Happens, walk
<1>3. CASE Begin
  BY <1>3 DEF Begin, BaseStays
<1>4. CASE Fetch \/ FetchFails
  BY <1>4 DEF Fetch, FetchFails, BaseStays
<1>5. CASE UNCHANGED vars
  BY <1>5 DEF vars, BaseStays
<1> QED
  BY <1>2, <1>3, <1>4, <1>5 DEF Next

\* What the tests take for granted holds of lists that only grow: a finished
\* walk has missed nothing.
THEOREM GrowingWalkSeesAll == Spec => [](others \subseteq {"append"} => WalkSeesAll)
<1>1. Init => BaseStays
  BY DEF Init, BaseStays
<1>2. TypeOK /\ MissInv /\ BaseStays => (others \subseteq {"append"} => WalkSeesAll)
  <2> SUFFICES ASSUME MissInv, BaseStays, others \subseteq {"append"}, FullWalk
               PROVE  Missed = {}
    BY DEF WalkSeesAll
  <2>1. base \ RowsOf(heap) = {} /\ others \subseteq {"append", "delete"}
    BY DEF BaseStays, FullWalk
  <2>2. Cardinality(Missed) <= 0
    BY <2>1, FS_EmptySet DEF MissInv, MissesOnlyForDeletions
  <2>3. IsFiniteSet(Missed)
    BY FS_Subset DEF MissInv, Missed
  <2>4. Cardinality(Missed) = 0
    BY <2>2, <2>3, FS_CardinalityType
  <2> QED
    BY <2>3, <2>4, FS_EmptySet
<1> QED
  BY <1>1, <1>2, BaseStaysStep, MissInvariant, PTL DEF Spec

-----------------------------------------------------------------------------
(* Why a walk ends *)

\* How far the cursor can still move, whatever others write.
Ahead == Cardinality(Rows) - Offset(after)

\* Nothing but a page moves the cursor, and every page but the last moves it
\* forward; so a walk takes one page more than the list can hold rows, at most.
WalkShrinks ==
    [][phase = "walking" /\ phase' = "walking" =>
         Ahead' \in 0 .. Ahead /\ (Fetch => Ahead' < Ahead)]_vars

CursorInside == phase = "walking" => Offset(after) <= Cardinality(Rows)

LEMMA ListFits ==
    ASSUME IsFiniteSet(Rows), TypeOK, RowsDistinct
    PROVE  Len(heap) <= Cardinality(Rows) /\ Cardinality(Rows) \in Nat
<1>1. Len(heap) \in Nat /\ heap \in [1 .. Len(heap) -> Rows]
  BY LenProperties DEF TypeOK
<1>2. heap \in Injection(1 .. Len(heap), Rows)
  BY <1>1, Fun_IsInj DEF RowsDistinct
<1>3. Cardinality(1 .. Len(heap)) <= Cardinality(Rows)
  BY <1>2, FS_Injection
<1>4. Cardinality(1 .. Len(heap)) = Len(heap)
  BY <1>1, FS_Interval
<1> QED
  BY <1>3, <1>4, FS_CardinalityType

LEMMA PageMoves ==
    ASSUME IsFiniteSet(Rows), TypeOK, WalkInv, Fetch, phase' = "walking"
    PROVE  /\ Offset(after) \in Nat
           /\ Offset(after)' \in Nat
           /\ Offset(after)' > Offset(after)
           /\ Offset(after)' <= Cardinality(Rows)
<1> DEFINE k == EdgeCount(heap, first, after)
<1>1. /\ first \in Cursors /\ after \in Cursors /\ heap \in Seq(Rows)
      /\ ~SqlFails(first, after)
  BY PaginationAssumption DEF Cursors, TypeOK, Fetch
<1>2. k \in Nat /\ \A j \in 1 .. k : Offset(after) + j \in 1 .. Len(heap)
  BY <1>1, PageElements
<1>3. k > 0 /\ after' = Offset(after) + k
  BY DEF Fetch, LastCursor
<1>4. Offset(after) = Len(got) /\ Len(got) \in Nat
  BY Lengths DEF Fetch, WalkInv, CursorCounts
<1> HIDE DEF k
<1>5. Offset(after)' = Offset(after) + k
  BY <1>2, <1>3, <1>4 DEF Offset
<1>6. Offset(after) + k \in 1 .. Len(heap) /\ Len(heap) \in Nat
  BY <1>2, <1>3, Lengths
<1> QED
  BY <1>2, <1>3, <1>4, <1>5, <1>6, ListFits DEF WalkInv

LEMMA CursorStep ==
    ASSUME IsFiniteSet(Rows)
    PROVE  TypeOK /\ WalkInv /\ CursorInside /\ [Next]_vars => CursorInside'
<1> SUFFICES ASSUME TypeOK, WalkInv, CursorInside, [Next]_vars, phase' = "walking"
             PROVE  Offset(after)' <= Cardinality(Rows)
  BY DEF CursorInside
<1>1. CASE Fetch
  BY <1>1, PageMoves
<1>2. CASE Begin
  BY <1>2, PaginationAssumption, FS_CardinalityType DEF Begin, Offset, WalkInv, CursorCounts
<1>3. ASSUME NEW r \in Rows, Insert(r) \/ Update(r) \/ Delete(r)
      PROVE  UNCHANGED <<phase, after>>
  BY <1>3 DEF Insert, Update, Delete, walk
<1> QED
  BY <1>1, <1>2, <1>3 DEF Next, FetchFails, vars, CursorInside, Offset

\* The safety half of WalkEnds, for any kinds of writes.
THEOREM WalksShrink == ASSUME IsFiniteSet(Rows) PROVE Spec => WalkShrinks
<1>1. Init => CursorInside
  BY DEF Init, CursorInside
<1>2. TypeOK /\ WalkInv /\ CursorInside /\ [Next]_vars =>
        [phase = "walking" /\ phase' = "walking" =>
           Ahead' \in 0 .. Ahead /\ (Fetch => Ahead' < Ahead)]_vars
  <2> SUFFICES ASSUME TypeOK, WalkInv, CursorInside, Next,
                      phase = "walking", phase' = "walking"
               PROVE  Ahead' \in 0 .. Ahead /\ (Fetch => Ahead' < Ahead)
    OBVIOUS
  <2>1. Cardinality(Rows) \in Nat
    BY FS_CardinalityType
  <2>2. Offset(after) \in Nat /\ Offset(after) <= Cardinality(Rows)
    BY Lengths DEF WalkInv, CursorCounts, CursorInside
  <2>3. CASE Fetch
    BY <2>1, <2>2, <2>3, PageMoves DEF Ahead
  <2>4. CASE ~Fetch
    <3>1. after' = after
      BY <2>4 DEF Next, Begin, FetchFails, Insert, Update, Delete, walk
    <3> QED
      BY <2>1, <2>2, <2>4, <3>1 DEF Ahead, Offset
  <2> QED
    BY <2>3, <2>4
<1> QED
  BY <1>1, <1>2, CursorStep, WalkInvariant, PTL DEF Spec, WalkShrinks
=============================================================================
