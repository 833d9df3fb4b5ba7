------------------------------- MODULE Paging -------------------------------
(***************************************************************************)
(* The pages of a kit's media and of its aggregate measurements (cursors.rs *)
(* and the page functions of models/media.rs and models/measurement.rs,    *)
(* which differ in the table and its filters only).  Rows are listed from  *)
(* the latest on; rows of the same time are told apart by their id; the    *)
(* cursor is the time and the id of the last row of the page before.       *)
(***************************************************************************)
EXTENDS Integers, FiniteSets, Sequences

CONSTANTS
    Rows,       \* rows the table may ever hold
    Time, Id,   \* time and id of each row
    PerPage,    \* rows on a page (50)
    NoRow       \* no cursor

ASSUME PagingAssumption ==
    /\ IsFiniteSet(Rows)
    /\ Time \in [Rows -> Nat] /\ Id \in [Rows -> Nat]
    /\ \A r, s \in Rows : Id[r] = Id[s] => r = s
    /\ PerPage \in Nat \ {0}
    /\ NoRow \notin Rows

\* Mutants: rows of the cursor's own time are lost, or listed again.
EarlierOnly(r, s) == Time[r] < Time[s]
NotLater(r, s) == Time[r] < Time[s] \/ (Time[r] = Time[s] /\ Id[r] <= Id[s])

\* The row r comes after the row s in the listing.
Below(r, s) == Time[r] < Time[s] \/ (Time[r] = Time[s] /\ Id[r] < Id[s])

\* ORDER BY time DESC, id DESC: the row r is listed before the row s.
Later(r, s) == Time[r] > Time[s] \/ (Time[r] = Time[s] /\ Id[r] > Id[s])

\* The rows below the cursor, if there is one.
Rest(T, cursor) == {r \in T : cursor # NoRow => Below(r, cursor)}

\* The rows of S that are listed before the row r.
Before(r, S) == {s \in S : Later(s, r)}

\* LIMIT PerPage: the i-th row of a page is the one that i - 1 are before.
Page(T, cursor) ==
    LET rest == Rest(T, cursor)
        size == Cardinality(rest)
    IN  [i \in 1..(IF size < PerPage THEN size ELSE PerPage) |->
            CHOOSE r \in rest : Cardinality(Before(r, rest)) = i - 1]

\* next_from_page: a full page is followed by another, that may be empty.
NextCursor(page) == IF Len(page) >= PerPage THEN page[Len(page)] ELSE NoRow
=============================================================================
