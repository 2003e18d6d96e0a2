--------------------------- MODULE MCPaginalList ---------------------------
(* Small instances of PaginalList for TLC. *)
EXTENDS PaginalList, TLC

CONSTANTS Short, Hit, Miss

\* Three items in all: two pages of two.  One text matches one of them, one
\* matches none, and one is too short to be sent.
SearchTexts == {NoText, Short, Hit, Miss}

SearchSearchable == {Hit, Miss}

SearchRecords == (NoText :> 3) @@ (Short :> 3) @@ (Hit :> 1) @@ (Miss :> 0)

\* Five items: three pages of two or two of three; a text that matches none.
PagerTexts == {NoText, Miss}

PagerSearchable == {Miss}

PagerRecords == (NoText :> 5) @@ (Miss :> 0)

\* A variable without a single category.
EmptyRecords == [t \in PagerTexts |-> 0]

SlotSymmetry == Permutations(Slots)
=============================================================================
