-------------------------- MODULE MCListSelection --------------------------
(* Small instances of ListSelection for TLC. *)
EXTENDS ListSelection

\* A first page that starts with the exclusive [All], and a shorter last page.
TwoPages ==
  {[count |-> 4, exclusive |-> {0}, selected |-> {}],
   [count |-> 2, exclusive |-> {}, selected |-> {}]}

\* A page rendered by the server with an item selected.
OnePage == {[count |-> 3, exclusive |-> {0, 2}, selected |-> {1}]}

Setup(multi, paging, pages) ==
  [multiSelect |-> multi, pagingOn |-> paging, pages |-> pages]

AllSetups ==
  {Setup(TRUE, TRUE, TwoPages), Setup(FALSE, TRUE, TwoPages),
   Setup(TRUE, FALSE, OnePage), Setup(FALSE, FALSE, OnePage)}

OnlyMulti == {Setup(TRUE, TRUE, OnePage)}

OnlySingle == {Setup(FALSE, FALSE, OnePage)}
=============================================================================
