---------------------------- MODULE PageService ----------------------------
(***************************************************************************)
(* The server's side of a list: the paged query handler over a LINQ        *)
(* source, the data provider that turns its page into list items, and the  *)
(* PagedListConfigModel that keeps the page shown.  Records are numbered   *)
(* in the order of the query.                                              *)
(***************************************************************************)
EXTENDS Paging, Sequences, FiniteSets

CONSTANTS
  IntMax,      \* the largest int; 2^31 - 1 in the program
  Matching,    \* how many records a filter may find
  Sizes,       \* page sizes asked for
  All,         \* the item [All]
  AddAll,      \* the provider and the controller add it
  Ids,         \* sets of items the host selects
  Exception

ASSUME PageServiceAssumption ==
  /\ IntMax \in Nat \ {0}
  /\ Matching \subseteq 0 .. IntMax
  /\ Sizes \subseteq 0 .. IntMax
  /\ AddAll \in BOOLEAN
  /\ All \notin Nat

Pages == 1 .. IntMax

VARIABLES
  query,    \* the query handled last, with the records that match it
  answer,   \* the handler's DataPage, or an exception
  model     \* PagedListConfigModel: items, page, pages, records, selected

vars == <<query, answer, model>>

Queries == [size : Sizes, page : Pages \cup {0}, total : BOOLEAN, matching : Matching]

NoQuery == [size |-> 0, page |-> 1, total |-> TRUE, matching |-> 0]

TypeOK ==
  /\ query \in Queries \cup {NoQuery}
  /\ answer # Exception =>
       /\ answer.data \subseteq 1 .. IntMax
       /\ {answer.records, answer.pages, answer.page} \subseteq 0 .. IntMax
  /\ {model.page, model.pages, model.records} \subseteq 0 .. IntMax + 1
  /\ model.items \in Seq(Nat \cup {All})
  /\ model.selected \subseteq Nat \cup {All}

NoPage == [data |-> {}, records |-> 0, pages |-> 0, page |-> 0]

\* The constructor with a model id.
Init ==
  /\ query = NoQuery
  /\ answer = NoPage
  /\ model = [items |-> <<>>, page |-> 1, pages |-> 1, records |-> 0, selected |-> {}]

-----------------------------------------------------------------------------
(* The handler.                                                            *)

\* Unchecked arithmetic: an int has one of 2 * (IntMax + 1) values.
Wrap(x) == ((x + IntMax + 1) % (2 * (IntMax + 1))) - IntMax - 1

Skip(size, page) == Wrap((page - 1) * size)

\* LinqProvider.ApplyPaging: Skip passes over nothing when its count is negative.
Slice(records, size, page) ==
  LET skipped == AtLeast(0, Skip(size, page))
  IN {i \in 1 .. records : skipped < i /\ i <= skipped + size}

\* Count and what follows from it, if the total is wanted.
Counted(q, n) == IF q.total THEN n ELSE 0

\* The DataPage that serves page n of the records.
Page(q, n) ==
  [data    |-> IF HasPaging(q.size) THEN Slice(q.matching, q.size, n) ELSE 1 .. q.matching,
   records |-> Counted(q, q.matching),
   pages   |-> Counted(q, CalculateTotalPages(q.matching, q.size)),
   page    |-> Counted(q, CalculateAcquiredPageNumber(q.matching, q.size, q.page))]

\* Slip: the page asked for is taken, not the one calculated.
BuildQueryAsAsked(q) == Page(q, q.page)

\* BuildQuery
BuildQuery(q) ==
  Page(q, IF q.total THEN CalculateAcquiredPageNumber(q.matching, q.size, q.page)
                     ELSE q.page)

\* ValidationQueryHandlerDecorator around the handler.
Answer(q) == IF ValidQuery(q.size, q.page) THEN BuildQuery(q) ELSE Exception

\* A handler asked by some other client of the library.
Ask(q) ==
  /\ query' = q
  /\ answer' = Answer(q)
  /\ UNCHANGED model

-----------------------------------------------------------------------------
(* The list's model.                                                       *)

Sorted(S) == [i \in 1 .. Cardinality(S) |->
                CHOOSE x \in S : Cardinality({y \in S : y <= x}) = i]

\* PagedListDataProviderBase.FetchPage: static items are added to the page
\* that was asked for as the first.
PageItems(q, data) ==
  (IF AddAll /\ q.page = 1 THEN <<All>> ELSE <<>>) \o Sorted(data)

\* Slip: an [All] that is already there is not looked for.
WithAllTwice(items, page) ==
  IF AddAll /\ Len(items) > 1 /\ page = 1 THEN <<All>> \o items ELSE items

\* Another [All], on the page that was served as the first.
WithAll(items, page) ==
  IF AddAll /\ Len(items) > 1 /\ items[1] # All /\ page = 1
  THEN <<All>> \o items ELSE items

SetItems(items, page, pages, records) ==
  [items    |-> WithAll(items, page),
   page     |-> page,
   pages    |-> pages,
   records  |-> IF records = 0 THEN Len(items) ELSE records,
   selected |-> {}]

\* FetchPageHelper: FetchPage and MergePage.  The provider's query always
\* wants the total.
FetchPage(q) ==
  /\ q.total
  /\ query' = q
  /\ answer' = Answer(q)
  /\ model' = IF answer' = Exception THEN model
              ELSE SetItems(PageItems(q, answer'.data),
                            answer'.page, answer'.pages, answer'.records)

Items == {model.items[i] : i \in 1 .. Len(model.items)}

\* Select(ids): sets the flag of every item, so that ids of other pages are
\* passed over.
Select(ids) ==
  /\ model' = [model EXCEPT !.selected = ids \cap Items]
  /\ UNCHANGED <<query, answer>>

\* ClearData; Pagging keeps describing what was there.
ClearData ==
  /\ model' = [model EXCEPT !.items = <<>>, !.selected = {}]
  /\ UNCHANGED <<query, answer>>

SetEmptyPageOfVariables ==
  /\ model' = [items |-> <<>>, page |-> 1, pages |-> 0, records |-> 0, selected |-> {}]
  /\ UNCHANGED <<query, answer>>

Next ==
  \/ \E q \in Queries : Ask(q) \/ FetchPage(q)
  \/ \E ids \in Ids : Select(ids)
  \/ ClearData
  \/ SetEmptyPageOfVariables

Spec == Init /\ [][Next]_vars

-----------------------------------------------------------------------------
(* Properties.                                                             *)

\* The records of page n, as the user counts them.
OnPage(records, size, n) ==
  {r \in 1 .. records : IF size = 0 THEN TRUE ELSE (r - 1) \div size = n - 1}

\* Whatever page is asked for, the page said to be served is the one whose
\* records are served, the product under Skip never overflows, no page but the
\* first is empty and the pages are as many as the records need.
ServedAsSaid ==
  answer # Exception /\ query.total =>
    /\ answer.data = OnPage(query.matching, query.size, answer.page)
    /\ answer.records = query.matching
    /\ answer.data = {} <=> query.matching = 0
    /\ answer.page <= answer.pages
    /\ OnPage(query.matching, query.size, answer.pages + 1) = {} \/ query.size = 0

\* Without the total the page served is the page asked for.  Refuted: the
\* product overflows, and the page served is an earlier one.
ServedAsAsked ==
  answer # Exception /\ ~query.total =>
    answer.data = OnPage(query.matching, query.size, query.page)

\* [All] comes from the static items or from the model or from both, and is
\* one item, at the top, of a first page.  Of several records the first page
\* has it by whatever request it came to be served, a request for a page beyond
\* the last one too, and even if it shows one record alone.
OneAllOnFirstPage ==
  /\ \A i \in 1 .. Len(model.items) :
       model.items[i] = All => i = 1 /\ AddAll /\ model.page <= 1
  /\ AddAll /\ model.page = 1 /\ model.records > 1 /\ model.items # <<>> =>
       model.items[1] = All

\* The same of any number of records.  Refuted: a single record comes with
\* [All] if page 1 was asked for, and without it if a later page was.
FirstPageHasAll ==
  AddAll /\ model.page = 1 /\ model.items # <<>> => model.items[1] = All
=============================================================================
