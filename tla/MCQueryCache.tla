---------------------------- MODULE MCQueryCache ----------------------------
(* Small instances of QueryCache for TLC. *)
EXTENDS QueryCache, TLC

SomeTokens ==
  {"_", ",", " DSC", "", "EMPTY", "unfiltered", "unsorted", "And", "Or",
   "Eq", "Name", "City", "x", "y", "1", "2", "10"}

Is(field, criterion) ==
  [Field |-> <<field>>, Predicate |-> "Eq", Criterion |-> criterion,
   IgnoreCase |-> FALSE]

ByName == <<[Field |-> <<"Name">>, Desc |-> FALSE]>>

Query(number, rule, descriptors) ==
  [paged |-> TRUE, size |-> "10", number |-> number,
   filter |-> [rule |-> rule, descriptors |-> descriptors],
   sorting |-> ByName, total |-> TRUE,
   type |-> "PersonsQuery", result |-> "Persons"]

BothAreX == <<Is("Name", <<"x">>), Is("City", <<"x">>)>>

\* Two descriptors combined by And and by Or, the first of them in two result
\* types too, and a query without a key.
SomeQueries ==
  {Query("1", "And", BothAreX), Query("1", "Or", BothAreX),
   [Query("1", "And", BothAreX) EXCEPT !.result = "Customers"],
   [Query("1", "And", <<>>) EXCEPT !.paged = FALSE]}

\* One page with its total and without.
TotalOrNot ==
  {[Query("1", "And", <<>>) EXCEPT !.total = total] : total \in BOOLEAN}

\* One page of two classes of queries.
TwoTypes ==
  {[Query("1", "And", <<>>) EXCEPT !.type = type] :
     type \in {"PersonsQuery", "CustomersQuery"}}

\* Filters with one description: null and the text EMPTY; a text with its case
\* and without; the text x_And_City_Eq_y, and two descriptors.
NullOrEmpty ==
  {Query("1", "And", <<Is("Name", c)>>) : c \in {None, <<"EMPTY">>}}

IgnoreOrNot ==
  {Query("1", "And", <<[Is("Name", <<"x">>) EXCEPT !.IgnoreCase = ignore]>>) :
     ignore \in BOOLEAN}

OneTextOrTwo ==
  {Query("1", "And", <<Is("Name", <<"x">>), Is("City", <<"y">>)>>),
   Query("1", "And",
         <<Is("Name", <<"x", "_", "And", "_", "City", "_", "Eq", "_", "y">>)>>)}
=============================================================================
