------------------------------- MODULE Paging -------------------------------
(***************************************************************************)
(* The page arithmetic of the CQS query side: QueryHandlerPaggedLinqBase,  *)
(* LinqProvider.ApplyPaging and the DataAnnotations of QueryPaggedBase.    *)
(* Pure operators, shared by the server's and the client's modules.        *)
(***************************************************************************)
EXTENDS Integers

\* Constants.PageSizeNoPagging
PageSizeNoPagging == 0

MaxPageSize == 1000

AtMost(a, b) == IF a <= b THEN a ELSE b

AtLeast(a, b) == IF a >= b THEN a ELSE b

\* The [Range] attributes that ValidationQueryHandlerDecorator checks before
\* the query is handled; a query that breaks them never reaches the handler.
ValidQuery(size, page) ==
  /\ size \in PageSizeNoPagging .. MaxPageSize
  /\ page >= 1

HasPaging(size) == size > PageSizeNoPagging

CalculateTotalPages(records, size) ==
  IF size = PageSizeNoPagging
  THEN IF records = 0 THEN 0 ELSE 1
  ELSE (records \div size) + (IF records % size > 0 THEN 1 ELSE 0)

\* The page really served: the requested one brought into 1 .. total pages,
\* and 0 when there is nothing to serve.
CalculateAcquiredPageNumber(records, size, page) ==
  IF records = 0 THEN 0
  ELSE AtMost(CalculateTotalPages(records, size), AtLeast(1, page))

\* Skip((pageNumber - 1) * pageSize).Take(pageSize) over records 1 .. records:
\* Skip ignores a negative count, Take stops at the end.
ApplyPaging(records, size, page) ==
  {i \in 1 .. records : /\ i > (page - 1) * size
                        /\ i <= AtLeast(0, (page - 1) * size) + size}

=============================================================================
