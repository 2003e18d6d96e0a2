----------------------------- MODULE Filtering -----------------------------
(***************************************************************************)
(* One FilteringCollection, visited by the two providers: LinqProvider     *)
(* builds a predicate over objects, SqlProvider the text of a where clause *)
(* that a server reads.  The field is a text or null; numbers, booleans,   *)
(* the order predicates and IgnoreCase are left out, and so is a criterion *)
(* that is null, for which Quote writes a literal of its own.              *)
(***************************************************************************)
EXTENDS Integers, Sequences

CONSTANTS
  Rows,      \* the values the field has, one per record
  Filters,   \* the collections: their descriptors
  Null

Masks == {"Contains", "StartsWith", "EndsWith"}
Predicates == Masks \cup {"Eq", "Neq", "Null", "NotNull"}
Rules == {"And", "Or"}

\* A letter, the two wildcards of like, the escape symbol and the quote.
Chars == {"a", "%", "_", "!", "quote"}
Prohibited == {"%", "_"}
Texts == Seq(Chars)

ASSUME FilteringAssumption ==
  /\ Rows \subseteq Texts \cup {Null}
  /\ Filters \subseteq Seq([Predicate : Predicates, Criterion : Texts])
  /\ Null \notin Texts

VARIABLES
  filtering,  \* the descriptors
  rule,       \* CombiningRule
  visited,    \* how many descriptors the providers have visited
  linq,       \* the rows LinqProvider's expression selects
  bld         \* SqlProvider's text: per descriptor its predicate, the literal
              \* and whether an escape clause follows

filterVars == <<filtering, rule, visited, linq, bld>>

FilterTypeOK ==
  /\ filtering \in Filters
  /\ rule \in Rules
  /\ visited \in 0 .. Len(filtering)
  /\ linq \subseteq Rows
  /\ bld \in Seq([pred : {"like", "=", "<>", "is null", "is not null"},
                  literal : Texts, escape : BOOLEAN])

FilterInit ==
  /\ filtering \in Filters
  /\ rule \in Rules
  /\ visited = 0
  /\ linq = {}
  /\ bld = <<>>

\* step is taken with one symbol of s after the other.
Folded(s, start, step) ==
  LET r[i \in 0 .. Len(s)] == IF i = 0 THEN start ELSE step[s[i]][r[i - 1]]
  IN r[Len(s)]

-----------------------------------------------------------------------------
(* LinqProvider.                                                           *)

\* Coalesce(member, EmptyStr).
Text(v) == IF v = Null THEN <<>> ELSE v

\* c is a part of v, after its first i symbols.
Occurs(c, v, i) ==
  /\ i \in 0 .. Len(v) - Len(c)
  /\ \A k \in DOMAIN c : v[i + k] = c[k]

\* The predicates Null and NotNull compare with the criterion, whatever it is.
LinqSelects(f, v) ==
  CASE f.Predicate \in {"Eq", "Null"} -> v = f.Criterion
    [] f.Predicate \in {"Neq", "NotNull"} -> v # f.Criterion
    [] f.Predicate = "Contains" -> \E i \in 0 .. Len(Text(v)) : Occurs(f.Criterion, Text(v), i)
    [] f.Predicate = "StartsWith" -> Occurs(f.Criterion, Text(v), 0)
    [] f.Predicate = "EndsWith" ->
         Occurs(f.Criterion, Text(v), Len(Text(v)) - Len(f.Criterion))

\* Expression.OrElse or Expression.AndAlso.
Combine(S, T) == IF rule = "Or" THEN S \cup T ELSE S \cap T

-----------------------------------------------------------------------------
(* SqlProvider.                                                            *)

Escapes(c, pred) == pred \in Masks /\ \E i \in DOMAIN c : c[i] \in Prohibited

\* What becomes of a symbol, if those in special are escaped.
Cleaned(x, special) ==
  IF x = "quote" THEN <<"quote", "quote">>
  ELSE IF x \in special THEN <<"!", x>>
  ELSE <<x>>

Cleaning(special) ==
  [x \in Chars |-> [t \in Texts |-> t \o Cleaned(x, special)]]

\* Slip: the escape symbol itself is not escaped.
CleanWildcardsOnly(c, pred) ==
  Folded(c, <<>>, Cleaning(IF Escapes(c, pred) THEN Prohibited ELSE {}))

\* SqlCleanString: quotes are doubled; if there is a wildcard, wildcards and
\* escape symbols are escaped.
SqlCleanString(c, pred) ==
  Folded(c, <<>>, Cleaning(IF Escapes(c, pred) THEN Prohibited \cup {"!"} ELSE {}))

\* Quote: what is between the outer quotes.
Quote(c, pred) ==
  (IF pred \in {"Contains", "EndsWith"} THEN <<"%">> ELSE <<>>)
    \o SqlCleanString(c, pred)
    \o (IF pred \in {"Contains", "StartsWith"} THEN <<"%">> ELSE <<>>)

\* GetSqlPredicate
SqlPredicate(pred) ==
  CASE pred \in Masks -> "like"
    [] pred = "Eq" -> "="
    [] pred = "Neq" -> "<>"
    [] pred = "Null" -> "is null"
    [] pred = "NotNull" -> "is not null"

-----------------------------------------------------------------------------
(* Both visitors go on to the next descriptor.                             *)

Visit ==
  LET f == filtering[visited + 1]
      S == {v \in Rows : LinqSelects(f, v)}
      has == f.Predicate \notin {"Null", "NotNull"}
  IN /\ visited < Len(filtering)
     /\ visited' = visited + 1
     /\ linq' = IF visited = 0 THEN S ELSE Combine(linq, S)
     /\ bld' = Append(bld, [pred |-> SqlPredicate(f.Predicate),
                            literal |-> IF has THEN Quote(f.Criterion, f.Predicate) ELSE <<>>,
                            escape |-> has /\ Escapes(f.Criterion, f.Predicate)])
     /\ UNCHANGED <<filtering, rule>>

FilterNext == Visit

FilterSpec == FilterInit /\ [][FilterNext]_filterVars

-----------------------------------------------------------------------------
(* How a server reads the clause.                                          *)

\* A literal: two quotes are one, and a single one ends it.
Readings == [out : Texts, mode : {"text", "quote", "ended"}]

Reading ==
  [x \in Chars |-> [r \in Readings |->
     IF r.mode = "text" /\ x = "quote" THEN [r EXCEPT !.mode = "quote"]
     ELSE IF r.mode = "text" \/ (r.mode = "quote" /\ x = "quote")
     THEN [out |-> Append(r.out, x), mode |-> "text"]
     ELSE [r EXCEPT !.mode = "ended"]]]

Literal(s) ==
  LET r == Folded(s, [out |-> <<>>, mode |-> "text"], Reading)
  IN IF r.mode = "text" THEN r.out ELSE <<"broken">>

\* How much of v the pattern may have taken, after each of its symbols.
Matches(v) == [at : SUBSET (0 .. Len(v)), escaped : BOOLEAN]

Matching(v, escape) ==
  [x \in Chars |-> [m \in Matches(v) |->
     IF escape /\ x = "!" /\ ~m.escaped THEN [m EXCEPT !.escaped = TRUE]
     ELSE [at |-> {j \in 0 .. Len(v) :
                     IF x = "%" /\ ~m.escaped THEN \E i \in m.at : i <= j
                     ELSE /\ j - 1 \in m.at
                          /\ v[j] = x \/ (x = "_" /\ ~m.escaped)},
           escaped |-> FALSE]]]

\* v like p [escape '!'].
Like(v, p, escape) ==
  LET m == Folded(p, [at |-> {0}, escaped |-> FALSE], Matching(v, escape))
  IN Len(v) \in m.at /\ ~m.escaped

\* A comparison with null is not true.
SqlSelects(b, v) ==
  CASE b.pred = "is null" -> v = Null
    [] b.pred = "is not null" -> v # Null
    [] b.pred = "=" -> v = Literal(b.literal)
    [] b.pred = "<>" -> v # Null /\ v # Literal(b.literal)
    [] b.pred = "like" -> v # Null /\ Like(v, Literal(b.literal), b.escape)

SqlRows ==
  {v \in Rows : IF rule = "Or" THEN \E k \in DOMAIN bld : SqlSelects(bld[k], v)
                               ELSE \A k \in DOMAIN bld : SqlSelects(bld[k], v)}

-----------------------------------------------------------------------------
(* Properties.                                                             *)

AsksForNull(k) == filtering[k].Predicate \in {"Null", "NotNull"}

\* Of the records whose field has a text the two providers select the same:
\* the text of the user is searched for as it is, wildcards, escape symbols
\* and quotes included, and descriptors are combined alike.
SameRows ==
  visited > 0 /\ (\A k \in 1 .. visited : ~AsksForNull(k)) =>
    linq \ {Null} = SqlRows \ {Null}

\* "Null, //== null" and "NotNull, //!= null": the records a first descriptor
\* with one of them selects.  Refuted for LinqProvider, if it has a criterion.
NullMeansNull ==
  visited = 1 /\ AsksForNull(1) =>
    linq = {v \in Rows : (v = Null) <=> (filtering[1].Predicate = "Null")}
=============================================================================
