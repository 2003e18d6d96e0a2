----------------------------- MODULE QueryCache -----------------------------
(***************************************************************************)
(* CacheQueryHandlerDecorator: threads that ask queries through one shared *)
(* cache, looked up before and after the lock.  The cache may lose an      *)
(* entry at any time: it expires, is removed or is evicted.                *)
(*                                                                         *)
(* The key is a text that is put together from the query's parts.  A text  *)
(* is the sequence of its tokens: words, and the separators that the code  *)
(* puts between them, which a user may type as well.  What is not          *)
(* descending ends with an empty token, as the text "unsorted" does.       *)
(*                                                                         *)
(* An answer is represented by the query the handler computed it for.      *)
(***************************************************************************)
EXTENDS Naturals, FiniteSets, Sequences

CONSTANTS
  Threads,
  Queries,  \* paged (else no key), size and number of the page, filter,
            \* sorting, total, type (the query's class), result (its result's)
  Tokens,   \* what texts are made of
  Exception,
  None      \* also a criterion that is null

CombiningFilters == {"And", "Or"}

FilteringDescriptor ==
  [Field : Seq(Tokens), Predicate : Tokens, Criterion : Seq(Tokens) \cup {None},
   IgnoreCase : BOOLEAN]

FilteringCollection ==
  [rule : CombiningFilters, descriptors : Seq(FilteringDescriptor)]

SortingDescriptor == [Field : Seq(Tokens), Desc : BOOLEAN]

ASSUME QueryCacheAssumption ==
  /\ {"_", ",", " DSC", "", "EMPTY", "unfiltered", "unsorted"} \subseteq Tokens
  /\ CombiningFilters \subseteq Tokens
  /\ \A q \in Queries :
       /\ DOMAIN q = {"paged", "size", "number", "filter", "sorting", "total",
                      "type", "result"}
       /\ {q.paged, q.total} \subseteq BOOLEAN
       /\ {q.size, q.number} \subseteq Tokens
       /\ q.filter \in FilteringCollection
       /\ q.sorting \in Seq(SortingDescriptor)
  /\ None \notin Queries \cup Threads \cup {Exception}
  /\ None \notin Seq(Tokens)
  /\ Exception \notin Queries

-----------------------------------------------------------------------------
(* The key.                                                                *)

\* What both collections' GetDescription append to the builder.
Listed(texts, separator) ==
  LET bld[i \in 0 .. Len(texts)] ==
        IF i = 0 THEN <<>>
        ELSE bld[i - 1] \o (IF i > 1 THEN separator ELSE <<>>) \o texts[i]
  IN bld[Len(texts)]

\* A null criterion is described as EMPTY, any other as it is, whatever its
\* tokens; IgnoreCase is not described.
Described(c) == IF c = None THEN <<"EMPTY">> ELSE c

FilteringText(d) == d.Field \o <<"_", d.Predicate, "_">> \o Described(d.Criterion)

\* Slip: whatever the combining rule is, the descriptors are joined by And.
FilteringDescriptionRuleless(f) ==
  IF f.descriptors = <<>> THEN <<"unfiltered">>
  ELSE Listed([i \in DOMAIN f.descriptors |-> FilteringText(f.descriptors[i])],
              <<"_", "And", "_">>)

FilteringDescription(f) ==
  IF f.descriptors = <<>> THEN <<"unfiltered">>
  ELSE Listed([i \in DOMAIN f.descriptors |-> FilteringText(f.descriptors[i])],
              <<"_", f.rule, "_">>)

SortingText(c) == c.Field \o <<IF c.Desc THEN " DSC" ELSE "">>

SortingDescription(s) ==
  IF s = <<>> THEN <<"unsorted", "">>
  ELSE Listed([i \in DOMAIN s |-> SortingText(s[i])], <<",">>)

\* CacheKey: null in QueryBase.  QueryPaggedBase mentions neither
\* ReturnTotalRecods nor the types.
CacheKey(q) ==
  IF ~q.paged THEN None
  ELSE <<q.size, "_", q.number, "_">> \o FilteringDescription(q.filter)
         \o <<"_">> \o SortingDescription(q.sorting)

Keys == {CacheKey(q) : q \in Queries} \ {None}

VARIABLES
  cache,    \* per key, the answer the cache has
  owner,    \* the thread in lock (_cache)
  pc,       \* where each thread is
  asked,    \* the query it handles
  answer,   \* how its call ended: an answer or an exception
  fetched   \* how often the present entry of a key was computed; history

cacheVars == <<cache, owner, pc, asked, answer, fetched>>

Inside == {"first", "waiting", "second", "fetching", "direct"}

CacheTypeOK ==
  /\ cache \in [Keys -> Queries \cup {None}]
  /\ owner \in Threads \cup {None}
  /\ pc \in [Threads -> {"idle"} \cup Inside]
  /\ asked \in [Threads -> Queries \cup {None}]
  /\ answer \in [Threads -> Queries \cup {None, Exception}]
  /\ fetched \in [Keys -> Nat]

CacheInit ==
  /\ cache = [k \in Keys |-> None]
  /\ owner = None
  /\ pc = [t \in Threads |-> "idle"]
  /\ asked = [t \in Threads |-> None]
  /\ answer = [t \in Threads |-> None]
  /\ fetched = [k \in Keys |-> 0]

-----------------------------------------------------------------------------
Key(t) == CacheKey(asked[t])

At(t, from) == pc[t] = from

Goto(t, to) == pc' = [pc EXCEPT ![t] = to] /\ UNCHANGED answer

Ends(t, a) == pc' = [pc EXCEPT ![t] = "idle"] /\ answer' = [answer EXCEPT ![t] = a]

\* Get<TResult>: what is cached, or the exception of a cast to another type.
Got(t) ==
  IF cache[Key(t)].result = asked[t].result THEN cache[Key(t)] ELSE Exception

Handle(t, q) ==
  /\ At(t, "idle")
  /\ asked' = [asked EXCEPT ![t] = q]
  /\ answer' = [answer EXCEPT ![t] = None]
  /\ pc' = [pc EXCEPT ![t] = IF CacheKey(q) = None THEN "direct" ELSE "first"]
  /\ UNCHANGED <<cache, owner, fetched>>

\* Without a key the cache is passed by.
HandleDirectly(t) ==
  /\ At(t, "direct")
  /\ Ends(t, asked[t]) \/ Ends(t, Exception)
  /\ UNCHANGED <<cache, owner, asked, fetched>>

FirstGet(t) ==
  /\ At(t, "first")
  /\ IF cache[Key(t)] = None THEN Goto(t, "waiting") ELSE Ends(t, Got(t))
  /\ UNCHANGED <<cache, owner, asked, fetched>>

Lock(t) ==
  /\ At(t, "waiting")
  /\ owner = None
  /\ owner' = t
  /\ Goto(t, "second")
  /\ UNCHANGED <<cache, asked, fetched>>

\* Slip: the second lookup is missing.
SecondGetSkipped(t) ==
  /\ At(t, "second")
  /\ Goto(t, "fetching")
  /\ UNCHANGED <<cache, owner, asked, fetched>>

SecondGet(t) ==
  /\ At(t, "second")
  /\ \/ cache[Key(t)] = None /\ Goto(t, "fetching") /\ UNCHANGED owner
     \/ cache[Key(t)] # None /\ Ends(t, Got(t)) /\ owner' = None
  /\ UNCHANGED <<cache, asked, fetched>>

\* The handler answers and the answer is kept.
Fetch(t) ==
  /\ At(t, "fetching")
  /\ cache' = [cache EXCEPT ![Key(t)] = asked[t]]
  /\ fetched' = [fetched EXCEPT ![Key(t)] = @ + 1]
  /\ Ends(t, asked[t])
  /\ owner' = None
  /\ UNCHANGED asked

\* Slip: what throws is tried again.
FetchThrowsAndTriesAgain(t) ==
  /\ At(t, "fetching")
  /\ Goto(t, "first")
  /\ owner' = None
  /\ UNCHANGED <<cache, asked, fetched>>

\* The handler throws, or it answers null, which Set refuses.
FetchThrows(t) ==
  /\ At(t, "fetching")
  /\ Ends(t, Exception)
  /\ owner' = None
  /\ UNCHANGED <<cache, asked, fetched>>

\* MemoryCache drops an entry.
Expire(k) ==
  /\ cache[k] # None
  /\ cache' = [cache EXCEPT ![k] = None]
  /\ fetched' = [fetched EXCEPT ![k] = 0]
  /\ UNCHANGED <<owner, pc, asked, answer>>

Step(t) ==
  \/ HandleDirectly(t)
  \/ FirstGet(t) \/ SecondGet(t)
  \/ Fetch(t) \/ FetchThrows(t)

CacheNext ==
  \/ \E t \in Threads : Lock(t) \/ Step(t) \/ \E q \in Queries : Handle(t, q)
  \/ \E k \in Keys : Expire(k)

CacheSpec == CacheInit /\ [][CacheNext]_cacheVars

\* Threads run, handlers answer or throw, and the monitor serves its waiters.
CacheFairSpec == CacheSpec /\ \A t \in Threads : WF_cacheVars(Step(t)) /\ SF_cacheVars(Lock(t))

-----------------------------------------------------------------------------
(* Properties.                                                             *)

\* However many threads miss at the same time, an entry is computed once as
\* long as the cache keeps it.
ComputedOnce == \A k \in Keys : fetched[k] <= 1

\* A description from which a descriptor can be read back: names and values
\* have no separators in them, and no value is the word that stands for null.
PlainField(text) == Len(text) = 1 /\ text[1] \notin {"_", ",", "unsorted"}

PlainFilter(f) ==
  \A i \in DOMAIN f.descriptors :
    LET c == f.descriptors[i].Criterion
    IN /\ PlainField(f.descriptors[i].Field)
       /\ c # None => Len(c) = 1 /\ c[1] \notin {"_", "EMPTY"}

PlainSorting(s) == \A i \in DOMAIN s : PlainField(s[i].Field)

Plain(q) == PlainFilter(q.filter) /\ PlainSorting(q.sorting)

\* FilteringDescriptor.Equals, which leaves IgnoreCase aside too.
Equal(d, e) ==
  d.Field = e.Field /\ d.Predicate = e.Predicate /\ d.Criterion = e.Criterion

\* Equal descriptors, combined by the same rule if there are several.
SameFilter(f, g) ==
  /\ Len(f.descriptors) = Len(g.descriptors)
  /\ \A i \in DOMAIN f.descriptors : Equal(f.descriptors[i], g.descriptors[i])
  /\ Len(f.descriptors) > 1 => f.rule = g.rule

\* Whoever stored what is in the cache, a caller gets the page it asked for, in
\* the type it expects.  If the names and values in both queries are plain, it
\* was computed under descriptors equal to the caller's, combined by the same
\* rule, and in the same order, although the key is one text without a mark of
\* where its parts begin.
AnswersTheQuestion ==
  \A t \in Threads :
    answer[t] \in Queries =>
      /\ answer[t].size = asked[t].size
      /\ answer[t].number = asked[t].number
      /\ answer[t].result = asked[t].result
      /\ Plain(answer[t]) /\ Plain(asked[t]) =>
           /\ SameFilter(answer[t].filter, asked[t].filter)
           /\ answer[t].sorting = asked[t].sorting

\* A call ends, by an answer or an exception, although the handler of another
\* thread may throw inside the lock.
CallsEnd == \A t \in Threads : At(t, "waiting") ~> At(t, "idle")

\* The page has its total when the query asks for it.  Refuted: the entry may
\* be that of a query that did not ask.
TotalWhenAsked ==
  \A t \in Threads : answer[t] \in Queries /\ asked[t].total => answer[t].total

\* The answer was computed under the caller's own filter.  Refuted: IgnoreCase
\* is not described, null is described as the text EMPTY, and the separators
\* are not escaped in a text that holds them.
FilterAsAsked ==
  \A t \in Threads : answer[t] \in Queries => answer[t].filter = asked[t].filter

\* The answer is that of a query of the caller's class.  Refuted: two classes
\* with one type of result share their entries.
TypeAsAsked ==
  \A t \in Threads : answer[t] \in Queries => answer[t].type = asked[t].type
=============================================================================
