--------------------------- MODULE FullTextSearch ---------------------------
(***************************************************************************)
(* FullTextSearchUtils: three texts a user typed (all of the words, any of *)
(* them, none of them) become one full-text search expression.  A text is  *)
(* a sequence of symbols; "o" and "r" stand for the symbols of words, the  *)
(* word "or" for the keywords of the search language.  Tabs and line       *)
(* breaks are left out: the normalising expressions take them for          *)
(* separators, the loop that puts connectives in and the validation for    *)
(* parts of words.                                                         *)
(***************************************************************************)
EXTENDS Integers, Sequences, FiniteSets

CONSTANT Forms    \* the triples of texts that are typed

Parts == {"And", "Or", "Not"}
Letters == {"o", "r"}
Word == Letters \cup {"*"}
Separators == {" ", "."}
Symbols == Word \cup Separators \cup {"quote", "bad"}
Keyword == <<"o", "r">>
MinWordLength == 2

ASSUME FullTextSearchAssumption == Forms \subseteq [Parts -> Seq(Symbols)]

VARIABLES
  text,     \* the three texts, as far as they are prepared
  stage,    \* typed, refused, valid, prepared or built
  expr,     \* the expression: symbols, connectives and brackets
  exclusion \* Item1 of the result: nothing but the Not part was given

searchVars == <<text, stage, expr, exclusion>>

Connectives == {"AND", "OR", "NOT"}

SearchTypeOK ==
  /\ text \in [Parts -> Seq(Symbols)]
  /\ stage \in {"typed", "refused", "valid", "prepared", "built"}
  /\ expr \in Seq((Symbols \ {"*"}) \cup Connectives \cup {"%", "(", ")"})
  /\ exclusion \in BOOLEAN

SearchInit ==
  /\ text \in Forms
  /\ stage = "typed"
  /\ expr = <<>>
  /\ exclusion = FALSE

-----------------------------------------------------------------------------
(* What the regular expressions of the class match.                        *)

\* The k-th of the numbers in S.
Nth(S, k) == CHOOSE i \in S : Cardinality({j \in S : j <= i}) = k

\* What is left of s at the positions in I.
Keep(s, I) ==
  LET kept == I \cap DOMAIN s
  IN [k \in 1 .. Cardinality(kept) |-> s[Nth(kept, k)]]

Without(s, C) == Keep(s, {i \in DOMAIN s : s[i] \notin C})

\* The first of a run stands for the run: _exNormSpaces, _exNormAsterisks.
Collapse(s, C) ==
  Keep(s, {i \in DOMAIN s : i > 1 => ~({s[i - 1], s[i]} \subseteq C)})

\* _exTrimSpaces.
Trim(s, C) ==
  Keep(s, {i \in DOMAIN s : /\ \E j \in 1 .. i : s[j] \notin C
                            /\ \E j \in i .. Len(s) : s[j] \notin C})

\* The maximal run of symbols of C at i: a match of [C]+, or of \b[C]+\b.
RunAt(s, i, C) ==
  {j \in DOMAIN s : \A k \in (i .. j) \cup (j .. i) : s[k] \in C}

Outside(s, i) ==
  Cardinality({j \in 1 .. i : s[j] = "quote"}) % 2 = 0 /\ s[i] # "quote"

\* _exReplaceWords.
IsKeyword(s, i) == Keep(s, RunAt(s, i, Letters)) = Keyword

\* _exShortWords.
IsShort(s, i) ==
  /\ Outside(s, i) /\ s[i] \in Word
  /\ Cardinality(RunAt(s, i, Word)) < MinWordLength

-----------------------------------------------------------------------------
(* ValidateSearchCriteria.                                                 *)

\* The words are looked for between blanks, with the quotes taken out.
TooShortPattern(s) ==
  LET t == Without(s, {"quote"})
      W(i) == RunAt(t, i, Symbols \ {" "})
  IN \E i \in DOMAIN t :
       t[i] = "*" /\ Cardinality({j \in W(i) : t[j] # "*"}) < 3

Validity(s) ==
  LET n == Trim(Collapse(s, Separators), Separators)
  IN CASE n = <<>> -> "Empty"
       [] Len(Without(n, Symbols \ {"quote"})) % 2 # 0 -> "NotPairedQuotes"
       [] TooShortPattern(n) -> "TooShortPattern"
       [] OTHER -> "OK"

\* A form with an error goes back to its user; an empty part is no error.
Validate ==
  /\ stage = "typed"
  /\ stage' = IF \A p \in Parts : Validity(text[p]) \in {"OK", "Empty"}
              THEN "valid" ELSE "refused"
  /\ UNCHANGED <<text, expr, exclusion>>

-----------------------------------------------------------------------------
(* PrepareSearchCriteriaStep1.                                             *)

NoKeywords(s) == Keep(s, {i \in DOMAIN s : ~IsKeyword(s, i)})
NoShortWords(s) == Keep(s, {i \in DOMAIN s : ~IsShort(s, i)})
Normal(s) == Collapse(Trim(Collapse(s, Separators), Separators), {"*"})

\* Slip: the keywords are looked for before the symbols that hide them are gone.
Step1KeywordsFirst(s) ==
  Normal(NoShortWords(Without(NoKeywords(s), {"bad"})))

\* Slip: short words go after the separators were put in order.
Step1ShortWordsLast(s) ==
  NoShortWords(Normal(NoKeywords(Without(s, {"bad"}))))

Step1(s) == Normal(NoShortWords(NoKeywords(Without(s, {"bad"}))))

PrepareSearchCriteriaStep1 ==
  /\ stage = "valid"
  /\ text' = [p \in Parts |-> Step1(text[p])]
  /\ stage' = "prepared"
  /\ UNCHANGED <<expr, exclusion>>

-----------------------------------------------------------------------------
(* PrepareSearchCriteriaStep2 and the expression.                          *)

Connective(p) == IF p = "And" THEN "AND" ELSE "OR"

\* countParts: the connectives that were put in.
Connected(s) == {i \in DOMAIN s : s[i] \in Separators /\ Outside(s, i)}

\* After the normalisation no two separators are adjacent, and the loop's
\* connectWordAdded decides nothing.
Joined(s, p) ==
  [i \in DOMAIN s |->
     IF i \in Connected(s) THEN Connective(p)
     ELSE IF s[i] = "*" THEN "%" ELSE s[i]]

Step2(c, p) ==
  LET s == Trim(Collapse(c, Separators), {" "})
      prefix == IF p = "Not" THEN <<"NOT">> ELSE <<>>
  IN IF s = <<>> THEN <<>>
     ELSE IF p # "And" /\ Connected(s) # {}
     THEN prefix \o (<<"(">> \o (Joined(s, p) \o <<")">>))
     ELSE prefix \o Joined(s, p)

StartsWithNot(s) == s # <<>> /\ Head(s) = "NOT"

\* One turn of its loop.
Appended(bld, c) ==
  IF c = <<>> THEN bld
  ELSE IF bld = <<>> THEN c
  ELSE IF StartsWithNot(c) THEN bld \o c ELSE bld \o (<<"AND">> \o c)

\* MakeFinalCompositeSearchCriteria: the parts that are not empty, in order.
MakeFinal(c1, c2, c3) == Appended(Appended(Appended(<<>>, c1), c2), c3)

\* BuildSearchTextExpressionExt.
Build ==
  LET res == MakeFinal(Step2(text["And"], "And"), Step2(text["Or"], "Or"),
                       Step2(text["Not"], "Not"))
  IN /\ stage = "prepared"
     /\ exclusion' = StartsWithNot(res)
     /\ expr' = IF StartsWithNot(res) THEN Tail(res) ELSE res
     /\ stage' = "built"
     /\ UNCHANGED text

SearchNext == Validate \/ PrepareSearchCriteriaStep1 \/ Build

SearchSpec == SearchInit /\ [][SearchNext]_searchVars

-----------------------------------------------------------------------------
(* Properties.                                                             *)

Built == stage = "built"

ConnectivesConnect ==
  Built => \A i \in DOMAIN expr :
    Outside(expr, i) /\ expr[i] \in Connectives =>
      /\ i > 1 /\ i < Len(expr)
      /\ expr[i - 1] \notin Connectives \cup {"("}
      /\ expr[i + 1] \notin Connectives \cup {")"}

OrIsBracketed ==
  Built => \A i \in DOMAIN expr :
    expr[i] = "OR" =>
      Cardinality({j \in 1 .. i : expr[j] = "("})
        = Cardinality({j \in 1 .. i : expr[j] = ")"}) + 1

\* The expression is well formed: outside phrases a connective has something to
\* connect on both sides, it is never first or last, beside another one or
\* inside a bracket's edge; and alternatives stay together, an OR is inside
\* brackets, so that the AND or the NOT beside it cannot take a word away.
ExpressionWellFormed == ConnectivesConnect /\ OrIsBracketed

\* No word of the search language gets in as a word of the user's.
NoKeywordLeft == Built => \A i \in DOMAIN expr : ~IsKeyword(expr, i)

\* "When * is used, the word should be at least 3 symbols in size": of the
\* masks that are searched for.  Refuted: a full stop joins words when they are
\* validated, and separates them afterwards.
MasksAreLongEnough ==
  Built => \A i \in DOMAIN expr :
    expr[i] = "%" =>
      Cardinality({j \in RunAt(expr, i, Letters \cup {"%"}) : expr[j] # "%"}) >= 3
=============================================================================
