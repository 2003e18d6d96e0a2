---------------------------- MODULE Query_proofs ----------------------------
(***************************************************************************)
(* Proofs about the modules of CqsDataFoundation/Query that translate and  *)
(* answer queries.                                                         *)
(*                                                                         *)
(* FullTextSearch, for texts of any length.  A text is never taken apart   *)
(* from its front: what a step takes out of a text is a set of positions,  *)
(* and the proofs are about the neighbours of what is left.                *)
(*                                                                         *)
(* Filtering, for every set of records and every collection of             *)
(* descriptors, with texts of any length.                                  *)
(*                                                                         *)
(* QueryCache, for every number of threads and every set of queries,       *)
(* whatever keys they share and whenever entries expire.                   *)
(***************************************************************************)
EXTENDS FullTextSearch, Filtering, QueryCache, FiniteSetTheorems, FunctionTheorems,
        SequenceTheorems, WellFoundedInduction, TLAPS

-----------------------------------------------------------------------------
(* What is left of a text.                                                 *)

\* Numbers are counted off: of a finite set there is one with i of them up to
\* it.  Counting is one to one into as many ranks, so it takes every rank.
LEMMA Ranked ==
  ASSUME NEW S \in SUBSET Nat, IsFiniteSet(S), NEW i \in 1 .. Cardinality(S)
  PROVE  \E x \in S : Cardinality({y \in S : y <= x}) = i
<1> DEFINE UpTo(x) == {y \in S : y <= x}
           ranks == 1 .. Cardinality(S)
           rank == [x \in S |-> Cardinality(UpTo(x))]
<1>1. Cardinality(S) \in Nat
  BY FS_CardinalityType
<1>2. \A x \in S : IsFiniteSet(UpTo(x)) /\ Cardinality(UpTo(x)) \in ranks
  <2> SUFFICES ASSUME NEW x \in S
               PROVE  IsFiniteSet(UpTo(x)) /\ Cardinality(UpTo(x)) \in ranks
    OBVIOUS
  <2>1. UpTo(x) \in SUBSET S /\ UpTo(x) # {}
    OBVIOUS
  <2> HIDE DEF UpTo
  <2>2. IsFiniteSet(UpTo(x)) /\ Cardinality(UpTo(x)) <= Cardinality(S)
    BY <2>1, FS_Subset
  <2>3. Cardinality(UpTo(x)) \in Nat /\ Cardinality(UpTo(x)) # 0
    BY <2>1, <2>2, FS_CardinalityType, FS_EmptySet
  <2> QED BY <1>1, <2>2, <2>3
<1>3. \A x, y \in S : x < y => rank[x] # rank[y]
  <2> SUFFICES ASSUME NEW x \in S, NEW y \in S, x < y
               PROVE  Cardinality(UpTo(x)) # Cardinality(UpTo(y))
    OBVIOUS
  <2>1. UpTo(x) \in SUBSET UpTo(y)
    <3>1. \A z \in S : z <= x => z <= y
      OBVIOUS
    <3> QED BY <3>1
  <2>2. y \in UpTo(y) /\ y \notin UpTo(x)
    OBVIOUS
  <2>3. IsFiniteSet(UpTo(y))
    BY <1>2
  <2> HIDE DEF UpTo
  <2> QED BY <2>1, <2>2, <2>3, FS_Subset
<1>4. rank \in Injection(S, ranks)
  <2>1. rank \in [S -> ranks]
    BY <1>2
  <2>2. \A x, y \in S : rank[x] = rank[y] => x = y
    <3>1. \A x, y \in S : x = y \/ x < y \/ y < x
      OBVIOUS
    <3> HIDE DEF rank
    <3> QED BY <1>3, <3>1
  <2> HIDE DEF rank, ranks
  <2> QED BY <2>1, <2>2 DEF Injection, IsInjective
<1>5. IsFiniteSet(ranks) /\ Cardinality(ranks) = Cardinality(S)
  BY <1>1, FS_Interval
<1>6. rank \in Surjection(S, ranks)
  <2> HIDE DEF rank, ranks
  <2> QED BY <1>4, <1>5, FS_Injection
<1>7. PICK x \in S : rank[x] = i
  <2> HIDE DEF rank
  <2> QED BY <1>6 DEF Surjection
<1> QED BY <1>7

\* t is what is left of s at the positions in I: at names, in their order, the
\* positions of its symbols.
Selects(at, s, I, t) ==
  /\ at \in [1 .. Len(t) -> DOMAIN s]
  /\ \A k \in 1 .. Len(t) : at[k] \in I /\ t[k] = s[at[k]]
  /\ \A k, m \in 1 .. Len(t) : k < m => at[k] < at[m]
  /\ \A x \in DOMAIN s : x \in I => \E k \in 1 .. Len(t) : at[k] = x

LEMMA NthIs ==
  ASSUME NEW S \in SUBSET Nat, IsFiniteSet(S), NEW k \in 1 .. Cardinality(S)
  PROVE  Nth(S, k) \in S /\ Cardinality({j \in S : j <= Nth(S, k)}) = k
<1>1. \E i \in S : Cardinality({j \in S : j <= i}) = k
  BY Ranked
<1> QED BY <1>1 DEF Nth

LEMMA KeepIs ==
  ASSUME NEW X, NEW s \in Seq(X), NEW I
  PROVE  /\ Keep(s, I) \in Seq(X)
         /\ \E at : Selects(at, s, I, Keep(s, I))
<1> DEFINE S == I \cap DOMAIN s
           n == Cardinality(S)
           t == Keep(s, I)
           UpTo(x) == {j \in S : j <= x}
           at == [k \in 1 .. n |-> Nth(S, k)]
<1>1. S \in SUBSET Nat /\ S \in SUBSET DOMAIN s /\ IsFiniteSet(S) /\ n \in Nat
  <2>1. DOMAIN s = 1 .. Len(s) /\ Len(s) \in Nat
    OBVIOUS
  <2>2. IsFiniteSet(DOMAIN s)
    BY <2>1, FS_Interval
  <2>3. S \in SUBSET Nat /\ S \in SUBSET DOMAIN s
    BY <2>1
  <2>4. IsFiniteSet(S)
    BY <2>2, FS_Subset
  <2> QED BY <2>3, <2>4, FS_CardinalityType
<1> HIDE DEF S
<1>0. (\A x \in S : x \in Int /\ x \in DOMAIN s) /\ \A x \in DOMAIN s : s[x] \in X
  BY <1>1
<1>2. t = [k \in 1 .. n |-> s[Nth(S, k)]]
  BY DEF Keep, S
<1>3. \A k \in 1 .. n : Nth(S, k) \in S /\ Cardinality(UpTo(Nth(S, k))) = k
  BY <1>1, NthIs
<1>4. \A k \in 1 .. n : s[Nth(S, k)] \in X
  BY <1>0, <1>3
<1> HIDE DEF n, t
<1>5. t \in Seq(X) /\ Len(t) = n
  BY <1>1, <1>2, <1>4
<1>6. \A x \in S : IsFiniteSet(UpTo(x)) /\ Cardinality(UpTo(x)) \in 1 .. n
  <2> SUFFICES ASSUME NEW x \in S
               PROVE  IsFiniteSet(UpTo(x)) /\ Cardinality(UpTo(x)) \in 1 .. n
    OBVIOUS
  <2>1. UpTo(x) \in SUBSET S /\ UpTo(x) # {}
    BY <1>1
  <2> HIDE DEF UpTo
  <2>2. IsFiniteSet(UpTo(x)) /\ Cardinality(UpTo(x)) <= Cardinality(S)
    BY <1>1, <2>1, FS_Subset
  <2>3. Cardinality(UpTo(x)) \in Nat /\ Cardinality(UpTo(x)) # 0
    BY <2>1, <2>2, FS_CardinalityType, FS_EmptySet
  <2> QED BY <1>1, <2>2, <2>3 DEF n
<1>7. \A x, y \in S : x <= y => Cardinality(UpTo(x)) <= Cardinality(UpTo(y))
  <2> SUFFICES ASSUME NEW x \in S, NEW y \in S, x <= y
               PROVE  Cardinality(UpTo(x)) <= Cardinality(UpTo(y))
    OBVIOUS
  <2>1. UpTo(x) \in SUBSET UpTo(y)
    BY <1>0
  <2> HIDE DEF UpTo
  <2> QED BY <1>6, <2>1, FS_Subset
<1>8. \A x, y \in S : x < y => Cardinality(UpTo(x)) # Cardinality(UpTo(y))
  <2> SUFFICES ASSUME NEW x \in S, NEW y \in S, x < y
               PROVE  Cardinality(UpTo(x)) # Cardinality(UpTo(y))
    OBVIOUS
  <2>1. UpTo(x) \in SUBSET UpTo(y) /\ y \in UpTo(y) /\ y \notin UpTo(x)
    BY <1>0
  <2> HIDE DEF UpTo
  <2> QED BY <1>6, <2>1, FS_Subset
<1> HIDE DEF UpTo
<1>9. \A k, m \in 1 .. n : k < m => Nth(S, k) < Nth(S, m)
  <2> SUFFICES ASSUME NEW k \in 1 .. n, NEW m \in 1 .. n, k < m, Nth(S, m) <= Nth(S, k)
               PROVE  FALSE
    BY <1>0, <1>3
  <2>1. m <= k
    BY <1>3, <1>7
  <2> QED BY <1>1, <2>1
<1>10. \A x \in S : \E k \in 1 .. n : Nth(S, k) = x
  <2> SUFFICES ASSUME NEW x \in S PROVE Nth(S, Cardinality(UpTo(x))) = x
    BY <1>6
  <2> DEFINE k == Cardinality(UpTo(x))
             y == Nth(S, k)
  <2>1. k \in 1 .. n
    BY <1>6
  <2>2. y \in S /\ Cardinality(UpTo(y)) = k
    BY <1>3, <2>1
  <2>3. x < y \/ y < x \/ x = y
    BY <1>0, <2>2
  <2> QED BY <1>8, <2>2, <2>3
<1>11. Selects(at, s, I, t)
  <2>1. at \in [1 .. Len(t) -> DOMAIN s]
    BY <1>1, <1>3, <1>5
  <2>2. \A k \in 1 .. Len(t) : at[k] \in I /\ t[k] = s[at[k]]
    BY <1>2, <1>3, <1>5 DEF S
  <2>3. \A k, m \in 1 .. Len(t) : k < m => at[k] < at[m]
    BY <1>5, <1>9
  <2>4. \A x \in DOMAIN s : x \in I => \E k \in 1 .. Len(t) : at[k] = x
    BY <1>5, <1>10 DEF S
  <2> HIDE DEF at
  <2> QED BY <2>1, <2>2, <2>3, <2>4 DEF Selects
<1> QED BY <1>5, <1>11 DEF t

\* Between neighbours, before the first and after the last one, everything has
\* been taken out.
LEMMA Gaps ==
  ASSUME NEW X, NEW s \in Seq(X), NEW I, NEW t \in Seq(X), NEW at, Selects(at, s, I, t)
  PROVE  /\ \A k \in 1 .. Len(t) : k + 1 \in 1 .. Len(t) =>
              /\ at[k] < at[k + 1]
              /\ \A x \in DOMAIN s : at[k] < x /\ x < at[k + 1] => x \notin I
         /\ \A x \in DOMAIN s : 1 \in 1 .. Len(t) /\ x < at[1] => x \notin I
         /\ \A x \in DOMAIN s : Len(t) \in 1 .. Len(t) /\ at[Len(t)] < x => x \notin I
<1>1. \A k \in 1 .. Len(t) : at[k] \in Int
  BY DEF Selects
<1>2. Len(t) \in Nat /\ DOMAIN s \subseteq Int
  OBVIOUS
<1>3. \A k, m \in 1 .. Len(t) : at[k] < at[m] => k < m
  <2> SUFFICES ASSUME NEW k \in 1 .. Len(t), NEW m \in 1 .. Len(t), at[k] < at[m], ~(k < m)
               PROVE  FALSE
    OBVIOUS
  <2>1. m < k \/ m = k
    BY <1>2
  <2>2. at[m] <= at[k]
    BY <1>1, <2>1 DEF Selects
  <2> QED BY <1>1, <2>2
<1>4. \A x \in DOMAIN s : x \in I => \E k \in 1 .. Len(t) : at[k] = x
  BY DEF Selects
<1>5. ASSUME NEW k \in 1 .. Len(t), k + 1 \in 1 .. Len(t), NEW x \in DOMAIN s,
             at[k] < x, x < at[k + 1], x \in I
      PROVE  FALSE
  <2>1. PICK m \in 1 .. Len(t) : at[m] = x
    BY <1>4, <1>5
  <2>2. k < m /\ m < k + 1
    BY <1>3, <1>5, <2>1
  <2> QED BY <1>2, <2>2
<1>6. ASSUME NEW x \in DOMAIN s, 1 \in 1 .. Len(t), x < at[1], x \in I
      PROVE  FALSE
  <2>1. PICK m \in 1 .. Len(t) : at[m] = x
    BY <1>4, <1>6
  <2>2. m < 1
    BY <1>3, <1>6, <2>1
  <2> QED BY <1>2, <2>2
<1>7. ASSUME NEW x \in DOMAIN s, Len(t) \in 1 .. Len(t), at[Len(t)] < x, x \in I
      PROVE  FALSE
  <2>1. PICK m \in 1 .. Len(t) : at[m] = x
    BY <1>4, <1>7
  <2>2. Len(t) < m
    BY <1>3, <1>7, <2>1
  <2> QED BY <1>2, <2>2
<1>8. \A k \in 1 .. Len(t) : k + 1 \in 1 .. Len(t) => at[k] < at[k + 1]
  <2>1. \A k \in 1 .. Len(t) : k < k + 1
    BY <1>2
  <2> QED BY <2>1 DEF Selects
<1> QED BY <1>5, <1>6, <1>7, <1>8

-----------------------------------------------------------------------------
(* Runs and keywords.                                                      *)

\* A run has no gap and no symbol of its own kind beside it.
LEMMA RunIs ==
  ASSUME NEW X, NEW s \in Seq(X), NEW C, NEW i \in DOMAIN s
  PROVE  LET R == RunAt(s, i, C)
         IN /\ R \subseteq DOMAIN s
            /\ \A j \in R : s[j] \in C
            /\ R # {} => i \in R
            /\ s[i] \in C => i \in R
            /\ \A j \in R : j + 1 \in DOMAIN s /\ s[j + 1] \in C => j + 1 \in R
            /\ \A j \in R : j - 1 \in DOMAIN s /\ s[j - 1] \in C => j - 1 \in R
            /\ \A x, y \in R : \A z \in DOMAIN s : x < z /\ z < y => z \in R
<1> DEFINE R == RunAt(s, i, C)
<1>1. Len(s) \in Nat /\ DOMAIN s = 1 .. Len(s) /\ i \in Int
  OBVIOUS
<1>2. \A j \in DOMAIN s : j \in R <=> \A k \in Int : (i <= k /\ k <= j) \/ (j <= k /\ k <= i) => s[k] \in C
  <2> SUFFICES ASSUME NEW j \in DOMAIN s
               PROVE  j \in R <=> \A k \in Int : (i <= k /\ k <= j) \/ (j <= k /\ k <= i) => s[k] \in C
    OBVIOUS
  <2>0. j \in Int
    BY <1>1
  <2>1. \A k \in Int : k \in (i .. j) \cup (j .. i) <=> (i <= k /\ k <= j) \/ (j <= k /\ k <= i)
    BY <1>1, <2>0
  <2>2. \A k \in (i .. j) \cup (j .. i) : k \in Int
    BY <1>1, <2>0
  <2>3. j \in R <=> \A k \in (i .. j) \cup (j .. i) : s[k] \in C
    BY DEF RunAt
  <2> HIDE DEF R
  <2> QED BY <2>1, <2>2, <2>3
<1>3. R \subseteq DOMAIN s
  BY DEF RunAt
<1> HIDE DEF R
<1>4. \A j \in DOMAIN s : j \in Int
  BY <1>1
<1>5. /\ \A j \in R : s[j] \in C
      /\ R # {} => i \in R
      /\ s[i] \in C => i \in R
  <2>1. ASSUME NEW j \in R PROVE s[j] \in C /\ s[i] \in C
    <3>1. j \in DOMAIN s /\ j \in Int /\ (i <= j \/ j <= i)
      BY <1>1, <1>3, <1>4
    <3> QED BY <1>1, <1>2, <3>1
  <2>3. s[i] \in C => i \in R
    BY <1>1, <1>2, <1>3, <1>4
  <2> QED BY <2>1, <2>3
<1>6. ASSUME NEW j \in R, j + 1 \in DOMAIN s, s[j + 1] \in C PROVE j + 1 \in R
  <2> SUFFICES ASSUME NEW k \in Int, (i <= k /\ k <= j + 1) \/ (j + 1 <= k /\ k <= i) PROVE s[k] \in C
    BY <1>2, <1>6
  <2>1. j \in DOMAIN s /\ j \in Int
    BY <1>3, <1>4
  <2>2. k = j + 1 \/ (i <= k /\ k <= j) \/ (j <= k /\ k <= i)
    BY <1>1, <2>1
  <2> QED BY <1>2, <1>6, <2>1, <2>2
<1>7. ASSUME NEW j \in R, j - 1 \in DOMAIN s, s[j - 1] \in C PROVE j - 1 \in R
  <2> SUFFICES ASSUME NEW k \in Int, (i <= k /\ k <= j - 1) \/ (j - 1 <= k /\ k <= i) PROVE s[k] \in C
    BY <1>2, <1>7
  <2>1. j \in DOMAIN s /\ j \in Int
    BY <1>3, <1>4
  <2>2. k = j - 1 \/ (i <= k /\ k <= j) \/ (j <= k /\ k <= i)
    BY <1>1, <2>1
  <2> QED BY <1>2, <1>7, <2>1, <2>2
<1>8. ASSUME NEW x \in R, NEW y \in R, NEW z \in DOMAIN s, x < z, z < y PROVE z \in R
  <2> SUFFICES ASSUME NEW k \in Int, (i <= k /\ k <= z) \/ (z <= k /\ k <= i) PROVE s[k] \in C
    BY <1>2
  <2>1. x \in DOMAIN s /\ y \in DOMAIN s /\ x \in Int /\ y \in Int /\ z \in Int
    BY <1>3, <1>4
  <2>2. (i <= k /\ k <= y) \/ (x <= k /\ k <= i)
    BY <1>1, <1>8, <2>1
  <2> QED BY <1>2, <2>1, <2>2
<1> QED BY <1>3, <1>5, <1>6, <1>7, <1>8 DEF R

\* A keyword begins at a, and is all of its word.
KeywordAt(s, a) ==
  /\ a \in DOMAIN s /\ a + 1 \in DOMAIN s
  /\ s[a] = "o" /\ s[a + 1] = "r"
  /\ a - 1 \in DOMAIN s => s[a - 1] \notin Letters
  /\ a + 2 \in DOMAIN s => s[a + 2] \notin Letters

LEMMA IsKeywordAt ==
  ASSUME NEW X, NEW s \in Seq(X), NEW i \in DOMAIN s, IsKeyword(s, i)
  PROVE  \E a \in {i - 1, i} : KeywordAt(s, a)
<1> DEFINE R == RunAt(s, i, Letters)
           t == Keep(s, R)
<1>1. t = <<"o", "r">>
  BY DEF IsKeyword, Keyword
<1>2. t \in Seq(X) /\ \E at : Selects(at, s, R, t)
  BY KeepIs
<1>3. /\ R \subseteq DOMAIN s
      /\ R # {} => i \in R
      /\ \A j \in R : j + 1 \in DOMAIN s /\ s[j + 1] \in Letters => j + 1 \in R
      /\ \A j \in R : j - 1 \in DOMAIN s /\ s[j - 1] \in Letters => j - 1 \in R
      /\ \A x, y \in R : \A z \in DOMAIN s : x < z /\ z < y => z \in R
  BY RunIs
<1>4. DOMAIN s = 1 .. Len(s) /\ Len(s) \in Nat
  OBVIOUS
<1> HIDE DEF R, t
<1>5. PICK at : Selects(at, s, R, t)
  BY <1>2
<1>6. Len(t) = 2 /\ t[1] = "o" /\ t[2] = "r" /\ 1 \in 1 .. Len(t) /\ 2 \in 1 .. Len(t)
  BY <1>1
<1>7. /\ at[1] \in R /\ at[2] \in R
      /\ s[at[1]] = "o" /\ s[at[2]] = "r" /\ at[1] < at[2]
      /\ \A x \in R : x = at[1] \/ x = at[2]
  <2>1. \A k \in 1 .. Len(t) : k = 1 \/ k = 2
    BY <1>6
  <2> QED BY <1>3, <1>5, <1>6, <2>1 DEF Selects
<1> DEFINE a == at[1]
<1>8. a \in Int /\ at[2] \in Int /\ a \in DOMAIN s /\ at[2] \in DOMAIN s
  BY <1>3, <1>4, <1>7
<1>9. at[2] = a + 1
  <2> SUFFICES ASSUME a + 1 < at[2] PROVE FALSE
    BY <1>7, <1>8
  <2>1. a + 1 \in DOMAIN s
    BY <1>4, <1>8
  <2>2. a + 1 \in R
    BY <1>3, <1>7, <1>8, <2>1
  <2> QED BY <1>7, <1>8, <2>2
<1>10. a - 1 \in DOMAIN s => s[a - 1] \notin Letters
  BY <1>3, <1>7, <1>8
<1>11. a + 2 \in DOMAIN s => s[a + 2] \notin Letters
  <2> SUFFICES ASSUME a + 2 \in DOMAIN s, s[a + 2] \in Letters PROVE FALSE
    OBVIOUS
  <2>1. (a + 1) + 1 = a + 2
    BY <1>8
  <2>2. a + 2 \in R
    BY <1>3, <1>7, <1>9, <2>1
  <2> QED BY <1>7, <1>8, <1>9, <2>2
<1>12. KeywordAt(s, a)
  BY <1>7, <1>8, <1>9, <1>10, <1>11 DEF KeywordAt
<1>13. i = a \/ i = a + 1
  BY <1>3, <1>7, <1>9
<1>14. i \in Int
  BY <1>4
<1> HIDE DEF a
<1>15. a = i - 1 \/ a = i
  BY <1>8, <1>13, <1>14 DEF a
<1> QED BY <1>12, <1>15

LEMMA KeywordAtIs ==
  ASSUME NEW X, NEW s \in Seq(X), NEW a \in DOMAIN s, KeywordAt(s, a)
  PROVE  IsKeyword(s, a)
<1> DEFINE R == RunAt(s, a, Letters)
           t == Keep(s, R)
<1>1. t \in Seq(X) /\ \E at : Selects(at, s, R, t)
  BY KeepIs
<1>2. /\ R \subseteq DOMAIN s
      /\ \A j \in R : s[j] \in Letters
      /\ s[a] \in Letters => a \in R
      /\ \A j \in R : j + 1 \in DOMAIN s /\ s[j + 1] \in Letters => j + 1 \in R
      /\ \A x, y \in R : \A z \in DOMAIN s : x < z /\ z < y => z \in R
  BY RunIs
<1>3. DOMAIN s = 1 .. Len(s) /\ Len(s) \in Nat /\ a \in Int /\ \A j \in DOMAIN s : j \in Int
  OBVIOUS
<1> HIDE DEF R, t
<1>4. a \in R /\ a + 1 \in R
  BY <1>2 DEF KeywordAt, Letters
<1>5. \A j \in R : j = a \/ j = a + 1
  <2> SUFFICES ASSUME NEW j \in R, j # a, j # a + 1 PROVE FALSE
    OBVIOUS
  <2>1. j \in DOMAIN s /\ j \in Int
    BY <1>2, <1>3
  <2>2. CASE j < a
    <3>1. a - 1 \in DOMAIN s
      BY <1>3, <2>1, <2>2
    <3>2. a - 1 \in R
      BY <1>2, <1>3, <1>4, <2>1, <2>2, <3>1
    <3> QED BY <1>2, <3>1, <3>2 DEF KeywordAt
  <2>3. CASE a + 1 < j
    <3>1. a + 2 \in DOMAIN s
      BY <1>3, <2>1, <2>3
    <3>2. a + 2 \in R
      BY <1>2, <1>3, <1>4, <2>1, <2>3, <3>1
    <3> QED BY <1>2, <3>1, <3>2 DEF KeywordAt
  <2> QED BY <1>3, <2>1, <2>2, <2>3
<1>6. PICK at : Selects(at, s, R, t)
  BY <1>1
<1>7. Len(t) \in Nat
  BY <1>1
<1>8. PICK k \in 1 .. Len(t) : at[k] = a
  BY <1>2, <1>4, <1>6 DEF Selects
<1>9. PICK m \in 1 .. Len(t) : at[m] = a + 1
  BY <1>2, <1>4, <1>6 DEF Selects
<1>10. \A j, l \in 1 .. Len(t) : j < l => at[j] < at[l]
  BY <1>6 DEF Selects
<1>11. \A j \in 1 .. Len(t) : at[j] = a \/ at[j] = a + 1
  BY <1>5, <1>6 DEF Selects
<1>12. \A j \in 1 .. Len(t) : j = k \/ j = m
  <2> SUFFICES ASSUME NEW j \in 1 .. Len(t), j # k, j # m PROVE FALSE
    OBVIOUS
  <2>1. (j < k \/ k < j) /\ (j < m \/ m < j)
    BY <1>7
  <2> QED BY <1>3, <1>8, <1>9, <1>10, <1>11, <2>1
<1>13. k < m
  <2> SUFFICES ASSUME m <= k PROVE FALSE
    BY <1>7
  <2>1. m < k \/ m = k
    BY <1>7
  <2> QED BY <1>3, <1>8, <1>9, <1>10, <2>1
<1>14. k = 1 /\ m = 2 /\ Len(t) = 2
  <2>1. 1 \in 1 .. Len(t) /\ Len(t) \in 1 .. Len(t)
    BY <1>7, <1>8
  <2>2. k = 1 /\ m = Len(t)
    BY <1>7, <1>12, <1>13, <2>1
  <2>3. 2 \in 1 .. Len(t)
    BY <1>7, <1>13, <2>2
  <2> QED BY <1>7, <1>12, <2>2, <2>3
<1>15. t[1] = "o" /\ t[2] = "r"
  BY <1>6, <1>8, <1>9, <1>14 DEF Selects, KeywordAt
<1>16. t = <<"o", "r">>
  BY <1>1, <1>14, <1>15
<1> QED BY <1>16 DEF IsKeyword, Keyword, R, t

-----------------------------------------------------------------------------
(* What is taken out makes no keyword.                                     *)

Free(s) == \A a \in DOMAIN s : ~KeywordAt(s, a)

\* Neighbouring letters are taken out or left together, and a letter's next
\* symbol is taken out only together with everything after it.
Together(s, I) ==
  /\ \A x \in DOMAIN s :
       x + 1 \in DOMAIN s /\ s[x] \in Letters /\ s[x + 1] \in Letters =>
         (x \in I <=> x + 1 \in I)
  /\ \A x, y \in DOMAIN s :
       x \in I /\ s[x] \in Letters /\ x + 1 \notin I /\ x < y => y \notin I

\* Then a keyword that is left has been one before.
LEMMA KeptKeyword ==
  ASSUME NEW X, NEW s \in Seq(X), NEW I, Together(s, I),
         NEW k \in DOMAIN Keep(s, I), KeywordAt(Keep(s, I), k)
  PROVE  \E x \in DOMAIN s : x \in I /\ KeywordAt(s, x)
<1> DEFINE t == Keep(s, I)
<1>1. t \in Seq(X) /\ \E at : Selects(at, s, I, t)
  BY KeepIs
<1>0. KeywordAt(t, k) /\ k \in DOMAIN t
  OBVIOUS
<1> HIDE DEF t
<1>2. PICK at : Selects(at, s, I, t)
  BY <1>1
<1>3. /\ DOMAIN s = 1 .. Len(s) /\ Len(s) \in Nat
      /\ DOMAIN t = 1 .. Len(t) /\ Len(t) \in Nat /\ k \in Int
  BY <1>0, <1>1
<1>4. /\ k \in 1 .. Len(t) /\ k + 1 \in 1 .. Len(t)
      /\ t[k] = "o" /\ t[k + 1] = "r"
      /\ k - 1 \in 1 .. Len(t) => t[k - 1] \notin Letters
      /\ k + 2 \in 1 .. Len(t) => t[k + 2] \notin Letters
  BY <1>0, <1>3 DEF KeywordAt
<1>5. /\ \A j \in 1 .. Len(t) :
           /\ at[j] \in DOMAIN s /\ at[j] \in I /\ t[j] = s[at[j]] /\ at[j] \in Int
           /\ \A m \in 1 .. Len(t) : j < m => at[j] < at[m]
      /\ \A x \in DOMAIN s : x \in I => \E j \in 1 .. Len(t) : at[j] = x
  BY <1>2, <1>3 DEF Selects
<1> DEFINE x == at[k]
           y == at[k + 1]
<1>6. /\ x \in DOMAIN s /\ x \in I /\ x \in Int /\ s[x] = "o"
      /\ y \in DOMAIN s /\ y \in I /\ y \in Int /\ s[y] = "r" /\ x < y
  <2>1. k < k + 1
    BY <1>3
  <2> QED BY <1>4, <1>5, <2>1
<1>7. \A j, m \in 1 .. Len(t) : at[j] < at[m] => j < m
  <2> SUFFICES ASSUME NEW j \in 1 .. Len(t), NEW m \in 1 .. Len(t), at[j] < at[m], m <= j
               PROVE  FALSE
    BY <1>3
  <2>1. m < j \/ m = j
    BY <1>3
  <2> QED BY <1>5, <2>1
<1> HIDE DEF x, y
<1>8. y = x + 1
  <2> SUFFICES ASSUME x + 1 < y PROVE FALSE
    BY <1>6
  <2>1. x + 1 \in DOMAIN s /\ x < x + 1
    BY <1>3, <1>6
  <2>2. x + 1 \notin I
    <3> SUFFICES ASSUME NEW j \in 1 .. Len(t), at[j] = x + 1 PROVE FALSE
      BY <1>5, <2>1
    <3>1. k < j /\ j < k + 1
      BY <1>4, <1>6, <1>7, <2>1 DEF x, y
    <3> QED BY <1>3, <3>1
  <2> QED BY <1>6, <2>2 DEF Together, Letters
<1>9. x - 1 \in DOMAIN s => s[x - 1] \notin Letters
  <2> SUFFICES ASSUME x - 1 \in DOMAIN s, s[x - 1] \in Letters PROVE FALSE
    OBVIOUS
  <2>1. (x - 1) + 1 = x /\ x - 1 < x
    BY <1>6
  <2>2. x - 1 \in I
    BY <1>6, <2>1 DEF Together, Letters
  <2>3. PICK j \in 1 .. Len(t) : at[j] = x - 1
    BY <1>5, <2>2
  <2>4. j < k
    BY <1>4, <1>7, <2>1, <2>3 DEF x
  <2>5. k - 1 \in 1 .. Len(t) /\ k - 1 < k /\ (j < k - 1 \/ j = k - 1)
    BY <1>3, <1>4, <2>4
  <2>6. at[k - 1] < x /\ at[k - 1] \in Int
    BY <1>4, <1>5, <2>5 DEF x
  <2>7. j = k - 1
    <3> SUFFICES ASSUME j < k - 1 PROVE FALSE
      BY <2>5
    <3>1. x - 1 < at[k - 1]
      BY <1>5, <2>3, <2>5
    <3> QED BY <1>6, <2>6, <3>1
  <2> QED BY <1>4, <1>5, <2>3, <2>7
<1>10. x + 2 \in DOMAIN s => s[x + 2] \notin Letters
  <2> SUFFICES ASSUME x + 2 \in DOMAIN s, s[x + 2] \in Letters PROVE FALSE
    OBVIOUS
  <2>1. y + 1 = x + 2 /\ y < x + 2
    BY <1>6, <1>8
  <2>2. x + 2 \in I
    BY <1>6, <2>1 DEF Together, Letters
  <2>3. PICK j \in 1 .. Len(t) : at[j] = x + 2
    BY <1>5, <2>2
  <2>4. k + 1 < j
    BY <1>4, <1>7, <2>1, <2>3 DEF y
  <2>5. k + 2 \in 1 .. Len(t) /\ k + 1 < k + 2 /\ (k + 2 < j \/ j = k + 2)
    BY <1>3, <1>4, <2>4
  <2>6. y < at[k + 2] /\ at[k + 2] \in Int
    BY <1>4, <1>5, <2>5 DEF y
  <2>7. j = k + 2
    <3> SUFFICES ASSUME k + 2 < j PROVE FALSE
      BY <2>5
    <3>1. at[k + 2] < x + 2
      BY <1>5, <2>3, <2>5
    <3> QED BY <1>6, <1>8, <2>6, <3>1
  <2> QED BY <1>4, <1>5, <2>3, <2>7
<1>11. KeywordAt(s, x)
  BY <1>6, <1>8, <1>9, <1>10 DEF KeywordAt
<1> QED BY <1>6, <1>11

LEMMA KeepFree ==
  ASSUME NEW X, NEW s \in Seq(X), NEW I, Together(s, I), Free(s)
  PROVE  Keep(s, I) \in Seq(X) /\ Free(Keep(s, I))
BY KeepIs, KeptKeyword DEF Free

\* _exReplaceWords: a keyword is taken out with all its letters, and what was
\* beside it were no letters.
LEMMA NoKeywordsFree ==
  ASSUME NEW X, NEW s \in Seq(X)
  PROVE  NoKeywords(s) \in Seq(X) /\ Free(NoKeywords(s))
<1> DEFINE I == {i \in DOMAIN s : ~IsKeyword(s, i)}
<1>1. NoKeywords(s) = Keep(s, I)
  BY DEF NoKeywords
<1>2. DOMAIN s = 1 .. Len(s) /\ Len(s) \in Nat
  OBVIOUS
<1>3. \A x \in DOMAIN s :
        x + 1 \in DOMAIN s /\ s[x] \in Letters /\ s[x + 1] \in Letters =>
          (IsKeyword(s, x) <=> IsKeyword(s, x + 1))
  <2> SUFFICES ASSUME NEW x \in DOMAIN s, x + 1 \in DOMAIN s,
                      s[x] \in Letters, s[x + 1] \in Letters
               PROVE  IsKeyword(s, x) <=> IsKeyword(s, x + 1)
    OBVIOUS
  <2>1. x \in Int
    BY <1>2
  <2>2. \A k \in Int : x <= k /\ k <= x + 1 => s[k] \in Letters
    BY <2>1
  <2>3. \A j \in DOMAIN s : j \in RunAt(s, x, Letters) <=> j \in RunAt(s, x + 1, Letters)
    <3> SUFFICES ASSUME NEW j \in DOMAIN s
                 PROVE  j \in RunAt(s, x, Letters) <=> j \in RunAt(s, x + 1, Letters)
      OBVIOUS
    <3>1. j \in Int
      BY <1>2
    <3>2. ASSUME \A k \in (x .. j) \cup (j .. x) : s[k] \in Letters,
                 NEW k \in ((x + 1) .. j) \cup (j .. (x + 1))
          PROVE  s[k] \in Letters
      <4>1. k \in (x .. j) \cup (j .. x) \/ k = x + 1
        BY <2>1, <3>1
      <4> QED BY <3>2, <4>1
    <3>3. ASSUME \A k \in ((x + 1) .. j) \cup (j .. (x + 1)) : s[k] \in Letters,
                 NEW k \in (x .. j) \cup (j .. x)
          PROVE  s[k] \in Letters
      <4>1. k \in ((x + 1) .. j) \cup (j .. (x + 1)) \/ k = x
        BY <2>1, <3>1
      <4> QED BY <3>3, <4>1
    <3> QED BY <3>2, <3>3 DEF RunAt
  <2>4. RunAt(s, x, Letters) = RunAt(s, x + 1, Letters)
    <3>1. RunAt(s, x, Letters) \subseteq DOMAIN s /\ RunAt(s, x + 1, Letters) \subseteq DOMAIN s
      BY DEF RunAt
    <3> QED BY <2>3, <3>1
  <2> QED BY <2>4 DEF IsKeyword
<1>4. \A x \in DOMAIN s : IsKeyword(s, x) => s[x] \in Letters
  <2> SUFFICES ASSUME NEW x \in DOMAIN s, IsKeyword(s, x) PROVE s[x] \in Letters
    OBVIOUS
  <2>1. PICK a \in {x - 1, x} : KeywordAt(s, a)
    BY IsKeywordAt
  <2>2. x \in Int /\ (x - 1) + 1 = x
    BY <1>2
  <2> QED BY <2>1, <2>2 DEF KeywordAt, Letters
<1>5. Together(s, I)
  <2>1. ASSUME NEW x \in DOMAIN s, NEW y \in DOMAIN s, x \in I, s[x] \in Letters,
               x + 1 \notin I, x < y
        PROVE  y \notin I
    <3>1. x + 1 \in DOMAIN s
      BY <1>2, <2>1
    <3>2. IsKeyword(s, x + 1)
      BY <2>1, <3>1
    <3> QED BY <1>3, <1>4, <2>1, <3>1, <3>2
  <2> QED BY <1>3, <2>1 DEF Together
<1> HIDE DEF I
<1>6. Free(Keep(s, I))
  <2> SUFFICES ASSUME NEW k \in DOMAIN Keep(s, I), KeywordAt(Keep(s, I), k) PROVE FALSE
    BY DEF Free
  <2>1. PICK x \in DOMAIN s : x \in I /\ KeywordAt(s, x)
    BY <1>5, KeptKeyword
  <2> QED BY <2>1, KeywordAtIs DEF I
<1> QED BY <1>1, <1>6, KeepIs

\* A short word has no symbol of a word beside it.
LEMMA ShortIs ==
  ASSUME NEW X, NEW s \in Seq(X), NEW i \in DOMAIN s, IsShort(s, i)
  PROVE  /\ i + 1 \in DOMAIN s => s[i + 1] \notin Word
         /\ i - 1 \in DOMAIN s => s[i - 1] \notin Word
<1> DEFINE R == RunAt(s, i, Word)
<1>1. DOMAIN s = 1 .. Len(s) /\ Len(s) \in Nat /\ i \in Int
  OBVIOUS
<1>2. /\ R \subseteq DOMAIN s /\ i \in R
      /\ i + 1 \in DOMAIN s /\ s[i + 1] \in Word => i + 1 \in R
      /\ i - 1 \in DOMAIN s /\ s[i - 1] \in Word => i - 1 \in R
  <2>1. s[i] \in Word
    BY DEF IsShort
  <2>2. i \in R
    BY <2>1, RunIs
  <2> HIDE DEF R
  <2> QED BY <2>2, RunIs DEF R
<1>3. Cardinality(R) < 2
  BY DEF IsShort, MinWordLength
<1> HIDE DEF R
<1>4. IsFiniteSet(R) /\ Cardinality(R) \in Nat
  <2>1. IsFiniteSet(DOMAIN s)
    BY <1>1, FS_Interval
  <2> QED BY <1>2, <2>1, FS_Subset, FS_CardinalityType
<1>5. ASSUME NEW j \in R PROVE j = i
  <2>1. Cardinality(R) = 0 \/ Cardinality(R) = 1
    BY <1>3, <1>4
  <2>2. R # {}
    BY <1>2
  <2>3. Cardinality(R) = 1
    BY <1>4, <2>1, <2>2, FS_EmptySet
  <2>4. PICK x : R = {x}
    BY <1>4, <2>3, FS_Singleton
  <2> QED BY <1>2, <2>4
<1> QED BY <1>1, <1>2, <1>5

\* _exShortWords.
LEMMA NoShortWordsFree ==
  ASSUME NEW X, NEW s \in Seq(X), Free(s)
  PROVE  NoShortWords(s) \in Seq(X) /\ Free(NoShortWords(s))
<1> DEFINE I == {i \in DOMAIN s : ~IsShort(s, i)}
<1>1. DOMAIN s = 1 .. Len(s) /\ Len(s) \in Nat
  OBVIOUS
<1>2. Letters \subseteq Word
  BY DEF Word
<1>3. ASSUME NEW x \in DOMAIN s, x + 1 \in DOMAIN s, s[x] \in Letters, s[x + 1] \in Letters
      PROVE  x \in I /\ x + 1 \in I
  <2>1. (x + 1) - 1 = x
    BY <1>1
  <2> QED BY <1>2, <1>3, <2>1, ShortIs
<1>4. ASSUME NEW x \in DOMAIN s, NEW y \in DOMAIN s, x \in I, s[x] \in Letters,
             x + 1 \notin I, x < y
      PROVE  y \notin I
  <2>1. x + 1 \in DOMAIN s /\ (x + 1) - 1 = x
    BY <1>1, <1>4
  <2>2. IsShort(s, x + 1)
    BY <1>4, <2>1
  <2> QED BY <1>2, <1>4, <2>1, <2>2, ShortIs
<1>5. Together(s, I)
  BY <1>3, <1>4 DEF Together
<1> HIDE DEF I
<1>6. Keep(s, I) \in Seq(X) /\ Free(Keep(s, I))
  BY <1>5, KeepFree
<1> QED BY <1>6 DEF NoShortWords, I

-----------------------------------------------------------------------------
(* Separators.                                                             *)

\* Selects and Gaps in one.
Neighbours(at, s, I, t) ==
  /\ \A k \in 1 .. Len(t) : /\ at[k] \in DOMAIN s /\ at[k] \in Int
                            /\ at[k] \in I /\ t[k] = s[at[k]]
  /\ \A k \in 1 .. Len(t) : k + 1 \in 1 .. Len(t) =>
       /\ at[k] < at[k + 1]
       /\ \A x \in DOMAIN s : at[k] < x /\ x < at[k + 1] => x \notin I
  /\ \A x \in DOMAIN s : 1 \in 1 .. Len(t) /\ x < at[1] => x \notin I
  /\ \A x \in DOMAIN s : Len(t) \in 1 .. Len(t) /\ at[Len(t)] < x => x \notin I

LEMMA NeighboursAre ==
  ASSUME NEW X, NEW s \in Seq(X), NEW I
  PROVE  /\ Keep(s, I) \in Seq(X)
         /\ \E at : Neighbours(at, s, I, Keep(s, I))
<1> DEFINE t == Keep(s, I)
<1>1. t \in Seq(X) /\ \E at : Selects(at, s, I, t)
  BY KeepIs
<1> HIDE DEF t
<1>2. PICK at : Selects(at, s, I, t)
  BY <1>1
<1>3. \A x \in DOMAIN s : x \in Int
  OBVIOUS
<1>4. \A k \in 1 .. Len(t) : /\ at[k] \in DOMAIN s /\ at[k] \in Int
                            /\ at[k] \in I /\ t[k] = s[at[k]]
  BY <1>2, <1>3 DEF Selects
<1>5. Neighbours(at, s, I, t)
  BY <1>1, <1>2, <1>4, Gaps DEF Neighbours
<1> QED BY <1>1, <1>5 DEF t

\* No two separators beside each other, and none at an end.
Apart(s) ==
  \A i \in DOMAIN s : i + 1 \in DOMAIN s => ~({s[i], s[i + 1]} \subseteq Separators)

Tidy(s) ==
  /\ Apart(s)
  /\ 1 \in DOMAIN s => s[1] \notin Separators /\ s[Len(s)] \notin Separators

NotFirst(s, C) == {i \in DOMAIN s : i > 1 => ~({s[i - 1], s[i]} \subseteq C)}

LEMMA CollapseFree ==
  ASSUME NEW X, NEW s \in Seq(X), NEW C, C \cap Letters = {}, Free(s)
  PROVE  Collapse(s, C) \in Seq(X) /\ Free(Collapse(s, C))
<1> DEFINE I == NotFirst(s, C)
<1>1. DOMAIN s = 1 .. Len(s) /\ Len(s) \in Nat
  OBVIOUS
<1>2. \A x \in DOMAIN s : s[x] \in Letters => x \in I
  BY DEF NotFirst
<1>3. ASSUME NEW x \in DOMAIN s, NEW y \in DOMAIN s, x \in I, s[x] \in Letters,
             x + 1 \notin I, x < y
      PROVE  y \notin I
  <2>1. x + 1 \in DOMAIN s /\ (x + 1) - 1 = x
    BY <1>1, <1>3
  <2>2. s[x] \in C
    BY <1>3, <2>1 DEF NotFirst
  <2> QED BY <1>3, <2>2
<1>4. Together(s, I)
  BY <1>2, <1>3 DEF Together
<1> HIDE DEF I
<1>5. Keep(s, I) \in Seq(X) /\ Free(Keep(s, I))
  BY <1>4, KeepFree
<1> QED BY <1>5 DEF Collapse, I, NotFirst

\* _exNormSpaces.
LEMMA CollapseApart ==
  ASSUME NEW X, NEW s \in Seq(X)
  PROVE  Apart(Collapse(s, Separators))
<1> DEFINE I == NotFirst(s, Separators)
           t == Keep(s, I)
<1>0. t = Collapse(s, Separators)
  BY DEF Collapse, NotFirst
<1>1. DOMAIN s = 1 .. Len(s) /\ Len(s) \in Nat
  OBVIOUS
<1>2. t \in Seq(X) /\ \E at : Neighbours(at, s, I, t)
  BY NeighboursAre
<1> HIDE DEF t
<1>3. DOMAIN t = 1 .. Len(t) /\ Len(t) \in Nat
  BY <1>2
<1>4. PICK at : Neighbours(at, s, I, t)
  BY <1>2
<1>5. SUFFICES ASSUME NEW k \in 1 .. Len(t), k + 1 \in 1 .. Len(t),
                      t[k] \in Separators, t[k + 1] \in Separators
               PROVE  FALSE
  BY <1>0, <1>3 DEF Apart
<1> DEFINE x == at[k]
           y == at[k + 1]
<1> HIDE DEF I
<1>6. /\ x \in DOMAIN s /\ x \in Int /\ s[x] \in Separators
      /\ y \in DOMAIN s /\ y \in Int /\ s[y] \in Separators /\ y \in I
      /\ x < y
      /\ \A z \in DOMAIN s : x < z /\ z < y => z \notin I
  BY <1>4, <1>5 DEF Neighbours
<1> HIDE DEF x, y
<1>7. y - 1 \in DOMAIN s /\ (x = y - 1 \/ x < y - 1) /\ y - 1 < y /\ y > 1
  BY <1>1, <1>6
<1>8. s[y - 1] \in Separators
  <2>1. CASE x < y - 1
    <3>1. y - 1 \notin I
      BY <1>6, <1>7, <2>1
    <3> QED BY <1>7, <3>1 DEF I, NotFirst
  <2> QED BY <1>6, <1>7, <2>1
<1> QED BY <1>6, <1>7, <1>8 DEF I, NotFirst

LEMMA CollapseTidy ==
  ASSUME NEW X, NEW s \in Seq(X), NEW C, C = Separators \/ C \cap Separators = {}, Tidy(s)
  PROVE  Tidy(Collapse(s, C))
<1> DEFINE I == NotFirst(s, C)
           t == Keep(s, I)
<1>0. t = Collapse(s, C)
  BY DEF Collapse, NotFirst
<1>1. DOMAIN s = 1 .. Len(s) /\ Len(s) \in Nat
  OBVIOUS
<1>2. t \in Seq(X) /\ \E at : Neighbours(at, s, I, t)
  BY NeighboursAre
<1> HIDE DEF t
<1>3. DOMAIN t = 1 .. Len(t) /\ Len(t) \in Nat
  BY <1>2
<1>4. PICK at : Neighbours(at, s, I, t)
  BY <1>2
<1>5. \A x \in DOMAIN s : x + 1 \in DOMAIN s /\ s[x] \in Separators => x + 1 \in I
  <2> SUFFICES ASSUME NEW x \in DOMAIN s, x + 1 \in DOMAIN s, s[x] \in Separators, x + 1 \notin I
               PROVE  FALSE
    OBVIOUS
  <2>1. (x + 1) - 1 = x
    BY <1>1
  <2>2. {s[x], s[x + 1]} \subseteq C
    BY <2>1 DEF NotFirst
  <2> QED BY <2>2 DEF Tidy, Apart
<1>6. 1 \in DOMAIN s => 1 \in I
  BY DEF NotFirst
<1> HIDE DEF I
<1>7. ASSUME NEW k \in 1 .. Len(t), k + 1 \in 1 .. Len(t),
             t[k] \in Separators, t[k + 1] \in Separators
      PROVE  FALSE
  <2> DEFINE x == at[k]
             y == at[k + 1]
  <2>1. /\ x \in DOMAIN s /\ x \in Int /\ s[x] \in Separators
        /\ y \in DOMAIN s /\ y \in Int /\ s[y] \in Separators
        /\ x < y
        /\ \A z \in DOMAIN s : x < z /\ z < y => z \notin I
    BY <1>4, <1>7 DEF Neighbours
  <2> HIDE DEF x, y
  <2>2. x + 1 \in DOMAIN s /\ x < x + 1 /\ (y = x + 1 \/ x + 1 < y)
    BY <1>1, <2>1
  <2>3. y = x + 1
    BY <1>5, <2>1, <2>2
  <2> QED BY <2>1, <2>3 DEF Tidy, Apart
<1>8. ASSUME 1 \in 1 .. Len(t) PROVE t[1] \notin Separators /\ t[Len(t)] \notin Separators
  <2>1. Len(t) \in 1 .. Len(t)
    BY <1>3, <1>8
  <2> DEFINE x == at[1]
             z == at[Len(t)]
  <2>2. /\ x \in DOMAIN s /\ x \in Int /\ s[x] = t[1]
        /\ z \in DOMAIN s /\ z \in Int /\ s[z] = t[Len(t)]
        /\ \A i \in DOMAIN s : i < x => i \notin I
        /\ \A i \in DOMAIN s : z < i => i \notin I
    BY <1>4, <1>8, <2>1 DEF Neighbours
  <2> HIDE DEF x, z
  <2>3. 1 \in DOMAIN s
    BY <1>1, <2>2
  <2>4. x = 1
    BY <1>1, <1>6, <2>2, <2>3
  <2>5. z = Len(s) \/ (z + 1 \in DOMAIN s /\ z < z + 1)
    BY <1>1, <2>2
  <2>6. s[z] \notin Separators
    BY <1>5, <2>2, <2>3, <2>5 DEF Tidy
  <2> QED BY <2>2, <2>3, <2>4, <2>6 DEF Tidy
<1> QED BY <1>0, <1>3, <1>7, <1>8 DEF Tidy, Apart

Inner(s, C) ==
  {i \in DOMAIN s : /\ \E j \in 1 .. i : s[j] \notin C
                   /\ \E j \in i .. Len(s) : s[j] \notin C}

LEMMA InnerIs ==
  ASSUME NEW X, NEW s \in Seq(X), NEW C
  PROVE  /\ \A i \in DOMAIN s : s[i] \notin C => i \in Inner(s, C)
         /\ \A x, y \in Inner(s, C) : \A z \in DOMAIN s : x < z /\ z < y => z \in Inner(s, C)
         /\ \A x \in Inner(s, C) : \E j \in DOMAIN s : j <= x /\ s[j] \notin C
         /\ \A x \in Inner(s, C) : \E j \in DOMAIN s : x <= j /\ s[j] \notin C
<1>1. DOMAIN s = 1 .. Len(s) /\ Len(s) \in Nat /\ \A i \in DOMAIN s : i \in Int
  OBVIOUS
<1>2. ASSUME NEW i \in DOMAIN s, s[i] \notin C PROVE i \in Inner(s, C)
  <2>1. i \in 1 .. i /\ i \in i .. Len(s)
    BY <1>1
  <2> QED BY <1>2, <2>1 DEF Inner
<1>3. ASSUME NEW x \in Inner(s, C)
      PROVE  /\ x \in DOMAIN s
             /\ \E j \in DOMAIN s : j <= x /\ s[j] \notin C
             /\ \E j \in DOMAIN s : x <= j /\ s[j] \notin C
  <2>1. x \in DOMAIN s
    BY DEF Inner
  <2>2. PICK j \in 1 .. x : s[j] \notin C
    BY DEF Inner
  <2>3. PICK l \in x .. Len(s) : s[l] \notin C
    BY DEF Inner
  <2>4. j \in DOMAIN s /\ j <= x /\ l \in DOMAIN s /\ x <= l
    BY <1>1, <2>1
  <2> QED BY <2>1, <2>2, <2>3, <2>4
<1>4. ASSUME NEW x \in Inner(s, C), NEW y \in Inner(s, C), NEW z \in DOMAIN s, x < z, z < y
      PROVE  z \in Inner(s, C)
  <2>1. PICK j \in DOMAIN s : j <= x /\ s[j] \notin C
    BY <1>3
  <2>2. PICK l \in DOMAIN s : y <= l /\ s[l] \notin C
    BY <1>3
  <2>3. x \in Int /\ y \in Int
    BY <1>1, <1>3
  <2>4. j \in 1 .. z /\ l \in z .. Len(s)
    BY <1>1, <1>4, <2>1, <2>2, <2>3
  <2> QED BY <2>1, <2>2, <2>4 DEF Inner
<1> QED BY <1>2, <1>3, <1>4

LEMMA TrimFree ==
  ASSUME NEW X, NEW s \in Seq(X), NEW C, C \cap Letters = {}, Free(s)
  PROVE  Trim(s, C) \in Seq(X) /\ Free(Trim(s, C))
<1> DEFINE I == Inner(s, C)
<1>1. DOMAIN s = 1 .. Len(s) /\ Len(s) \in Nat
  OBVIOUS
<1>2. \A x \in DOMAIN s : s[x] \in Letters => x \in I
  BY InnerIs
<1>3. ASSUME NEW x \in DOMAIN s, NEW y \in DOMAIN s, x \in I, s[x] \in Letters,
             x + 1 \notin I, x < y
      PROVE  y \notin I
  <2>1. x + 1 \in DOMAIN s /\ x < x + 1 /\ (y = x + 1 \/ x + 1 < y)
    BY <1>1, <1>3
  <2> QED BY <1>3, <2>1, InnerIs
<1>4. Together(s, I)
  BY <1>2, <1>3 DEF Together
<1> HIDE DEF I
<1>5. Keep(s, I) \in Seq(X) /\ Free(Keep(s, I))
  BY <1>4, KeepFree
<1> QED BY <1>5 DEF Trim, I, Inner

\* _exTrimSpaces, and Trim of a text that is tidy already.
LEMMA TrimTidy ==
  ASSUME NEW X, NEW s \in Seq(X), NEW C, C \subseteq Separators, Apart(s),
         C = Separators \/ Tidy(s)
  PROVE  Tidy(Trim(s, C))
<1> DEFINE I == Inner(s, C)
           t == Keep(s, I)
<1>0. t = Trim(s, C)
  BY DEF Trim, Inner
<1>1. DOMAIN s = 1 .. Len(s) /\ Len(s) \in Nat
  OBVIOUS
<1>2. t \in Seq(X) /\ \E at : Neighbours(at, s, I, t)
  BY NeighboursAre
<1> HIDE DEF t
<1>3. DOMAIN t = 1 .. Len(t) /\ Len(t) \in Nat
  BY <1>2
<1>4. PICK at : Neighbours(at, s, I, t)
  BY <1>2
<1>5. /\ \A i \in DOMAIN s : s[i] \notin C => i \in I
      /\ \A x, y \in I : \A z \in DOMAIN s : x < z /\ z < y => z \in I
      /\ \A x \in I : \E j \in DOMAIN s : j <= x /\ s[j] \notin C
      /\ \A x \in I : \E j \in DOMAIN s : x <= j /\ s[j] \notin C
  BY InnerIs
<1> HIDE DEF I
<1>6. ASSUME NEW k \in 1 .. Len(t), k + 1 \in 1 .. Len(t),
             t[k] \in Separators, t[k + 1] \in Separators
      PROVE  FALSE
  <2> DEFINE x == at[k]
             y == at[k + 1]
  <2>1. /\ x \in DOMAIN s /\ x \in Int /\ s[x] \in Separators /\ x \in I
        /\ y \in DOMAIN s /\ y \in Int /\ s[y] \in Separators /\ y \in I
        /\ x < y
        /\ \A z \in DOMAIN s : x < z /\ z < y => z \notin I
    BY <1>4, <1>6 DEF Neighbours
  <2> HIDE DEF x, y
  <2>2. x + 1 \in DOMAIN s /\ x < x + 1 /\ (y = x + 1 \/ x + 1 < y)
    BY <1>1, <2>1
  <2>3. y = x + 1
    BY <1>5, <2>1, <2>2
  <2> QED BY <2>1, <2>3 DEF Apart
<1>7. ASSUME 1 \in 1 .. Len(t) PROVE t[1] \notin Separators /\ t[Len(t)] \notin Separators
  <2>1. Len(t) \in 1 .. Len(t)
    BY <1>3, <1>7
  <2> DEFINE x == at[1]
             z == at[Len(t)]
  <2>2. /\ x \in DOMAIN s /\ x \in Int /\ s[x] = t[1] /\ x \in I
        /\ z \in DOMAIN s /\ z \in Int /\ s[z] = t[Len(t)] /\ z \in I
        /\ \A i \in DOMAIN s : i < x => i \notin I
        /\ \A i \in DOMAIN s : z < i => i \notin I
    BY <1>4, <1>7, <2>1 DEF Neighbours
  <2> HIDE DEF x, z
  <2>3. PICK j \in DOMAIN s : j <= x /\ s[j] \notin C
    BY <1>5, <2>2
  <2>4. PICK l \in DOMAIN s : z <= l /\ s[l] \notin C
    BY <1>5, <2>2
  <2>5. j = x /\ l = z
    BY <1>1, <1>5, <2>2, <2>3, <2>4
  <2>6. CASE C = Separators
    BY <2>2, <2>3, <2>4, <2>5, <2>6
  <2>7. CASE Tidy(s)
    <3>1. 1 \in DOMAIN s /\ Len(s) \in DOMAIN s
      BY <1>1, <2>2
    <3>2. 1 \in I /\ Len(s) \in I
      BY <1>5, <2>7, <3>1 DEF Tidy
    <3>3. x = 1 /\ z = Len(s)
      BY <1>1, <2>2, <3>1, <3>2
    <3> QED BY <2>2, <2>7, <3>1, <3>3 DEF Tidy
  <2> QED BY <2>6, <2>7
<1> QED BY <1>0, <1>3, <1>6, <1>7 DEF Tidy, Apart

-----------------------------------------------------------------------------
(* PrepareSearchCriteriaStep1.                                             *)

\* Whatever was typed: no keyword, no two separators beside each other, none at
\* an end.
LEMMA Step1Is ==
  ASSUME NEW s \in Seq(Symbols)
  PROVE  Step1(s) \in Seq(Symbols) /\ Free(Step1(s)) /\ Tidy(Step1(s))
<1> DEFINE a == Without(s, {"bad"})
           b == NoKeywords(a)
           c == NoShortWords(b)
           d == Collapse(c, Separators)
           e == Trim(d, Separators)
           f == Collapse(e, {"*"})
<1>1. a \in Seq(Symbols)
  BY KeepIs DEF Without
<1>2. b \in Seq(Symbols) /\ Free(b)
  <2> HIDE DEF a
  <2> QED BY <1>1, NoKeywordsFree
<1>3. c \in Seq(Symbols) /\ Free(c)
  <2> HIDE DEF b
  <2> QED BY <1>2, NoShortWordsFree
<1>4. Separators \cap Letters = {} /\ {"*"} \cap Letters = {} /\ {"*"} \cap Separators = {}
  BY DEF Separators, Letters
<1>5. d \in Seq(Symbols) /\ Free(d) /\ Apart(d)
  <2> HIDE DEF c
  <2> QED BY <1>3, <1>4, CollapseFree, CollapseApart
<1>6. e \in Seq(Symbols) /\ Free(e) /\ Tidy(e)
  <2> HIDE DEF d
  <2> QED BY <1>4, <1>5, TrimFree, TrimTidy
<1>7. f \in Seq(Symbols) /\ Free(f) /\ Tidy(f)
  <2> HIDE DEF e
  <2> QED BY <1>4, <1>6, CollapseFree, CollapseTidy
<1>8. f = Step1(s)
  BY DEF Step1, Normal
<1> HIDE DEF f
<1> QED BY <1>7, <1>8

-----------------------------------------------------------------------------
(* PrepareSearchCriteriaStep2 and the expression.                          *)

Brackets == {"(", ")"}
ExprSymbols == (Symbols \ {"*"}) \cup Connectives \cup {"%", "(", ")"}

\* How many c there are up to i.
Count(s, c, i) == Cardinality({j \in 1 .. i : s[j] = c})

\* What a part of the expression is: a connective in it stands between things
\* it connects, its brackets are closed, an OR is inside of one, and it has no
\* keyword among its words.  ExpressionWellFormed says less of the expression
\* and is not enough to go on with: parts are put together at their ends.
Connects(s) ==
  /\ s[1] \notin Connectives \cup {")"}
  /\ s[Len(s)] \notin Connectives \cup {"("}
  /\ \A i \in DOMAIN s : s[i] \in Connectives =>
       /\ i > 1 /\ i < Len(s)
       /\ s[i - 1] \notin Connectives \cup {"("}
       /\ s[i + 1] \notin Connectives \cup {")"}

Closed(s) ==
  /\ Count(s, "(", Len(s)) = Count(s, ")", Len(s))
  /\ \A i \in DOMAIN s : s[i] = "OR" => Count(s, "(", i) = Count(s, ")", i) + 1

Good(s) ==
  /\ s \in Seq(ExprSymbols) /\ s # <<>>
  /\ Free(s) /\ Connects(s) /\ Closed(s)

\* A separator becomes a connective, a mask's asterisk a per cent sign; so there
\* is no new word, and no connective beside another one.
LEMMA JoinedIs ==
  ASSUME NEW s \in Seq(Symbols), s # <<>>, Tidy(s), Free(s), NEW p \in Parts
  PROVE  LET w == Joined(s, p)
         IN /\ w \in Seq(ExprSymbols) /\ Len(w) = Len(s) /\ w # <<>>
            /\ Free(w) /\ Connects(w)
            /\ \A i \in DOMAIN w : w[i] \notin Brackets
            /\ \A i \in DOMAIN w : w[i] = "OR" => p # "And" /\ Connected(s) # {}
<1> DEFINE w == Joined(s, p)
<1>1. Len(s) \in Nat /\ DOMAIN s = 1 .. Len(s) /\ Len(s) > 0
  OBVIOUS
<1>2. ASSUME NEW i \in DOMAIN s
      PROVE  /\ w[i] \in ExprSymbols
             /\ w[i] \notin Brackets
             /\ w[i] \in Connectives => s[i] \in Separators
             /\ w[i] = "OR" => p # "And" /\ i \in Connected(s)
             /\ w[i] \in Letters \/ s[i] \in Letters => w[i] = s[i]
  <2>1. w[i] = IF i \in Connected(s) THEN Connective(p)
               ELSE IF s[i] = "*" THEN "%" ELSE s[i]
    BY DEF Joined
  <2>2. s[i] \in Symbols
    OBVIOUS
  <2>3. i \in Connected(s) => s[i] \in Separators
    BY DEF Connected
  <2> HIDE DEF w
  <2> QED BY <2>1, <2>2, <2>3 DEF ExprSymbols, Connective, Connectives, Brackets,
                              Symbols, Word, Letters, Separators
<1>3. w = [i \in 1 .. Len(s) |-> w[i]]
  BY <1>1 DEF Joined
<1> HIDE DEF w
<1>4. w \in Seq(ExprSymbols) /\ Len(w) = Len(s) /\ w # <<>> /\ DOMAIN w = DOMAIN s
  BY <1>1, <1>2, <1>3
<1>5. Free(w)
  <2> SUFFICES ASSUME NEW a \in DOMAIN s, KeywordAt(w, a) PROVE KeywordAt(s, a)
    BY <1>4 DEF Free
  <2>1. s[a] = "o" /\ a + 1 \in DOMAIN s /\ s[a + 1] = "r"
    BY <1>2, <1>4 DEF KeywordAt, Letters
  <2>2. a - 1 \in DOMAIN s => s[a - 1] \notin Letters
    BY <1>2, <1>4 DEF KeywordAt
  <2>3. a + 2 \in DOMAIN s => s[a + 2] \notin Letters
    BY <1>2, <1>4 DEF KeywordAt
  <2> QED BY <2>1, <2>2, <2>3 DEF KeywordAt
<1>6. Connects(w)
  <2>1. ASSUME NEW i \in DOMAIN w, w[i] \in Connectives
        PROVE  /\ i > 1 /\ i < Len(w)
               /\ w[i - 1] \notin Connectives \cup {"("}
               /\ w[i + 1] \notin Connectives \cup {")"}
    <3>1. s[i] \in Separators
      BY <1>2, <1>4, <2>1
    <3>2. i # 1 /\ i # Len(s)
      BY <1>1, <3>1 DEF Tidy
    <3>3. i - 1 \in DOMAIN s /\ i + 1 \in DOMAIN s /\ (i - 1) + 1 = i
      BY <1>1, <1>4, <3>2
    <3>4. s[i - 1] \notin Separators /\ s[i + 1] \notin Separators
      BY <1>4, <3>1, <3>3 DEF Tidy, Apart
    <3> QED BY <1>1, <1>2, <1>4, <3>2, <3>3, <3>4 DEF Brackets
  <2>2. 1 \in DOMAIN s /\ Len(s) \in DOMAIN s
    BY <1>1
  <2>3. w[1] \notin Connectives \cup Brackets /\ w[Len(w)] \notin Connectives \cup Brackets
    BY <1>2, <1>4, <2>2 DEF Tidy
  <2> QED BY <2>1, <2>3 DEF Connects, Brackets
<1>7. \A i \in DOMAIN w : w[i] = "OR" => p # "And" /\ Connected(s) # {}
  BY <1>2, <1>4
<1>8. \A i \in DOMAIN w : w[i] \notin Brackets
  BY <1>2, <1>4
<1> QED BY <1>4, <1>5, <1>6, <1>7, <1>8 DEF w

\* A part without alternatives needs no brackets.
LEMMA PlainIsGood ==
  ASSUME NEW w \in Seq(ExprSymbols), w # <<>>, Free(w), Connects(w),
         \A i \in DOMAIN w : w[i] \notin Brackets,
         \A i \in DOMAIN w : w[i] # "OR"
  PROVE  Good(w)
<1>1. DOMAIN w = 1 .. Len(w) /\ Len(w) \in Nat
  OBVIOUS
<1>2. \A c \in Brackets : {j \in 1 .. Len(w) : w[j] = c} = {}
  BY <1>1
<1>3. Closed(w)
  BY <1>2 DEF Closed, Count, Brackets
<1> QED BY <1>3 DEF Good

\* Alternatives are put in brackets.
LEMMA BracketedIsGood ==
  ASSUME NEW j \in Seq(ExprSymbols), j # <<>>, Free(j), Connects(j),
         \A i \in DOMAIN j : j[i] \notin Brackets
  PROVE  Good(<<"(">> \o (j \o <<")">>))
<1> DEFINE w == <<"(">> \o (j \o <<")">>)
           n == Len(j)
<1>1. n \in Nat /\ n > 0 /\ DOMAIN j = 1 .. n
  OBVIOUS
<1>2. <<"(">> \in Seq(ExprSymbols) /\ <<")">> \in Seq(ExprSymbols)
  BY DEF ExprSymbols
<1>3. w \in Seq(ExprSymbols) /\ Len(w) = n + 2 /\ w # <<>>
  BY <1>1, <1>2
<1>4. w[1] = "(" /\ w[n + 2] = ")" /\ \A i \in 1 .. n : w[i + 1] = j[i]
  BY <1>1
<1> HIDE DEF w, n
<1>5. DOMAIN w = 1 .. n + 2
  BY <1>1, <1>3
<1>6. ASSUME NEW i \in 1 .. n + 2, i # 1, i # n + 2
      PROVE  i - 1 \in 1 .. n /\ w[i] = j[i - 1]
  <2>1. i - 1 \in 1 .. n /\ (i - 1) + 1 = i
    BY <1>1, <1>6
  <2> QED BY <1>4, <2>1
<1>7. \A c \in Brackets : c \notin Letters /\ c \notin Connectives /\ c # "OR"
  BY DEF Brackets, Letters, Connectives
<1>8. Free(w)
  <2> SUFFICES ASSUME NEW a \in DOMAIN w, KeywordAt(w, a) PROVE KeywordAt(j, a - 1) /\ a - 1 \in DOMAIN j
    BY DEF Free
  <2>1. w[a] = "o" /\ a + 1 \in 1 .. n + 2 /\ w[a + 1] = "r" /\ a \in 1 .. n + 2
    BY <1>5 DEF KeywordAt
  <2>2. a # 1 /\ a # n + 2 /\ a + 1 # n + 2 /\ a + 1 # 1
    BY <1>1, <1>4, <2>1
  <2>3. /\ a - 1 \in 1 .. n /\ (a - 1) + 1 \in 1 .. n /\ (a - 1) + 1 = (a + 1) - 1
        /\ w[a] = j[a - 1] /\ w[a + 1] = j[(a + 1) - 1]
    BY <1>1, <1>6, <2>1, <2>2
  <2>4. ASSUME (a - 1) - 1 \in 1 .. n PROVE j[(a - 1) - 1] \notin Letters
    <3>1. a - 1 \in 1 .. n + 2 /\ a - 1 # 1 /\ a - 1 # n + 2
      BY <1>1, <2>1, <2>4
    <3>2. w[a - 1] \notin Letters
      BY <1>5, <3>1 DEF KeywordAt
    <3> QED BY <1>6, <3>1, <3>2
  <2>5. ASSUME (a - 1) + 2 \in 1 .. n PROVE j[(a - 1) + 2] \notin Letters
    <3>1. a + 2 \in 1 .. n + 2 /\ a + 2 # 1 /\ a + 2 # n + 2 /\ (a + 2) - 1 = (a - 1) + 2
      BY <1>1, <2>1, <2>5
    <3>2. w[a + 2] \notin Letters
      BY <1>5, <3>1 DEF KeywordAt
    <3> QED BY <1>6, <3>1, <3>2
  <2> QED BY <1>1, <2>1, <2>3, <2>4, <2>5 DEF KeywordAt
<1>9. Connects(w)
  <2>1. w[1] \notin Connectives \cup {")"} /\ w[Len(w)] \notin Connectives \cup {"("}
    BY <1>3, <1>4 DEF Connectives
  <2>2. ASSUME NEW i \in 1 .. n + 2, w[i] \in Connectives
        PROVE  /\ i > 1 /\ i < n + 2
               /\ w[i - 1] \notin Connectives \cup {"("}
               /\ w[i + 1] \notin Connectives \cup {")"}
    <3>1. i # 1 /\ i # n + 2
      BY <1>4, <1>7, <2>2 DEF Brackets
    <3> DEFINE m == i - 1
    <3>2. m \in 1 .. n /\ j[m] \in Connectives
      BY <1>6, <2>2, <3>1
    <3>3. m > 1 /\ m < n /\ j[m - 1] \notin Connectives \cup {"("}
          /\ j[m + 1] \notin Connectives \cup {")"}
      BY <1>1, <3>2 DEF Connects, n
    <3>4. /\ i - 1 \in 1 .. n + 2 /\ i - 1 # 1 /\ i - 1 # n + 2 /\ (i - 1) - 1 = m - 1
          /\ i + 1 \in 1 .. n + 2 /\ i + 1 # 1 /\ i + 1 # n + 2 /\ (i + 1) - 1 = m + 1
      BY <1>1, <3>2, <3>3
    <3>5. w[i - 1] = j[m - 1] /\ w[i + 1] = j[m + 1]
      <4> HIDE DEF m
      <4> QED BY <1>6, <3>4
    <3> QED BY <1>1, <3>1, <3>3, <3>5
  <2> QED BY <1>3, <1>5, <2>1, <2>2 DEF Connects
<1>10. \A i \in 1 .. n : w[i + 1] \notin Brackets
  BY <1>1, <1>4
<1>11. Closed(w)
  <2>1. ASSUME NEW i \in 1 .. n + 2
        PROVE  {k \in 1 .. i : w[k] = "("} = {1}
    <3>1. \A k \in 1 .. i : k = 1 \/ k = n + 2 \/ k - 1 \in 1 .. n
      BY <1>1
    <3>2. \A k \in 1 .. i : k - 1 \in 1 .. n => (k - 1) + 1 = k
      BY <1>1
    <3>3. \A k \in 1 .. i : k # 1 => w[k] # "("
      BY <1>4, <1>10, <3>1, <3>2 DEF Brackets
    <3>4. 1 \in 1 .. i
      BY <1>1
    <3> QED BY <1>4, <3>3, <3>4
  <2>2. {k \in 1 .. n + 2 : w[k] = ")"} = {n + 2}
    <3>1. \A k \in 1 .. n + 2 : k = 1 \/ k = n + 2 \/ k - 1 \in 1 .. n
      BY <1>1
    <3>2. \A k \in 1 .. n + 2 : k - 1 \in 1 .. n => (k - 1) + 1 = k
      BY <1>1
    <3>3. \A k \in 1 .. n + 2 : k # n + 2 => w[k] # ")"
      BY <1>4, <1>10, <3>1, <3>2 DEF Brackets
    <3>4. n + 2 \in 1 .. n + 2
      BY <1>1
    <3> QED BY <1>4, <3>3, <3>4
  <2>3. ASSUME NEW i \in 1 .. n + 2, w[i] = "OR"
        PROVE  {k \in 1 .. i : w[k] = ")"} = {}
    <3>1. i # n + 2
      BY <1>4, <2>3
    <3>2. \A k \in 1 .. i : k \in 1 .. n + 2 /\ k # n + 2
      BY <1>1, <3>1
    <3> QED BY <2>2, <3>2
  <2>4. Count(w, "(", n + 2) = 1 /\ Count(w, ")", n + 2) = 1
    <3>1. n + 2 \in 1 .. n + 2
      BY <1>1
    <3> QED BY <2>1, <2>2, <3>1, FS_Singleton DEF Count
  <2>5. ASSUME NEW i \in 1 .. n + 2, w[i] = "OR"
        PROVE  Count(w, "(", i) = 1 /\ Count(w, ")", i) = 0
    BY <2>1, <2>3, <2>5, FS_Singleton, FS_EmptySet DEF Count
  <2> QED BY <1>3, <1>5, <2>4, <2>5 DEF Closed
<1>12. Good(w)
  BY <1>3, <1>8, <1>9, <1>11 DEF Good
<1> QED BY <1>12 DEF w

\* The first n symbols of w are u and others than c, the rest is v.
Parted(w, n, u, v, c) ==
  /\ Len(w) = n + Len(v)
  /\ \A k \in 1 .. Len(u) : k <= n /\ w[k] = u[k]
  /\ \A k \in 1 .. n : k > Len(u) => w[k] # c
  /\ \A k \in 1 .. Len(v) : w[n + k] = v[k]

\* What is counted in the whole is counted in the one and in the other.
LEMMA CountOfBoth ==
  ASSUME NEW X, NEW u \in Seq(X), NEW v \in Seq(X), NEW w \in Seq(X), NEW c,
         NEW n \in Nat, Parted(w, n, u, v, c), NEW i \in 0 .. Len(v)
  PROVE  /\ Count(u, c, Len(u)) \in Nat /\ Count(v, c, i) \in Nat
         /\ Count(w, c, n + i) = Count(u, c, Len(u)) + Count(v, c, i)
<1> DEFINE A == {k \in 1 .. Len(u) : u[k] = c}
           B == {k \in 1 .. i : v[k] = c}
           D == {k \in (n + 1) .. (n + i) : w[k] = c}
           W == {k \in 1 .. (n + i) : w[k] = c}
           f == [k \in B |-> n + k]
<1>0. /\ Len(w) = n + Len(v)
      /\ \A k \in 1 .. Len(u) : k <= n /\ w[k] = u[k]
      /\ \A k \in 1 .. n : k > Len(u) => w[k] # c
      /\ \A k \in 1 .. Len(v) : w[n + k] = v[k]
  BY DEF Parted
<1>1. Len(u) \in Nat /\ Len(v) \in Nat /\ i \in Nat /\ i <= Len(v)
  OBVIOUS
<1>2. IsFiniteSet(A) /\ IsFiniteSet(B) /\ IsFiniteSet(D)
  <2>1. A \subseteq 1 .. Len(u) /\ B \subseteq 1 .. i /\ D \subseteq (n + 1) .. (n + i)
    OBVIOUS
  <2>2. IsFiniteSet(1 .. Len(u)) /\ IsFiniteSet(1 .. i) /\ IsFiniteSet((n + 1) .. (n + i))
    <3>1. 1 \in Int /\ Len(u) \in Int /\ i \in Int /\ n + 1 \in Int /\ n + i \in Int
      BY <1>1
    <3> QED BY ONLY <3>1, FS_Interval
  <2> HIDE DEF A, B, D
  <2> QED BY <2>1, <2>2, FS_Subset
<1>3. W = A \cup D
  <2>1. \A k \in 1 .. (n + i) : k \in 1 .. Len(u) \/ (k \in 1 .. n /\ k > Len(u)) \/ k \in (n + 1) .. (n + i)
    BY <1>1
  <2>2. \A k \in 1 .. Len(u) : k \in 1 .. (n + i) /\ w[k] = u[k]
    BY <1>0, <1>1
  <2>3. \A k \in (n + 1) .. (n + i) : k \in 1 .. (n + i)
    BY <1>1
  <2>4. \A k : k \in W => k \in A \cup D
    BY <1>0, <2>1, <2>2
  <2>5. \A k : k \in A \cup D => k \in W
    BY <2>2, <2>3
  <2> HIDE DEF A, D, W
  <2> QED BY <2>4, <2>5
<1>4. A \cap D = {}
  <2>1. \A k \in 1 .. Len(u) : k \notin (n + 1) .. (n + i)
    BY <1>0, <1>1
  <2> QED BY <2>1
<1>5. f \in Bijection(B, D)
  <2>1. f \in [B -> D]
    <3> SUFFICES ASSUME NEW k \in B PROVE n + k \in D
      OBVIOUS
    <3>1. k \in 1 .. Len(v) /\ n + k \in (n + 1) .. (n + i)
      BY <1>1
    <3> QED BY <1>0, <3>1
  <2>2. \A a, b \in B : f[a] = f[b] => a = b
    BY <1>1
  <2>3. \A d \in D : \E a \in B : f[a] = d
    <3> SUFFICES ASSUME NEW d \in D PROVE d - n \in B /\ n + (d - n) = d
      OBVIOUS
    <3>1. d - n \in 1 .. i /\ n + (d - n) = d /\ d - n \in 1 .. Len(v)
      BY <1>1
    <3> QED BY <1>0, <3>1
  <2> HIDE DEF f, B, D
  <2> QED BY <2>1, <2>2, <2>3 DEF Bijection, Injection, Surjection, IsInjective
<1>6. Cardinality(B) = Cardinality(D)
  <2> HIDE DEF f, B, D
  <2>1. ExistsBijection(B, D)
    BY <1>5 DEF ExistsBijection
  <2> QED BY <1>2, <2>1, FS_Bijection
<1>7. Cardinality(W) = Cardinality(A) + Cardinality(D)
  <2> HIDE DEF A, D, W
  <2>1. Cardinality(A \cap D) = 0
    BY <1>4, FS_EmptySet
  <2>2. Cardinality(A) \in Nat /\ Cardinality(D) \in Nat
    BY <1>2, FS_CardinalityType
  <2>3. Cardinality(A \cup D) = Cardinality(A) + Cardinality(D) - Cardinality(A \cap D)
    BY <1>2, FS_Union
  <2> QED BY <1>3, <2>1, <2>2, <2>3
<1>8. Cardinality(A) \in Nat /\ Cardinality(B) \in Nat
  <2> HIDE DEF A, B
  <2> QED BY <1>2, FS_CardinalityType
<1>9. Count(u, c, Len(u)) = Cardinality(A) /\ Count(v, c, i) = Cardinality(B)
      /\ Count(w, c, n + i) = Cardinality(W)
  BY DEF Count
<1> HIDE DEF A, B, D, W
<1> QED BY <1>6, <1>7, <1>8, <1>9

\* A word of the whole is a word of one of its parts.
LEMMA LinkedFree ==
  ASSUME NEW X, NEW u \in Seq(X), NEW v \in Seq(X), NEW w \in Seq(X), Free(u), Free(v),
         Len(w) = Len(u) + 1 + Len(v),
         \A k \in 1 .. Len(u) : w[k] = u[k],
         w[Len(u) + 1] \notin Letters,
         \A k \in 1 .. Len(v) : w[Len(u) + 1 + k] = v[k]
  PROVE  Free(w)
<1> DEFINE n == Len(u)
           m == Len(v)
<1>1. n \in Nat /\ m \in Nat /\ DOMAIN u = 1 .. n /\ DOMAIN v = 1 .. m /\ DOMAIN w = 1 .. n + 1 + m
  OBVIOUS
<1>2. \A k \in 1 .. n : w[k] = u[k]
  OBVIOUS
<1>3. \A k \in 1 .. m : w[n + 1 + k] = v[k]
  OBVIOUS
<1>4. w[n + 1] \notin Letters
  OBVIOUS
<1> HIDE DEF n, m
<1> SUFFICES ASSUME NEW a \in DOMAIN w, KeywordAt(w, a) PROVE FALSE
  BY DEF Free
<1>5. /\ a \in 1 .. n + 1 + m /\ a + 1 \in 1 .. n + 1 + m
      /\ w[a] = "o" /\ w[a + 1] = "r"
      /\ a - 1 \in 1 .. n + 1 + m => w[a - 1] \notin Letters
      /\ a + 2 \in 1 .. n + 1 + m => w[a + 2] \notin Letters
  BY <1>1 DEF KeywordAt
<1>6. a # n + 1 /\ a + 1 # n + 1
  BY <1>4, <1>5 DEF Letters
<1>7. a + 1 \in 1 .. n \/ a - n - 1 \in 1 .. m
  BY <1>1, <1>5, <1>6
<1>8. CASE a + 1 \in 1 .. n
  <2>1. a \in 1 .. n
    BY <1>1, <1>5, <1>8
  <2>2. \A k \in 1 .. n : k \in 1 .. n + 1 + m
    BY <1>1
  <2>3. KeywordAt(u, a)
    BY <1>1, <1>2, <1>5, <1>8, <2>1, <2>2 DEF KeywordAt
  <2> QED BY <1>1, <2>1, <2>3 DEF Free
<1>9. CASE a - n - 1 \in 1 .. m
  <2> DEFINE b == a - n - 1
  <2>1. b \in 1 .. m /\ n + 1 + b = a
    <3>1. a \in Int
      BY <1>1, <1>5
    <3>2. n \in Int
      BY <1>1
    <3> QED BY ONLY <1>9, <3>1, <3>2
  <2> HIDE DEF b
  <2>2. /\ b + 1 \in 1 .. m /\ n + 1 + (b + 1) = a + 1
        /\ n + 1 + (b - 1) = a - 1 /\ n + 1 + (b + 2) = a + 2
    BY <1>1, <1>5, <2>1
  <2>3. \A k \in 1 .. m : n + 1 + k \in 1 .. n + 1 + m
    BY <1>1
  <2>4. v[b] = "o" /\ v[b + 1] = "r"
    BY <1>3, <1>5, <2>1, <2>2
  <2>5. b - 1 \in 1 .. m => v[b - 1] \notin Letters
    BY <1>3, <1>5, <2>2, <2>3
  <2>6. b + 2 \in 1 .. m => v[b + 2] \notin Letters
    BY <1>3, <1>5, <2>2, <2>3
  <2>7. KeywordAt(v, b)
    BY <1>1, <2>1, <2>2, <2>4, <2>5, <2>6 DEF KeywordAt
  <2> QED BY <1>1, <2>1, <2>7 DEF Free
<1> QED BY <1>7, <1>8, <1>9

\* Two parts with a connective between them are a part again.
LEMMA LinkedIsGood ==
  ASSUME NEW u, Good(u), NEW v, Good(v), NEW t \in {"AND", "NOT"}
  PROVE  Good(u \o (<<t>> \o v))
<1> DEFINE w == u \o (<<t>> \o v)
           n == Len(u)
           m == Len(v)
<1>0. u \in Seq(ExprSymbols) /\ v \in Seq(ExprSymbols) /\ <<t>> \in Seq(ExprSymbols) /\ u # <<>> /\ v # <<>>
  BY DEF Good, ExprSymbols, Connectives
<1>1. n \in Nat /\ n > 0 /\ m \in Nat /\ m > 0 /\ DOMAIN u = 1 .. n /\ DOMAIN v = 1 .. m
  BY <1>0
<1>2. w \in Seq(ExprSymbols) /\ Len(w) = n + 1 + m /\ w # <<>>
  BY <1>0, <1>1
<1>3. \A k \in 1 .. n : w[k] = u[k]
  BY <1>0
<1>4. w[n + 1] = t
  BY <1>0
<1>5. \A k \in 1 .. m : w[n + 1 + k] = v[k]
  BY <1>0
<1>6. Free(u) /\ Free(v) /\ Connects(u) /\ Connects(v) /\ Closed(u) /\ Closed(v)
  BY DEF Good
<1> HIDE DEF w, n, m
<1>7. t \notin Letters /\ t \notin Brackets /\ t # "OR"
  BY DEF Letters, Brackets
<1>8. DOMAIN w = 1 .. n + 1 + m
  BY <1>1, <1>2
<1>9. ASSUME NEW i \in 1 .. n + 1 + m
      PROVE  i \in 1 .. n \/ i = n + 1 \/ (i - n - 1 \in 1 .. m /\ n + 1 + (i - n - 1) = i)
  BY <1>1
<1>10. Free(w)
  BY <1>0, <1>2, <1>3, <1>4, <1>5, <1>6, <1>7, LinkedFree DEF n, m
<1>11. /\ w[1] \notin Connectives \cup {")"} /\ w[n + 1 + m] \notin Connectives \cup {"("}
       /\ u[n] \notin Connectives \cup {"("} /\ v[1] \notin Connectives \cup {")"}
  <2>1. 1 \in 1 .. n /\ m \in 1 .. m
    BY <1>1
  <2> QED BY <1>3, <1>5, <1>6, <2>1 DEF Connects, n, m
<1>12. ASSUME NEW i \in 1 .. n + 1 + m, w[i] \in Connectives
       PROVE  /\ i > 1 /\ i < n + 1 + m
              /\ w[i - 1] \notin Connectives \cup {"("}
              /\ w[i + 1] \notin Connectives \cup {")"}
  <2>1. CASE i \in 1 .. n
    <3>1. i > 1 /\ i < n /\ u[i - 1] \notin Connectives \cup {"("}
          /\ u[i + 1] \notin Connectives \cup {")"}
      BY <1>1, <1>3, <1>6, <1>12, <2>1 DEF Connects, n
    <3>2. i - 1 \in 1 .. n /\ i + 1 \in 1 .. n
      BY <1>1, <2>1, <3>1
    <3> QED BY <1>1, <1>3, <3>1, <3>2
  <2>2. CASE i = n + 1
    <3>1. i - 1 = n /\ i + 1 = n + 1 + 1 /\ n \in 1 .. n /\ 1 \in 1 .. m
      BY <1>1, <2>2
    <3>2. w[i - 1] = u[n] /\ w[i + 1] = v[1]
      BY <1>3, <1>5, <3>1
    <3> QED BY <1>1, <1>11, <2>2, <3>2
  <2>3. CASE i - n - 1 \in 1 .. m /\ n + 1 + (i - n - 1) = i
    <3> DEFINE b == i - n - 1
    <3>1. b \in 1 .. m /\ n + 1 + b = i
      BY <2>3
    <3> HIDE DEF b
    <3>2. b > 1 /\ b < m /\ v[b - 1] \notin Connectives \cup {"("}
          /\ v[b + 1] \notin Connectives \cup {")"}
      BY <1>1, <1>5, <1>6, <1>12, <3>1 DEF Connects, m
    <3>3. /\ b - 1 \in 1 .. m /\ b + 1 \in 1 .. m
          /\ n + 1 + (b - 1) = i - 1 /\ n + 1 + (b + 1) = i + 1
      BY <1>1, <3>1, <3>2
    <3>4. w[i - 1] = v[b - 1] /\ w[i + 1] = v[b + 1]
      BY <1>5, <3>3
    <3> QED BY <1>1, <3>1, <3>2, <3>4
  <2> QED BY <1>9, <2>1, <2>2, <2>3
<1>13. Connects(w)
  BY <1>2, <1>8, <1>11, <1>12 DEF Connects
<1>14. ASSUME NEW c \in Brackets, NEW i \in 0 .. m
       PROVE  /\ Count(u, c, n) \in Nat /\ Count(v, c, i) \in Nat
              /\ Count(w, c, n + 1 + i) = Count(u, c, n) + Count(v, c, i)
  <2>1. n + 1 \in Nat /\ Len(w) = (n + 1) + m
    BY <1>1, <1>2
  <2>2. \A k \in 1 .. n : k <= n + 1 /\ w[k] = u[k]
    BY <1>1, <1>3
  <2>3. \A k \in 1 .. n + 1 : k > n => w[k] # c
    BY <1>1, <1>4, <1>7
  <2> DEFINE o == n + 1
  <2>4. o \in Nat /\ i \in 0 .. Len(v) /\ Parted(w, o, u, v, c)
    BY <1>5, <2>1, <2>2, <2>3 DEF n, m, Parted
  <2> HIDE DEF o
  <2>5. /\ Count(u, c, Len(u)) \in Nat /\ Count(v, c, i) \in Nat
        /\ Count(w, c, o + i) = Count(u, c, Len(u)) + Count(v, c, i)
    BY <1>0, <1>2, <2>4, CountOfBoth
  <2> QED BY <2>5 DEF n, o
<1>15. \A c \in Brackets : \A i \in 1 .. n : Count(w, c, i) = Count(u, c, i)
  <2> SUFFICES ASSUME NEW c \in Brackets, NEW i \in 1 .. n
               PROVE  {j \in 1 .. i : w[j] = c} = {j \in 1 .. i : u[j] = c}
    BY DEF Count
  <2>1. \A j \in 1 .. i : w[j] = u[j]
    BY <1>1, <1>3
  <2> QED BY <2>1
<1>16. "(" \in Brackets /\ ")" \in Brackets
  BY DEF Brackets
<1>17. Count(w, "(", n + 1 + m) = Count(w, ")", n + 1 + m)
  <2>1. m \in 0 .. m
    BY <1>1
  <2> QED BY <1>6, <1>14, <1>16, <2>1 DEF Closed, n, m
<1>18. ASSUME NEW i \in 1 .. n + 1 + m, w[i] = "OR"
       PROVE  Count(w, "(", i) = Count(w, ")", i) + 1
  <2>1. CASE i \in 1 .. n
    BY <1>1, <1>3, <1>6, <1>15, <1>16, <1>18, <2>1 DEF Closed
  <2>2. CASE i = n + 1
    BY <1>4, <1>7, <1>18, <2>2
  <2>3. CASE i - n - 1 \in 1 .. m /\ n + 1 + (i - n - 1) = i
    <3> DEFINE b == i - n - 1
    <3>1. b \in 1 .. m /\ n + 1 + b = i /\ b \in 0 .. m
      BY <1>1, <2>3
    <3> HIDE DEF b
    <3>2. Count(v, "(", b) = Count(v, ")", b) + 1
      BY <1>1, <1>5, <1>6, <1>18, <3>1 DEF Closed
    <3>3. Count(u, "(", n) = Count(u, ")", n)
      BY <1>6 DEF Closed, n
    <3>4. /\ Count(w, "(", i) = Count(u, "(", n) + Count(v, "(", b)
          /\ Count(w, ")", i) = Count(u, ")", n) + Count(v, ")", b)
          /\ Count(u, ")", n) \in Nat /\ Count(v, ")", b) \in Nat
      BY <1>14, <1>16, <3>1
    <3> QED BY <3>2, <3>3, <3>4
  <2> QED BY <1>9, <2>1, <2>2, <2>3
<1>19. Closed(w)
  BY <1>2, <1>8, <1>17, <1>18 DEF Closed
<1>20. Good(w)
  BY <1>2, <1>10, <1>13, <1>19 DEF Good
<1> QED BY <1>20 DEF w

\* A part of the expression, or nothing; the Not part has its NOT in front.
LEMMA Step2Is ==
  ASSUME NEW c \in Seq(Symbols), Tidy(c), Free(c), NEW p \in Parts
  PROVE  LET r == Step2(c, p)
         IN \/ r = <<>>
            \/ p # "Not" /\ Good(r)
            \/ p = "Not" /\ \E g : Good(g) /\ r = <<"NOT">> \o g
<1> DEFINE d == Collapse(c, Separators)
           s == Trim(d, {" "})
           w == Joined(s, p)
           g == <<"(">> \o (w \o <<")">>)
           prefix == IF p = "Not" THEN <<"NOT">> ELSE <<>>
           r == Step2(c, p)
<1>1. {" "} \subseteq Separators /\ Separators \cap Letters = {} /\ {" "} \cap Letters = {}
  BY DEF Separators, Letters
<1>2. d \in Seq(Symbols) /\ Free(d) /\ Tidy(d)
  BY <1>1, CollapseFree, CollapseTidy
<1>3. s \in Seq(Symbols) /\ Free(s) /\ Tidy(s)
  <2> HIDE DEF d
  <2>1. Apart(d)
    BY <1>2 DEF Tidy
  <2> QED BY <1>1, <1>2, <2>1, TrimFree, TrimTidy
<1>4. r = IF s = <<>> THEN <<>>
          ELSE IF p # "And" /\ Connected(s) # {} THEN prefix \o g
          ELSE prefix \o w
  BY DEF Step2
<1> HIDE DEF s, r
<1> SUFFICES ASSUME s # <<>>
             PROVE  \/ p # "Not" /\ Good(r)
                    \/ p = "Not" /\ \E h : Good(h) /\ r = <<"NOT">> \o h
  BY <1>4 DEF r
<1>5. /\ w \in Seq(ExprSymbols) /\ w # <<>> /\ Free(w) /\ Connects(w)
      /\ \A i \in DOMAIN w : w[i] \notin Brackets
      /\ \A i \in DOMAIN w : w[i] = "OR" => p # "And" /\ Connected(s) # {}
  BY <1>3, JoinedIs
<1> HIDE DEF w
<1>6. PICK h : Good(h) /\ r = prefix \o h
  <2>1. CASE p # "And" /\ Connected(s) # {}
    <3>1. Good(g)
      BY <1>5, BracketedIsGood
    <3>2. r = prefix \o g
      BY <1>4, <2>1
    <3> HIDE DEF g, prefix
    <3> QED BY <3>1, <3>2
  <2>2. CASE ~(p # "And" /\ Connected(s) # {})
    <3>1. Good(w)
      BY <1>5, <2>2, PlainIsGood
    <3>2. r = prefix \o w
      BY <1>4, <2>2
    <3> HIDE DEF g, prefix
    <3> QED BY <3>1, <3>2
  <2> QED BY <2>1, <2>2
<1>7. CASE p = "Not"
  BY <1>6, <1>7
<1>8. CASE p # "Not"
  <2>1. h \in Seq(ExprSymbols)
    BY <1>6 DEF Good
  <2>2. r = <<>> \o h
    BY <1>6, <1>8
  <2>3. r = h
    BY <2>1, <2>2
  <2> QED BY <1>6, <1>8, <2>3
<1> QED BY <1>7, <1>8

LEMMA GoodIsNoExclusion ==
  ASSUME NEW g, Good(g)
  PROVE  /\ g # <<>> /\ ~StartsWithNot(g)
         /\ StartsWithNot(<<"NOT">> \o g) /\ <<"NOT">> \o g # <<>>
         /\ Tail(<<"NOT">> \o g) = g
<1>1. g \in Seq(ExprSymbols) /\ g # <<>>
  BY DEF Good
<1>2. Head(g) = g[1]
  BY <1>1
<1>3. g[1] # "NOT"
  BY DEF Good, Connects, Connectives
<1>4. Head(<<"NOT">> \o g) = "NOT" /\ Tail(<<"NOT">> \o g) = g /\ <<"NOT">> \o g # <<>>
  <2> DEFINE w == <<"NOT">> \o g
  <2>1. <<"NOT">> \in Seq(ExprSymbols)
    BY DEF ExprSymbols, Connectives
  <2>2. w \in Seq(ExprSymbols) /\ Len(w) = Len(g) + 1 /\ w[1] = "NOT"
        /\ \A i \in 1 .. Len(g) : w[i + 1] = g[i]
    BY <1>1, <2>1
  <2> HIDE DEF w
  <2>3. w # <<>> /\ Head(w) = "NOT"
    <3>1. Len(w) # 0
      BY <1>1, <2>2
    <3>2. w # <<>>
      BY <3>1
    <3> QED BY <2>2, <3>2
  <2>4. /\ Tail(w) \in Seq(ExprSymbols) /\ Len(Tail(w)) = Len(w) - 1
        /\ \A i \in 1 .. Len(Tail(w)) : Tail(w)[i] = w[i + 1]
    BY <2>2, <2>3, HeadTailProperties
  <2>5. Tail(w) \in Seq(ExprSymbols) /\ Len(Tail(w)) = Len(g)
        /\ \A i \in 1 .. Len(g) : Tail(w)[i] = g[i]
    BY <1>1, <2>2, <2>4
  <2>6. Tail(w) = g
    BY <1>1, <2>5
  <2> QED BY <2>3, <2>6 DEF w
<1> QED BY <1>1, <1>2, <1>3, <1>4 DEF StartsWithNot

\* One turn of the loop puts parts together.
LEMMA AppendedIs ==
  ASSUME NEW sofar, sofar = <<>> \/ Good(sofar), NEW c
  PROVE  /\ c = <<>> \/ Good(c) => Appended(sofar, c) = <<>> \/ Good(Appended(sofar, c))
         /\ \A g : Good(g) /\ c = <<"NOT">> \o g =>
              \/ Good(Appended(sofar, c))
              \/ Appended(sofar, c) = <<"NOT">> \o g
<1>1. ASSUME c = <<>> \/ Good(c)
      PROVE  Appended(sofar, c) = <<>> \/ Good(Appended(sofar, c))
  <2>1. CASE c = <<>> \/ sofar = <<>>
    BY <1>1, <2>1 DEF Appended
  <2>2. CASE c # <<>> /\ sofar # <<>>
    <3>1. Good(sofar) /\ Good(c)
      BY <1>1, <2>2
    <3>2. ~StartsWithNot(c)
      BY <3>1, GoodIsNoExclusion
    <3>3. Appended(sofar, c) = sofar \o (<<"AND">> \o c)
      BY <2>2, <3>2 DEF Appended
    <3> QED BY <3>1, <3>3, LinkedIsGood
  <2> QED BY <2>1, <2>2
<1>2. ASSUME NEW g, Good(g), c = <<"NOT">> \o g
      PROVE  Good(Appended(sofar, c)) \/ Appended(sofar, c) = <<"NOT">> \o g
  <2>1. StartsWithNot(c) /\ c # <<>>
    BY <1>2, GoodIsNoExclusion
  <2>2. CASE sofar = <<>>
    BY <1>2, <2>1, <2>2 DEF Appended
  <2>3. CASE sofar # <<>>
    <3>1. Appended(sofar, c) = sofar \o (<<"NOT">> \o g)
      BY <1>2, <2>1, <2>3 DEF Appended
    <3> QED BY <1>2, <2>3, <3>1, LinkedIsGood
  <2> QED BY <2>2, <2>3
<1> QED BY <1>1, <1>2

\* MakeFinalCompositeSearchCriteria, and its NOT taken off.
LEMMA ExpressionIs ==
  ASSUME NEW c1, NEW c2, NEW c3,
         c1 = <<>> \/ Good(c1), c2 = <<>> \/ Good(c2),
         c3 = <<>> \/ \E g : Good(g) /\ c3 = <<"NOT">> \o g
  PROVE  LET res == MakeFinal(c1, c2, c3)
             e == IF StartsWithNot(res) THEN Tail(res) ELSE res
         IN e = <<>> \/ Good(e)
<1> DEFINE a == Appended(<<>>, c1)
           b == Appended(a, c2)
           res == Appended(b, c3)
           e == IF StartsWithNot(res) THEN Tail(res) ELSE res
<1>1. a = <<>> \/ Good(a)
  BY AppendedIs
<1> HIDE DEF a
<1>2. b = <<>> \/ Good(b)
  BY <1>1, AppendedIs
<1> HIDE DEF b
<1>3. res = <<>> \/ Good(res) \/ \E g : Good(g) /\ res = <<"NOT">> \o g
  <2>1. CASE c3 = <<>>
    BY <1>2, <2>1, AppendedIs
  <2>2. CASE \E g : Good(g) /\ c3 = <<"NOT">> \o g
    BY <1>2, <2>2, AppendedIs
  <2> QED BY <2>1, <2>2
<1>4. res = MakeFinal(c1, c2, c3)
  BY DEF MakeFinal, a, b
<1> HIDE DEF res
<1>5. e = <<>> \/ Good(e)
  <2>1. CASE res = <<>>
    BY <2>1 DEF StartsWithNot
  <2>2. CASE Good(res)
    BY <2>2, GoodIsNoExclusion
  <2>3. CASE \E g : Good(g) /\ res = <<"NOT">> \o g
    <3>1. PICK g : Good(g) /\ res = <<"NOT">> \o g
      BY <2>3
    <3>2. StartsWithNot(res) /\ Tail(res) = g
      BY <3>1, GoodIsNoExclusion
    <3> QED BY <3>1, <3>2
  <2> QED BY <1>3, <2>1, <2>2, <2>3
<1> QED BY <1>4, <1>5

-----------------------------------------------------------------------------
(* The invariant.                                                          *)

\* The expression is built of prepared texts, and what the preparation has seen
\* to is all it relies on.
SearchInv ==
  /\ SearchTypeOK
  /\ stage = "prepared" => \A p \in Parts : Tidy(text[p]) /\ Free(text[p])
  /\ Built => expr = <<>> \/ Good(expr)

LEMMA SearchInitInv == SearchInit => SearchInv
<1> SUFFICES ASSUME SearchInit PROVE SearchInv
  OBVIOUS
<1>1. text \in [Parts -> Seq(Symbols)]
  BY FullTextSearchAssumption DEF SearchInit
<1>2. <<>> \in Seq((Symbols \ {"*"}) \cup Connectives \cup {"%", "(", ")"})
  OBVIOUS
<1> QED BY <1>1, <1>2 DEF SearchInit, SearchInv, SearchTypeOK, Built

LEMMA SearchNextInv == SearchInv /\ [SearchNext]_searchVars => SearchInv'
<1> SUFFICES ASSUME SearchInv, [SearchNext]_searchVars PROVE SearchInv'
  OBVIOUS
<1>1. SearchTypeOK /\ text \in [Parts -> Seq(Symbols)]
  BY DEF SearchInv, SearchTypeOK
<1>2. CASE Validate
  <2>1. stage' \in {"valid", "refused"} /\ UNCHANGED <<text, expr, exclusion>>
    BY <1>2 DEF Validate
  <2> QED BY <1>1, <2>1 DEF SearchInv, SearchTypeOK, Built
<1>3. CASE PrepareSearchCriteriaStep1
  <2>1. text' = [p \in Parts |-> Step1(text[p])] /\ stage' = "prepared" /\ UNCHANGED <<expr, exclusion>>
    BY <1>3 DEF PrepareSearchCriteriaStep1
  <2>2. \A p \in Parts : Step1(text[p]) \in Seq(Symbols) /\ Free(Step1(text[p])) /\ Tidy(Step1(text[p]))
    BY <1>1, Step1Is
  <2>3. text' \in [Parts -> Seq(Symbols)]
    BY <2>1, <2>2
  <2>4. \A p \in Parts : Tidy(text'[p]) /\ Free(text'[p])
    BY <2>1, <2>2
  <2> QED BY <1>1, <2>1, <2>3, <2>4 DEF SearchInv, SearchTypeOK, Built
<1>4. CASE Build
  <2> DEFINE c1 == Step2(text["And"], "And")
             c2 == Step2(text["Or"], "Or")
             c3 == Step2(text["Not"], "Not")
             res == MakeFinal(c1, c2, c3)
             e == IF StartsWithNot(res) THEN Tail(res) ELSE res
  <2>1. /\ stage = "prepared" /\ stage' = "built"
        /\ exclusion' = StartsWithNot(res) /\ expr' = e /\ UNCHANGED text
    BY <1>4 DEF Build
  <2>2. \A p \in Parts : text[p] \in Seq(Symbols) /\ Tidy(text[p]) /\ Free(text[p])
    BY <1>1, <2>1 DEF SearchInv
  <2>3. {"And", "Or", "Not"} \subseteq Parts
    BY DEF Parts
  <2>4. /\ c1 = <<>> \/ Good(c1)
        /\ c2 = <<>> \/ Good(c2)
        /\ c3 = <<>> \/ \E g : Good(g) /\ c3 = <<"NOT">> \o g
    BY <2>2, <2>3, Step2Is
  <2>5. StartsWithNot(res) \in BOOLEAN
    BY DEF StartsWithNot
  <2> HIDE DEF c1, c2, c3
  <2>6. e = <<>> \/ Good(e)
    BY <2>4, ExpressionIs
  <2> HIDE DEF res, e
  <2>7. expr' = <<>> \/ Good(expr')
    BY <2>1, <2>6
  <2>8. expr' \in Seq(ExprSymbols)
    <3>1. <<>> \in Seq(ExprSymbols)
      OBVIOUS
    <3>2. \A g : Good(g) => g \in Seq(ExprSymbols)
      BY DEF Good
    <3> QED BY <2>7, <3>1, <3>2
  <2> QED BY <1>1, <2>1, <2>5, <2>7, <2>8 DEF SearchInv, SearchTypeOK, Built, ExprSymbols
<1>5. CASE UNCHANGED searchVars
  BY <1>1, <1>5 DEF SearchInv, SearchTypeOK, Built, searchVars
<1> QED BY <1>2, <1>3, <1>4, <1>5 DEF SearchNext

LEMMA SearchInvariance == SearchSpec => []SearchInv
BY SearchInitInv, SearchNextInv, PTL DEF SearchSpec

-----------------------------------------------------------------------------
(* The theorems.                                                           *)

\* The texts and the expression are made of the symbols they should be made of:
\* in the expression no asterisk is left of what the user typed.
THEOREM SearchTypeCorrect == SearchSpec => []SearchTypeOK
<1>1. SearchInv => SearchTypeOK
  BY DEF SearchInv
<1> QED BY <1>1, SearchInvariance, PTL

\* Whatever three texts a user types, of whatever length: a connective of the
\* expression that BuildSearchTextExpressionExt returns has something to connect
\* on both sides, and every OR is inside brackets.
THEOREM ExpressionIsWellFormed == SearchSpec => []ExpressionWellFormed
<1>1. SearchInv => ExpressionWellFormed
  <2> SUFFICES ASSUME SearchInv, Built PROVE ExpressionWellFormed
    BY DEF ExpressionWellFormed, ConnectivesConnect, OrIsBracketed
  <2>1. CASE expr = <<>>
    BY <2>1 DEF ExpressionWellFormed, ConnectivesConnect, OrIsBracketed
  <2>2. CASE Good(expr)
    <3>1. Connects(expr) /\ Closed(expr)
      BY <2>2 DEF Good
    <3>2. ConnectivesConnect
      BY <3>1 DEF Connects, ConnectivesConnect
    <3>3. OrIsBracketed
      BY <3>1 DEF Closed, Count, OrIsBracketed
    <3> QED BY <3>2, <3>3 DEF ExpressionWellFormed
  <2> QED BY <2>1, <2>2 DEF SearchInv
<1> QED BY <1>1, SearchInvariance, PTL

\* Nor does a word of the search language get into it as one of the user's:
\* neither one that was typed nor one that came about when something beside it
\* was taken out.
THEOREM KeywordsAreGone == SearchSpec => []NoKeywordLeft
<1>1. SearchInv => NoKeywordLeft
  <2> SUFFICES ASSUME SearchInv, Built, NEW i \in DOMAIN expr, IsKeyword(expr, i) PROVE FALSE
    BY DEF NoKeywordLeft
  <2>1. expr \in Seq(ExprSymbols) /\ Free(expr)
    <3>1. expr = <<>> \/ Good(expr)
      BY DEF SearchInv
    <3> QED BY <3>1 DEF Good
  <2>2. PICK a \in {i - 1, i} : KeywordAt(expr, a)
    BY <2>1, IsKeywordAt
  <2> QED BY <2>1, <2>2 DEF Free, KeywordAt
<1> QED BY <1>1, SearchInvariance, PTL

-----------------------------------------------------------------------------
(* Induction over sets of numbers and of sequences.                        *)

LEMMA EveryNumber ==
  ASSUME NEW T, 0 \in T, \A n \in Nat : n \in T => n + 1 \in T
  PROVE  \A n \in Nat : n \in T
<1> DEFINE R == {ss \in Nat \X Nat : ss[1] < ss[2]}
           U == Nat \ T
<1>1. IsWellFoundedOn(R, Nat)
  BY NatLessThanWellFounded DEF OpToRel
<1> SUFFICES ASSUME U # {} PROVE FALSE
  OBVIOUS
<1>2. U \subseteq Nat /\ \A i, j \in U : <<j, i>> \in R <=> j < i
  OBVIOUS
<1> HIDE DEF R, U
<1>3. PICK n \in U : \A j \in U : <<j, n>> \notin R
  BY <1>1, <1>2, WFMin
<1>4. n \in Nat /\ n # 0 /\ n \notin T
  BY <1>3 DEF U
<1>5. n - 1 \in Nat /\ (n - 1) + 1 = n /\ n - 1 < n
  BY <1>4
<1>6. n - 1 \in U
  BY <1>4, <1>5 DEF U
<1> QED BY <1>2, <1>3, <1>5, <1>6

LEMMA EverySequence ==
  ASSUME NEW X, NEW T, <<>> \in T, \A s \in Seq(X), x \in X : s \in T => Append(s, x) \in T
  PROVE  \A s \in Seq(X) : s \in T
<1> DEFINE N == {n \in Nat : \A s \in Seq(X) : Len(s) = n => s \in T}
<1>1. 0 \in N
  OBVIOUS
<1>2. ASSUME NEW n \in Nat, n \in N PROVE n + 1 \in N
  <2> SUFFICES ASSUME NEW s \in Seq(X), Len(s) = n + 1 PROVE s \in T
    OBVIOUS
  <2> DEFINE t == SubSeq(s, 1, n)
  <2>1. t \in Seq(X) /\ Len(t) = n /\ s[n + 1] \in X /\ s = Append(t, s[n + 1])
    OBVIOUS
  <2>2. t \in T
    BY <1>2, <2>1
  <2> HIDE DEF t
  <2> QED BY <2>1, <2>2
<1> HIDE DEF N
<1>3. \A n \in Nat : n \in N
  BY <1>1, <1>2, EveryNumber
<1> QED BY <1>3 DEF N

-----------------------------------------------------------------------------
(* Taking steps with the symbols of a text.                                *)

\* r has what is reached after each of the first n symbols.
Reaches(r, n, s, start, step) ==
  /\ r[0] = start
  /\ \A i \in 1 .. n : r[i] = step[s[i]][r[i - 1]]

LEMMA ReachesExists ==
  ASSUME NEW X, NEW S, NEW start \in S, NEW step \in [X -> [S -> S]], NEW s \in Seq(X)
  PROVE  \E r \in [0 .. Len(s) -> S] : Reaches(r, Len(s), s, start, step)
<1> DEFINE N == {n \in Nat : n <= Len(s) => \E r \in [0 .. n -> S] : Reaches(r, n, s, start, step)}
<1>1. 0 \in N
  <2> DEFINE r == [i \in 0 .. 0 |-> start]
  <2>1. r \in [0 .. 0 -> S] /\ Reaches(r, 0, s, start, step)
    BY DEF Reaches
  <2> QED BY <2>1
<1>2. ASSUME NEW n \in Nat, n \in N PROVE n + 1 \in N
  <2> SUFFICES ASSUME n + 1 <= Len(s)
               PROVE  \E r \in [0 .. n + 1 -> S] : Reaches(r, n + 1, s, start, step)
    OBVIOUS
  <2>1. PICK r \in [0 .. n -> S] : Reaches(r, n, s, start, step)
    BY <1>2
  <2>2. s[n + 1] \in X /\ r[n] \in S
    OBVIOUS
  <2>3. step[s[n + 1]][r[n]] \in S
    BY <2>2
  <2> DEFINE y == step[s[n + 1]][r[n]]
             q == [i \in 0 .. n + 1 |-> IF i = n + 1 THEN y ELSE r[i]]
  <2>4. q \in [0 .. n + 1 -> S]
    BY <2>3
  <2>5. \A i \in 0 .. n : q[i] = r[i]
    OBVIOUS
  <2>6. q[n + 1] = step[s[n + 1]][q[n]]
    BY <2>5
  <2> HIDE DEF q, y
  <2>7. \A i \in 1 .. n + 1 : i = n + 1 \/ (i \in 1 .. n /\ i \in 0 .. n /\ i - 1 \in 0 .. n)
    OBVIOUS
  <2>8. \A i \in 1 .. n + 1 : q[i] = step[s[i]][q[i - 1]]
    BY <2>1, <2>5, <2>6, <2>7 DEF Reaches
  <2>9. q[0] = start
    BY <2>1, <2>5 DEF Reaches
  <2> QED BY <2>4, <2>8, <2>9 DEF Reaches
<1> HIDE DEF N
<1>3. \A n \in Nat : n \in N
  BY <1>1, <1>2, EveryNumber
<1>4. Len(s) \in Nat
  OBVIOUS
<1> QED BY <1>3, <1>4 DEF N

LEMMA ReachesOne ==
  ASSUME NEW s, NEW start, NEW step, NEW n \in Nat, NEW r, NEW q,
         Reaches(r, n, s, start, step), Reaches(q, n, s, start, step)
  PROVE  \A i \in 0 .. n : r[i] = q[i]
<1> DEFINE N == {i \in Nat : i <= n => r[i] = q[i]}
<1>1. 0 \in N
  BY DEF Reaches
<1>2. ASSUME NEW i \in Nat, i \in N PROVE i + 1 \in N
  <2> SUFFICES ASSUME i + 1 <= n PROVE r[i + 1] = q[i + 1]
    OBVIOUS
  <2>1. r[i] = q[i]
    BY <1>2
  <2>2. i + 1 \in 1 .. n /\ (i + 1) - 1 = i
    OBVIOUS
  <2> QED BY <2>1, <2>2 DEF Reaches
<1> HIDE DEF N
<1>3. \A i \in Nat : i \in N
  BY <1>1, <1>2, EveryNumber
<1> QED BY <1>3 DEF N

LEMMA FoldedIs ==
  ASSUME NEW X, NEW S, NEW start \in S, NEW step \in [X -> [S -> S]], NEW s \in Seq(X)
  PROVE  \E r \in [0 .. Len(s) -> S] :
           /\ Reaches(r, Len(s), s, start, step)
           /\ Folded(s, start, step) = r[Len(s)]
<1> DEFINE P(r) == r = [i \in 0 .. Len(s) |-> IF i = 0 THEN start ELSE step[s[i]][r[i - 1]]]
           f == CHOOSE r : P(r)
<1>0. Len(s) \in Nat
  OBVIOUS
<1>1. PICK q \in [0 .. Len(s) -> S] : Reaches(q, Len(s), s, start, step)
  BY ReachesExists
<1>2. P(q)
  <2>1. \A i \in 0 .. Len(s) : q[i] = IF i = 0 THEN start ELSE step[s[i]][q[i - 1]]
    <3>1. \A i \in 0 .. Len(s) : i # 0 => i \in 1 .. Len(s)
      BY <1>0
    <3> QED BY <1>1, <3>1 DEF Reaches
  <2> QED BY <2>1
<1>3. P(f)
  BY <1>2
<1>4. Folded(s, start, step) = f[Len(s)]
  BY DEF Folded
<1> HIDE DEF f
<1>5. Reaches(f, Len(s), s, start, step)
  <2>1. 0 \in 0 .. Len(s) /\ \A i \in 1 .. Len(s) : i \in 0 .. Len(s) /\ i # 0
    BY <1>0
  <2> QED BY <1>3, <2>1 DEF Reaches
<1>6. \A i \in 0 .. Len(s) : f[i] = q[i]
  BY <1>0, <1>1, <1>5, ReachesOne
<1>7. Len(s) \in 0 .. Len(s)
  BY <1>0
<1> QED BY <1>1, <1>4, <1>6, <1>7

LEMMA FoldedEmpty ==
  ASSUME NEW X, NEW S, NEW start \in S, NEW step \in [X -> [S -> S]]
  PROVE  Folded(<<>>, start, step) = start
<1> DEFINE e == <<>>
<1>0. e \in Seq(X)
  OBVIOUS
<1>1. Len(e) = 0
  OBVIOUS
<1> HIDE DEF e
<1>2. PICK r \in [0 .. Len(e) -> S] :
        Reaches(r, Len(e), e, start, step) /\ Folded(e, start, step) = r[Len(e)]
  BY <1>0, FoldedIs
<1> QED BY <1>1, <1>2 DEF Reaches, e

\* From start, every symbol of X takes S into itself.
Steps(X, S, start, step) == start \in S /\ step \in [X -> [S -> S]]

\* One symbol more is one step more.
LEMMA FoldedAppend ==
  ASSUME NEW X, NEW S, NEW start, NEW step, Steps(X, S, start, step),
         NEW s \in Seq(X), NEW x \in X
  PROVE  /\ Folded(s, start, step) \in S
         /\ Folded(Append(s, x), start, step) = step[x][Folded(s, start, step)]
<1> USE DEF Steps
<1> DEFINE t == Append(s, x)
           n == Len(s)
<1>1. n \in Nat /\ t \in Seq(X) /\ Len(t) = n + 1 /\ t[n + 1] = x /\ \A i \in 1 .. n : t[i] = s[i]
  OBVIOUS
<1>2. PICK r \in [0 .. n -> S] :
        Reaches(r, n, s, start, step) /\ Folded(s, start, step) = r[n]
  BY FoldedIs
<1> HIDE DEF t
<1>0. t \in Seq(X)
  BY <1>1
<1>3. PICK q \in [0 .. Len(t) -> S] :
        Reaches(q, Len(t), t, start, step) /\ Folded(t, start, step) = q[Len(t)]
  BY <1>0, FoldedIs
<1> HIDE DEF n
<1>4. Reaches(q, n, s, start, step)
  <2>1. \A i \in 1 .. n : i \in 1 .. n + 1
    BY <1>1
  <2> QED BY <1>1, <1>3, <2>1 DEF Reaches
<1>5. n \in 0 .. n /\ n + 1 \in 1 .. n + 1 /\ (n + 1) - 1 = n
  BY <1>1
<1>6. r[n] = q[n] /\ r[n] \in S
  BY <1>1, <1>2, <1>4, <1>5, ReachesOne
<1>7. q[n + 1] = step[x][q[n]]
  BY <1>1, <1>3, <1>5 DEF Reaches
<1> QED BY <1>1, <1>2, <1>3, <1>6, <1>7 DEF t

-----------------------------------------------------------------------------
(* What the server reads in a literal.                                     *)

Specials == {{}, Prohibited \cup {"!"}}

\* A text without its quotes doubled: what the literal of it should be read as.
Meant(x, special) == IF x \in special THEN <<"!", x>> ELSE <<x>>

Meaning(special) ==
  [x \in Chars |-> [t \in Texts |-> t \o Meant(x, special)]]

Pattern(c, special) == Folded(c, <<>>, Meaning(special))
Clean(c, special) == Folded(c, <<>>, Cleaning(special))
Read(s) == Folded(s, [out |-> <<>>, mode |-> "text"], Reading)

LEMMA TwoAppended ==
  ASSUME NEW X, NEW t \in Seq(X), NEW a \in X, NEW b \in X
  PROVE  /\ <<>> \in Seq(X) /\ t \o <<>> = t
         /\ t \o <<a>> = Append(t, a) /\ Append(t, a) \in Seq(X)
         /\ t \o <<a, b>> = Append(Append(t, a), b)
OBVIOUS

LEMMA ChunkType ==
  ASSUME NEW special \in Specials, NEW x \in Chars
  PROVE  Cleaned(x, special) \in Texts /\ Meant(x, special) \in Texts
<1>1. {"quote", "!"} \subseteq Chars
  BY DEF Chars
<1>2. \A a, b \in Chars : <<a>> \in Texts /\ <<a, b>> \in Texts
  BY DEF Texts
<1> QED BY <1>1, <1>2 DEF Cleaned, Meant

LEMMA StepsType ==
  ASSUME NEW special \in Specials
  PROVE  /\ Cleaning(special) \in [Chars -> [Texts -> Texts]]
         /\ Meaning(special) \in [Chars -> [Texts -> Texts]]
         /\ \A x \in Chars, t \in Texts :
              /\ Cleaning(special)[x][t] = t \o Cleaned(x, special)
              /\ Meaning(special)[x][t] = t \o Meant(x, special)
<1>1. \A x \in Chars, t \in Texts : t \o Cleaned(x, special) \in Texts
  <2> SUFFICES ASSUME NEW x \in Chars, NEW t \in Texts PROVE t \o Cleaned(x, special) \in Texts
    OBVIOUS
  <2>1. Cleaned(x, special) \in Texts
    BY ChunkType
  <2> QED BY <2>1 DEF Texts
<1>2. \A x \in Chars, t \in Texts : t \o Meant(x, special) \in Texts
  <2> SUFFICES ASSUME NEW x \in Chars, NEW t \in Texts PROVE t \o Meant(x, special) \in Texts
    OBVIOUS
  <2>1. Meant(x, special) \in Texts
    BY ChunkType
  <2> QED BY <2>1 DEF Texts
<1>3. Cleaning(special) = [x \in Chars |-> [t \in Texts |-> t \o Cleaned(x, special)]]
  BY DEF Cleaning
<1>4. Meaning(special) = [x \in Chars |-> [t \in Texts |-> t \o Meant(x, special)]]
  BY DEF Meaning
<1> QED BY <1>1, <1>2, <1>3, <1>4

\* Texts grow by what becomes of their symbols.
LEMMA CleanIs ==
  ASSUME NEW special \in Specials
  PROVE  /\ Clean(<<>>, special) = <<>> /\ Pattern(<<>>, special) = <<>>
         /\ \A c \in Texts, x \in Chars :
              /\ Clean(c, special) \in Texts /\ Pattern(c, special) \in Texts
              /\ Clean(Append(c, x), special) = Clean(c, special) \o Cleaned(x, special)
              /\ Pattern(Append(c, x), special) = Pattern(c, special) \o Meant(x, special)
<1> DEFINE start == <<>>
           C == Cleaning(special)
           M == Meaning(special)
<1>1. start \in Texts
  BY DEF Texts
<1>2. C \in [Chars -> [Texts -> Texts]] /\ M \in [Chars -> [Texts -> Texts]]
  BY StepsType
<1>3. \A c : Clean(c, special) = Folded(c, start, C) /\ Pattern(c, special) = Folded(c, start, M)
  BY DEF Clean, Pattern
<1>4. \A x \in Chars, t \in Texts :
        C[x][t] = t \o Cleaned(x, special) /\ M[x][t] = t \o Meant(x, special)
  BY StepsType
<1>5. Folded(<<>>, start, C) = start /\ Folded(<<>>, start, M) = start
  <2> HIDE DEF start, C, M
  <2> QED BY <1>1, <1>2, FoldedEmpty
<1> HIDE DEF C, M
<1>6. ASSUME NEW c \in Texts, NEW x \in Chars
      PROVE  /\ Folded(c, start, C) \in Texts /\ Folded(c, start, M) \in Texts
             /\ Folded(Append(c, x), start, C) = C[x][Folded(c, start, C)]
             /\ Folded(Append(c, x), start, M) = M[x][Folded(c, start, M)]
  <2> HIDE DEF start
  <2>1. /\ c \in Seq(Chars)
        /\ Steps(Chars, Texts, start, C) /\ Steps(Chars, Texts, start, M)
    BY <1>1, <1>2 DEF Steps, Texts
  <2>2. Folded(c, start, C) \in Texts /\ Folded(Append(c, x), start, C) = C[x][Folded(c, start, C)]
    BY <2>1, FoldedAppend
  <2>3. Folded(c, start, M) \in Texts /\ Folded(Append(c, x), start, M) = M[x][Folded(c, start, M)]
    BY <2>1, FoldedAppend
  <2> QED BY <2>2, <2>3
<1>7. Clean(<<>>, special) = <<>> /\ Pattern(<<>>, special) = <<>>
  BY <1>3, <1>5
<1> HIDE DEF start
<1>8. ASSUME NEW c \in Texts, NEW x \in Chars
      PROVE  /\ Clean(c, special) \in Texts /\ Pattern(c, special) \in Texts
             /\ Clean(Append(c, x), special) = Clean(c, special) \o Cleaned(x, special)
             /\ Pattern(Append(c, x), special) = Pattern(c, special) \o Meant(x, special)
  <2>1. Clean(c, special) \in Texts /\ Pattern(c, special) \in Texts
    BY <1>3, <1>6
  <2>2. /\ Clean(Append(c, x), special) = C[x][Clean(c, special)]
        /\ Pattern(Append(c, x), special) = M[x][Pattern(c, special)]
    BY <1>3, <1>6
  <2> QED BY <1>4, <2>1, <2>2
<1> QED BY <1>7, <1>8

LEMMA ReadingIs ==
  /\ Reading \in [Chars -> [Readings -> Readings]]
  /\ \A x \in Chars, t \in Texts :
       /\ x # "quote" => Reading[x][[out |-> t, mode |-> "text"]]
                           = [out |-> Append(t, x), mode |-> "text"]
       /\ Reading["quote"][[out |-> t, mode |-> "text"]] = [out |-> t, mode |-> "quote"]
       /\ Reading["quote"][[out |-> t, mode |-> "quote"]]
            = [out |-> Append(t, "quote"), mode |-> "text"]
<1> DEFINE V(x, r) ==
             IF r.mode = "text" /\ x = "quote" THEN [r EXCEPT !.mode = "quote"]
             ELSE IF r.mode = "text" \/ (r.mode = "quote" /\ x = "quote")
             THEN [out |-> Append(r.out, x), mode |-> "text"]
             ELSE [r EXCEPT !.mode = "ended"]
<1>1. \A x \in Chars, t \in Texts : Append(t, x) \in Texts
  BY DEF Texts
<1>2. \A x \in Chars, r \in Readings : V(x, r) \in Readings
  BY <1>1 DEF Readings
<1>3. Reading = [x \in Chars |-> [r \in Readings |-> V(x, r)]]
  BY DEF Reading
<1>4. "quote" \in Chars
  BY DEF Chars
<1>5. \A t \in Texts : [out |-> t, mode |-> "text"] \in Readings
                       /\ [out |-> t, mode |-> "quote"] \in Readings
  BY DEF Readings
<1>6. \A x \in Chars, t \in Texts :
        /\ x # "quote" => V(x, [out |-> t, mode |-> "text"])
                            = [out |-> Append(t, x), mode |-> "text"]
        /\ V("quote", [out |-> t, mode |-> "text"]) = [out |-> t, mode |-> "quote"]
        /\ V("quote", [out |-> t, mode |-> "quote"])
             = [out |-> Append(t, "quote"), mode |-> "text"]
  OBVIOUS
<1> HIDE DEF V
<1>7. \A x \in Chars, r \in Readings : Reading[x][r] = V(x, r)
  BY <1>3
<1>8. Reading \in [Chars -> [Readings -> Readings]]
  BY <1>2, <1>3
<1> QED BY <1>4, <1>5, <1>6, <1>7, <1>8

LEMMA ReadIs ==
  /\ Read(<<>>) = [out |-> <<>>, mode |-> "text"]
  /\ \A s \in Texts, x \in Chars :
       Read(s) \in Readings /\ Read(Append(s, x)) = Reading[x][Read(s)]
<1> DEFINE start == [out |-> <<>>, mode |-> "text"]
<1>1. start \in Readings
  <2>1. <<>> \in Texts
    BY DEF Texts
  <2> QED BY <2>1 DEF Readings
<1> HIDE DEF start
<1>2. \A s : Read(s) = Folded(s, start, Reading)
  BY DEF Read, start
<1>3. Read(<<>>) = start
  BY <1>1, <1>2, ReadingIs, FoldedEmpty
<1>4. ASSUME NEW s \in Texts, NEW x \in Chars
      PROVE  Read(s) \in Readings /\ Read(Append(s, x)) = Reading[x][Read(s)]
  <2>1. s \in Seq(Chars) /\ Steps(Chars, Readings, start, Reading)
    BY <1>1, ReadingIs DEF Steps, Texts
  <2> QED BY <1>2, <2>1, FoldedAppend
<1> QED BY <1>3, <1>4 DEF start

\* The server is in the middle of a literal, where t has been said.
Said(s, t) == Read(s) = [out |-> t, mode |-> "text"]

LEMMA SaidPlain ==
  ASSUME NEW s \in Texts, NEW t \in Texts, NEW x \in Chars, x # "quote", Said(s, t)
  PROVE  Said(Append(s, x), Append(t, x))
<1>1. Read(Append(s, x)) = Reading[x][Read(s)]
  BY ReadIs
<1>2. Reading[x][[out |-> t, mode |-> "text"]] = [out |-> Append(t, x), mode |-> "text"]
  BY ReadingIs, Zenon
<1> QED BY <1>1, <1>2 DEF Said

LEMMA SaidQuote ==
  ASSUME NEW s \in Texts, NEW t \in Texts, Said(s, t)
  PROVE  Said(Append(Append(s, "quote"), "quote"), Append(t, "quote"))
<1>1. "quote" \in Chars
  BY DEF Chars
<1>2. Reading["quote"][[out |-> t, mode |-> "text"]] = [out |-> t, mode |-> "quote"]
  BY <1>1, ReadingIs, Zenon
<1>3. Reading["quote"][[out |-> t, mode |-> "quote"]]
        = [out |-> Append(t, "quote"), mode |-> "text"]
  BY <1>1, ReadingIs, Zenon
<1>4. Append(s, "quote") \in Texts
  BY <1>1 DEF Texts
<1>5. /\ Read(Append(s, "quote")) = Reading["quote"][Read(s)]
      /\ Read(Append(Append(s, "quote"), "quote")) = Reading["quote"][Read(Append(s, "quote"))]
  BY <1>1, <1>4, ReadIs
<1> QED BY <1>2, <1>3, <1>5 DEF Said

\* One symbol of the user's, doubled or escaped, is read as one.
LEMMA ChunkRead ==
  ASSUME NEW special \in Specials, NEW x \in Chars, NEW s \in Texts, NEW t \in Texts, Said(s, t)
  PROVE  Said(s \o Cleaned(x, special), t \o Meant(x, special))
<1>1. "quote" \in Chars /\ "!" \in Chars /\ "quote" \notin special /\ "!" # "quote"
  BY DEF Chars, Specials, Prohibited
<1>2. s \in Seq(Chars) /\ t \in Seq(Chars)
  BY DEF Texts
<1>3. CASE x = "quote"
  <2>1. Cleaned(x, special) = <<"quote", "quote">> /\ Meant(x, special) = <<"quote">>
    BY <1>1, <1>3 DEF Cleaned, Meant
  <2>2. s \o <<"quote", "quote">> = Append(Append(s, "quote"), "quote")
        /\ t \o <<"quote">> = Append(t, "quote")
    BY <1>1, <1>2, TwoAppended
  <2> QED BY <2>1, <2>2, SaidQuote
<1>4. CASE x # "quote" /\ x \in special
  <2> DEFINE e == "!"
  <2>1. Cleaned(x, special) = <<e, x>> /\ Meant(x, special) = <<e, x>>
    BY <1>4 DEF Cleaned, Meant
  <2>2. e \in Chars /\ e # "quote"
    BY <1>1
  <2> HIDE DEF e
  <2>3. s \o <<e, x>> = Append(Append(s, e), x) /\ t \o <<e, x>> = Append(Append(t, e), x)
    BY <1>2, <2>2, TwoAppended
  <2>4. Append(s, e) \in Texts /\ Append(t, e) \in Texts
    BY <2>2 DEF Texts
  <2>5. Said(Append(s, e), Append(t, e))
    BY <2>2, SaidPlain
  <2>6. Said(Append(Append(s, e), x), Append(Append(t, e), x))
    BY <1>4, <2>4, <2>5, SaidPlain
  <2> QED BY <2>1, <2>3, <2>6
<1>5. CASE x # "quote" /\ x \notin special
  <2>1. Cleaned(x, special) = <<x>> /\ Meant(x, special) = <<x>>
    BY <1>5 DEF Cleaned, Meant
  <2>2. s \o <<x>> = Append(s, x) /\ t \o <<x>> = Append(t, x)
    BY <1>2, TwoAppended
  <2>3. Said(Append(s, x), Append(t, x))
    BY <1>5, SaidPlain
  <2> QED BY <2>1, <2>2, <2>3
<1> QED BY <1>3, <1>4, <1>5

Wildcard == {<<>>, <<"%">>}

LEMMA Concat ==
  ASSUME NEW X, NEW r \in Seq(X), NEW s \in Seq(X), NEW t \in Seq(X)
  PROVE  r \o s \in Seq(X) /\ r \o (s \o t) = (r \o s) \o t /\ <<>> \o r = r /\ r \o <<>> = r
OBVIOUS

LEMMA WildcardRead ==
  ASSUME NEW w \in Wildcard, NEW s \in Texts, NEW t \in Texts, Said(s, t)
  PROVE  Said(s \o w, t \o w) /\ w \in Texts
<1>1. s \in Seq(Chars) /\ t \in Seq(Chars)
  BY DEF Texts
<1> DEFINE e == "%"
<1>2. e \in Chars /\ e # "quote" /\ (w = <<>> \/ w = <<e>>)
  BY DEF Chars, Wildcard
<1> HIDE DEF e
<1>3. <<>> \in Seq(Chars) /\ <<e>> \in Seq(Chars)
  BY <1>2
<1>4. Said(Append(s, e), Append(t, e))
  BY <1>2, SaidPlain
<1>5. s \o <<e>> = Append(s, e) /\ t \o <<e>> = Append(t, e) /\ s \o <<>> = s /\ t \o <<>> = t
  BY <1>1, <1>2, TwoAppended
<1> QED BY <1>2, <1>3, <1>4, <1>5 DEF Texts

\* A literal is read as it was meant: all of it, and nothing ends it early.
LEMMA LiteralIs ==
  ASSUME NEW special \in Specials, NEW pre \in Wildcard, NEW post \in Wildcard, NEW c \in Texts
  PROVE  Literal(pre \o Clean(c, special) \o post) = pre \o Pattern(c, special) \o post
<1> DEFINE T == {d \in Texts : Said(pre \o Clean(d, special), pre \o Pattern(d, special))}
           e == <<>>
<1>1. e \in Texts /\ Said(e, e)
  BY ReadIs DEF Said, Texts
<1>2. Said(e \o pre, e \o pre) /\ pre \in Texts
  <2> HIDE DEF e
  <2> QED BY <1>1, WildcardRead
<1>3. e \o pre = pre /\ pre \o e = pre
  BY <1>2, Concat DEF Texts
<1>4. e \in T
  BY <1>1, <1>2, <1>3, CleanIs
<1>5. ASSUME NEW d \in Seq(Chars), NEW x \in Chars, d \in T PROVE Append(d, x) \in T
  <2> DEFINE C == Clean(d, special)
             P == Pattern(d, special)
             y == Cleaned(x, special)
             z == Meant(x, special)
  <2>1. d \in Texts /\ Append(d, x) \in Texts
    BY DEF Texts
  <2>2. C \in Texts /\ P \in Texts /\ Clean(Append(d, x), special) = C \o y
        /\ Pattern(Append(d, x), special) = P \o z
    BY <2>1, CleanIs
  <2>3. y \in Texts /\ z \in Texts
    BY ChunkType
  <2>4. Said(pre \o C, pre \o P)
    BY <1>5
  <2>5. pre \o C \in Texts /\ pre \o P \in Texts
        /\ pre \o (C \o y) = (pre \o C) \o y /\ pre \o (P \o z) = (pre \o P) \o z
    <3> HIDE DEF C, P, y, z
    <3>1. \A u, v \in Texts : pre \o u \in Texts /\ pre \o (u \o v) = (pre \o u) \o v
      BY <1>2, Concat DEF Texts
    <3> QED BY <2>2, <2>3, <3>1
  <2> HIDE DEF C, P
  <2>6. Said((pre \o C) \o y, (pre \o P) \o z)
    BY <2>4, <2>5, ChunkRead
  <2> QED BY <2>1, <2>2, <2>5, <2>6
<1> HIDE DEF T
<1>6. \A d \in Seq(Chars) : d \in T
  BY <1>4, <1>5, EverySequence
<1>7. c \in T
  BY <1>6 DEF Texts
<1> DEFINE C == Clean(c, special)
           P == Pattern(c, special)
<1>8. Said(pre \o C, pre \o P)
  BY <1>7 DEF T
<1>9. \E x : x \in Chars
  BY DEF Chars
<1>10. C \in Texts /\ P \in Texts
  BY <1>9, CleanIs
<1> HIDE DEF C, P
<1>11. pre \o C \in Texts /\ pre \o P \in Texts
  BY <1>2, <1>10, Concat DEF Texts
<1>12. Said((pre \o C) \o post, (pre \o P) \o post)
  BY <1>8, <1>11, WildcardRead
<1>13. Literal((pre \o C) \o post) = (pre \o P) \o post
  BY <1>12 DEF Literal, Read, Said
<1> QED BY <1>13 DEF C, P

\* Without wildcards there is nothing to escape: the text is itself.
LEMMA PatternPlain ==
  ASSUME NEW c \in Texts
  PROVE  Pattern(c, {}) = c
<1> DEFINE T == {d \in Texts : Pattern(d, {}) = d}
<1>1. {} \in Specials
  BY DEF Specials
<1>2. <<>> \in T
  BY <1>1, CleanIs DEF Texts
<1>3. ASSUME NEW d \in Seq(Chars), NEW x \in Chars, d \in T PROVE Append(d, x) \in T
  <2>1. d \in Texts /\ Append(d, x) \in Texts /\ d \o <<x>> = Append(d, x)
    BY TwoAppended DEF Texts
  <2>2. Pattern(Append(d, x), {}) = Pattern(d, {}) \o Meant(x, {})
    BY <1>1, <2>1, CleanIs
  <2>3. Meant(x, {}) = <<x>>
    BY DEF Meant
  <2> QED BY <1>3, <2>1, <2>2, <2>3
<1> HIDE DEF T
<1>4. \A d \in Seq(Chars) : d \in T
  BY <1>2, <1>3, EverySequence
<1> QED BY <1>4 DEF T, Texts

-----------------------------------------------------------------------------
(* What the server takes for the pattern.                                  *)

Started == [at |-> {0}, escaped |-> FALSE]
Matched(v, p, escape) == Folded(p, Started, Matching(v, escape))

\* The pattern may have taken as much of v as S has, and nothing is escaped.
Took(v, p, escape, S) == Matched(v, p, escape) = [at |-> S, escaped |-> FALSE]

\* S, and x after it.
Then(v, S, x) == {j \in 0 .. Len(v) : j - 1 \in S /\ v[j] = x}
Above(v, S) == {j \in 0 .. Len(v) : \E i \in S : i <= j}

\* S, and c after it.
Followed(v, S, c) == {j \in 0 .. Len(v) : \E i \in S : j = i + Len(c) /\ Occurs(c, v, i)}

LEMMA MatchingIs ==
  ASSUME NEW v \in Texts, NEW escape \in BOOLEAN
  PROVE  /\ Matching(v, escape) \in [Chars -> [Matches(v) -> Matches(v)]]
         /\ \A x \in Chars, S \in SUBSET (0 .. Len(v)) :
              /\ x \notin Prohibited /\ ~(escape /\ x = "!") =>
                   Matching(v, escape)[x][[at |-> S, escaped |-> FALSE]]
                     = [at |-> Then(v, S, x), escaped |-> FALSE]
              /\ x = "%" =>
                   Matching(v, escape)[x][[at |-> S, escaped |-> FALSE]]
                     = [at |-> Above(v, S), escaped |-> FALSE]
              /\ escape /\ x = "!" =>
                   Matching(v, escape)[x][[at |-> S, escaped |-> FALSE]]
                     = [at |-> S, escaped |-> TRUE]
              /\ Matching(v, escape)[x][[at |-> S, escaped |-> TRUE]]
                   = [at |-> Then(v, S, x), escaped |-> FALSE]
<1> DEFINE N == 0 .. Len(v)
           J(x, m) == {j \in N : IF x = "%" /\ ~m.escaped THEN \E i \in m.at : i <= j
                                 ELSE /\ j - 1 \in m.at
                                      /\ v[j] = x \/ (x = "_" /\ ~m.escaped)}
           V(x, m) == IF escape /\ x = "!" /\ ~m.escaped THEN [m EXCEPT !.escaped = TRUE]
                      ELSE [at |-> J(x, m), escaped |-> FALSE]
           M(S, b) == [at |-> S, escaped |-> b]
<1>1. Matching(v, escape) = [x \in Chars |-> [m \in Matches(v) |-> V(x, m)]]
  BY DEF Matching
<1>2. Matches(v) = [at : SUBSET N, escaped : BOOLEAN]
  BY DEF Matches
<1>3. \A x \in Chars, S \in SUBSET N :
        /\ x \notin Prohibited => J(x, M(S, FALSE)) = Then(v, S, x)
        /\ x = "%" => J(x, M(S, FALSE)) = Above(v, S)
        /\ J(x, M(S, TRUE)) = Then(v, S, x)
  BY DEF Prohibited, Then, Above
<1>4. \A x, m : J(x, m) \in SUBSET N
  OBVIOUS
<1> HIDE DEF J, N
<1>5. \A x \in Chars, m \in Matches(v) : V(x, m) \in Matches(v)
  <2> SUFFICES ASSUME NEW x \in Chars, NEW m \in Matches(v) PROVE V(x, m) \in Matches(v)
    OBVIOUS
  <2>1. m \in [at : SUBSET N, escaped : BOOLEAN]
    BY <1>2
  <2>2. [m EXCEPT !.escaped = TRUE] \in Matches(v)
    BY <1>2, <2>1
  <2>3. [at |-> J(x, m), escaped |-> FALSE] \in Matches(v)
    BY <1>2, <1>4
  <2> QED BY <2>2, <2>3
<1>6. \A x \in Chars, S \in SUBSET N :
        /\ ~(escape /\ x = "!") => V(x, M(S, FALSE)) = M(J(x, M(S, FALSE)), FALSE)
        /\ escape /\ x = "!" => V(x, M(S, FALSE)) = M(S, TRUE)
        /\ V(x, M(S, TRUE)) = M(J(x, M(S, TRUE)), FALSE)
  OBVIOUS
<1>7. \A S \in SUBSET N : M(S, TRUE) \in Matches(v) /\ M(S, FALSE) \in Matches(v)
  BY <1>2
<1> HIDE DEF V
<1>8. \A x \in Chars, m \in Matches(v) : Matching(v, escape)[x][m] = V(x, m)
  BY <1>1
<1>9. Matching(v, escape) \in [Chars -> [Matches(v) -> Matches(v)]]
  BY <1>1, <1>5
<1> HIDE DEF M
<1>10. ASSUME NEW x \in Chars, NEW S \in SUBSET N
       PROVE  /\ x \notin Prohibited /\ ~(escape /\ x = "!") =>
                   Matching(v, escape)[x][M(S, FALSE)] = M(Then(v, S, x), FALSE)
              /\ x = "%" => Matching(v, escape)[x][M(S, FALSE)] = M(Above(v, S), FALSE)
              /\ escape /\ x = "!" => Matching(v, escape)[x][M(S, FALSE)] = M(S, TRUE)
              /\ Matching(v, escape)[x][M(S, TRUE)] = M(Then(v, S, x), FALSE)
  <2>1. M(S, FALSE) \in Matches(v) /\ M(S, TRUE) \in Matches(v)
    BY <1>7
  <2>2. /\ Matching(v, escape)[x][M(S, FALSE)] = V(x, M(S, FALSE))
        /\ Matching(v, escape)[x][M(S, TRUE)] = V(x, M(S, TRUE))
    BY <1>8, <2>1
  <2>3. x = "%" => x # "!"
    OBVIOUS
  <2> QED BY <1>3, <1>6, <2>2, <2>3
<1> QED BY <1>9, <1>10 DEF M, N

LEMMA MatchedIs ==
  ASSUME NEW v \in Texts, NEW escape \in BOOLEAN
  PROVE  /\ Took(v, <<>>, escape, {0})
         /\ \A p \in Texts, x \in Chars :
              /\ Matched(v, p, escape) \in Matches(v)
              /\ Matched(v, Append(p, x), escape) = Matching(v, escape)[x][Matched(v, p, escape)]
<1>1. Started \in Matches(v)
  BY DEF Started, Matches, Texts
<1>2. Matched(v, <<>>, escape) = Started
  BY <1>1, MatchingIs, FoldedEmpty DEF Matched
<1>3. Steps(Chars, Matches(v), Started, Matching(v, escape))
  BY <1>1, MatchingIs DEF Steps
<1>4. ASSUME NEW p \in Texts, NEW x \in Chars
      PROVE  /\ Matched(v, p, escape) \in Matches(v)
             /\ Matched(v, Append(p, x), escape) = Matching(v, escape)[x][Matched(v, p, escape)]
  BY <1>3, FoldedAppend DEF Matched, Texts
<1> QED BY <1>2, <1>4 DEF Took, Started

\* One more symbol of the user's, escaped or not, takes that symbol.
LEMMA ChunkTaken ==
  ASSUME NEW v \in Texts, NEW special \in Specials, NEW escape \in BOOLEAN,
         escape = (special # {}),
         NEW p \in Texts, NEW S \in SUBSET (0 .. Len(v)), NEW x \in Chars,
         special = {} => x \notin Prohibited,
         Took(v, p, escape, S)
  PROVE  Took(v, p \o Meant(x, special), escape, Then(v, S, x))
<1>1. p \in Seq(Chars) /\ "!" \in Chars
  BY DEF Texts, Chars
<1>2. CASE x \in special
  <2> DEFINE e == "!"
  <2>1. Meant(x, special) = <<e, x>> /\ e \in Chars /\ escape
    BY <1>1, <1>2 DEF Meant
  <2>2. Matching(v, escape)[e][[at |-> S, escaped |-> FALSE]] = [at |-> S, escaped |-> TRUE]
    BY <2>1, MatchingIs
  <2> HIDE DEF e
  <2>3. p \o <<e, x>> = Append(Append(p, e), x) /\ Append(p, e) \in Texts
    BY <1>1, <2>1, TwoAppended DEF Texts
  <2>4. Matched(v, Append(p, e), escape) = [at |-> S, escaped |-> TRUE]
    <3>1. Matched(v, Append(p, e), escape) = Matching(v, escape)[e][Matched(v, p, escape)]
      BY <2>1, MatchedIs
    <3> QED BY <2>2, <3>1 DEF Took
  <2>5. Matching(v, escape)[x][[at |-> S, escaped |-> TRUE]]
          = [at |-> Then(v, S, x), escaped |-> FALSE]
    BY MatchingIs
  <2>6. Matched(v, Append(Append(p, e), x), escape) = [at |-> Then(v, S, x), escaped |-> FALSE]
    <3>1. Matched(v, Append(Append(p, e), x), escape)
            = Matching(v, escape)[x][Matched(v, Append(p, e), escape)]
      BY <2>3, MatchedIs
    <3> QED BY <2>4, <2>5, <3>1
  <2> QED BY <2>1, <2>3, <2>6 DEF Took
<1>3. CASE x \notin special
  <2>1. Meant(x, special) = <<x>> /\ p \o <<x>> = Append(p, x)
    BY <1>1, <1>3, TwoAppended DEF Meant
  <2>2. x \notin Prohibited /\ ~(escape /\ x = "!")
    BY <1>3 DEF Specials
  <2>3. Matching(v, escape)[x][[at |-> S, escaped |-> FALSE]]
          = [at |-> Then(v, S, x), escaped |-> FALSE]
    BY <2>2, MatchingIs
  <2>4. Matched(v, Append(p, x), escape) = [at |-> Then(v, S, x), escaped |-> FALSE]
    <3>1. Matched(v, Append(p, x), escape) = Matching(v, escape)[x][Matched(v, p, escape)]
      BY MatchedIs
    <3> QED BY <2>3, <3>1 DEF Took
  <2> QED BY <2>1, <2>4 DEF Took
<1> QED BY <1>2, <1>3

LEMMA FollowedGrow ==
  ASSUME NEW v \in Texts, NEW S \in SUBSET (0 .. Len(v)), NEW c \in Texts, NEW x \in Chars
  PROVE  Followed(v, S, <<>>) = S /\ Followed(v, S, Append(c, x)) = Then(v, Followed(v, S, c), x)
<1> DEFINE n == Len(v)
           k == Len(c)
           d == Append(c, x)
<1>1. n \in Nat /\ k \in Nat /\ Len(d) = k + 1 /\ d[k + 1] = x
      /\ DOMAIN d = 1 .. k + 1 /\ DOMAIN c = 1 .. k /\ \A i \in 1 .. k : d[i] = c[i]
  BY DEF Texts
<1>2. Followed(v, S, <<>>) = S
  <2>1. \A i \in S : i \in Int /\ i \in 0 .. n /\ i + 0 = i /\ i \in 0 .. n - 0
    BY <1>1
  <2>2. Len(<<>>) = 0 /\ DOMAIN <<>> = {}
    OBVIOUS
  <2>3. \A i \in S : Occurs(<<>>, v, i)
    BY <2>1, <2>2 DEF Occurs
  <2> HIDE DEF n
  <2> QED BY <2>1, <2>2, <2>3 DEF Followed, n
<1> HIDE DEF d
<1>3. ASSUME NEW i \in S
      PROVE  Occurs(d, v, i) <=> Occurs(c, v, i) /\ i + k + 1 <= n /\ v[i + k + 1] = x
  <2>1. i \in Int /\ 0 <= i /\ i <= n
    BY <1>1
  <2> HIDE DEF n, k
  <2>2. i \in 0 .. n - (k + 1) <=> i \in 0 .. n - k /\ i + k + 1 <= n
    BY <1>1, <2>1
  <2>3. (\A m \in 1 .. k + 1 : v[i + m] = d[m])
          <=> (\A m \in 1 .. k : v[i + m] = c[m]) /\ v[i + k + 1] = x
    <3>1. \A m \in 1 .. k + 1 : m \in 1 .. k \/ m = k + 1
      BY <1>1
    <3>2. (\A m \in 1 .. k : m \in 1 .. k + 1) /\ k + 1 \in 1 .. k + 1 /\ i + (k + 1) = i + k + 1
      BY <1>1, <2>1
    <3>3. ASSUME NEW m \in 1 .. k PROVE m \in 1 .. k + 1 /\ d[m] = c[m]
      BY <1>1, <3>2
    <3>4. d[k + 1] = x /\ v[i + (k + 1)] = v[i + k + 1]
      BY <1>1, <3>2
    <3> HIDE DEF n, k
    <3>5. ASSUME \A m \in 1 .. k + 1 : v[i + m] = d[m]
          PROVE  (\A m \in 1 .. k : v[i + m] = c[m]) /\ v[i + k + 1] = x
      BY <3>2, <3>3, <3>4, <3>5
    <3>6. ASSUME (\A m \in 1 .. k : v[i + m] = c[m]) /\ v[i + k + 1] = x, NEW m \in 1 .. k + 1
          PROVE  v[i + m] = d[m]
      BY <3>1, <3>3, <3>4, <3>6
    <3> QED BY <3>5, <3>6
  <2> QED BY <1>1, <2>2, <2>3 DEF Occurs, n, k
<1>4. ASSUME NEW j \in 0 .. n
      PROVE  j \in Followed(v, S, d) <=> j \in Then(v, Followed(v, S, c), x)
  <2>1. j \in Int /\ 0 <= j /\ j <= n
    BY <1>1
  <2>2. ASSUME j \in Followed(v, S, d) PROVE j \in Then(v, Followed(v, S, c), x)
    <3>1. PICK i \in S : j = i + Len(d) /\ Occurs(d, v, i)
      BY <2>2 DEF Followed
    <3>2. i \in Int /\ 0 <= i /\ j = i + k + 1
      BY <1>1, <3>1
    <3>3. j - 1 = i + k /\ j - 1 \in 0 .. n
      BY <1>1, <2>1, <3>2
    <3>4. Occurs(c, v, i) /\ v[j] = x
      BY <1>3, <3>1, <3>2
    <3> QED BY <3>3, <3>4 DEF Followed, Then
  <2>3. ASSUME j \in Then(v, Followed(v, S, c), x) PROVE j \in Followed(v, S, d)
    <3>1. j - 1 \in Followed(v, S, c) /\ v[j] = x
      BY <2>3 DEF Then
    <3>2. PICK i \in S : j - 1 = i + k /\ Occurs(c, v, i)
      BY <3>1 DEF Followed
    <3>3. i \in Int /\ j = i + k + 1
      BY <1>1, <2>1, <3>2
    <3>4. Occurs(d, v, i)
      BY <1>3, <2>1, <3>1, <3>2, <3>3
    <3>5. j = i + Len(d)
      BY <1>1, <3>3
    <3> QED BY <3>4, <3>5 DEF Followed
  <2> QED BY <2>2, <2>3
<1>5. Followed(v, S, d) = Then(v, Followed(v, S, c), x)
  BY <1>4 DEF Followed, Then
<1> QED BY <1>2, <1>5 DEF d

\* What is meant by the text of the user takes that text.
LEMMA PatternTaken ==
  ASSUME NEW v \in Texts, NEW special \in Specials, NEW escape \in BOOLEAN,
         escape = (special # {}),
         NEW p \in Texts, NEW S \in SUBSET (0 .. Len(v)), Took(v, p, escape, S), NEW c \in Texts,
         special = {} => \A i \in DOMAIN c : c[i] \notin Prohibited
  PROVE  Took(v, p \o Pattern(c, special), escape, Followed(v, S, c))
<1> DEFINE Fit(d) == special = {} => \A i \in DOMAIN d : d[i] \notin Prohibited
           T == {d \in Texts : Fit(d) => Took(v, p \o Pattern(d, special), escape, Followed(v, S, d))}
           e == <<>>
<1>1. e \in Texts /\ p \o e = p
  BY Concat DEF Texts
<1>2. e \in T
  <2>1. Pattern(e, special) = e
    BY CleanIs
  <2>2. \E x : x \in Chars
    BY DEF Chars
  <2>3. Followed(v, S, e) = S
    BY <1>1, <2>2, FollowedGrow
  <2> HIDE DEF e
  <2> QED BY <1>1, <2>1, <2>3
<1>3. ASSUME NEW d \in Seq(Chars), NEW x \in Chars, d \in T PROVE Append(d, x) \in T
  <2> DEFINE P == Pattern(d, special)
             z == Meant(x, special)
             f == Append(d, x)
  <2>1. d \in Texts /\ f \in Texts
    BY DEF Texts
  <2>2. P \in Texts /\ Pattern(f, special) = P \o z /\ z \in Texts
    BY <2>1, CleanIs, ChunkType
  <2>3. p \o P \in Texts /\ p \o (P \o z) = (p \o P) \o z
    <3> HIDE DEF P, z
    <3>1. \A u, w \in Texts : p \o u \in Texts /\ p \o (u \o w) = (p \o u) \o w
      BY Concat DEF Texts
    <3> QED BY <2>2, <3>1
  <2> SUFFICES ASSUME Fit(f) PROVE Took(v, p \o Pattern(f, special), escape, Followed(v, S, f))
    BY <2>1
  <2>4. Fit(d) /\ (special = {} => x \notin Prohibited)
    <3>1. Len(d) \in Nat /\ DOMAIN d = 1 .. Len(d) /\ DOMAIN f = 1 .. Len(d) + 1
          /\ f[Len(d) + 1] = x /\ \A i \in 1 .. Len(d) : f[i] = d[i]
      OBVIOUS
    <3>2. Len(d) + 1 \in 1 .. Len(d) + 1 /\ \A i \in 1 .. Len(d) : i \in 1 .. Len(d) + 1
      BY <3>1
    <3> HIDE DEF f
    <3> QED BY <3>1, <3>2
  <2>5. Took(v, p \o P, escape, Followed(v, S, d))
    BY <1>3, <2>4
  <2>6. Followed(v, S, d) \in SUBSET (0 .. Len(v))
    BY DEF Followed
  <2>7. Took(v, (p \o P) \o z, escape, Then(v, Followed(v, S, d), x))
    <3> HIDE DEF P
    <3> QED BY <2>3, <2>4, <2>5, <2>6, ChunkTaken
  <2>8. Followed(v, S, f) = Then(v, Followed(v, S, d), x)
    <3>1. \A y \in Chars : Followed(v, S, Append(d, y)) = Then(v, Followed(v, S, d), y)
      BY <2>1, FollowedGrow
    <3> QED BY <3>1
  <2> QED BY <2>2, <2>3, <2>7, <2>8
<1> HIDE DEF T
<1>4. \A d \in Seq(Chars) : d \in T
  BY <1>2, <1>3, EverySequence
<1>5. c \in T
  BY <1>4 DEF Texts
<1> QED BY <1>5 DEF T

LEMMA PercentTaken ==
  ASSUME NEW v \in Texts, NEW escape \in BOOLEAN, NEW p \in Texts,
         NEW S \in SUBSET (0 .. Len(v)), Took(v, p, escape, S)
  PROVE  Took(v, p \o <<"%">>, escape, Above(v, S)) /\ p \o <<"%">> \in Texts
<1> DEFINE e == "%"
<1>1. e \in Chars
  BY DEF Chars
<1>2. Matching(v, escape)[e][[at |-> S, escaped |-> FALSE]]
        = [at |-> Above(v, S), escaped |-> FALSE]
  BY <1>1, MatchingIs
<1> HIDE DEF e
<1>3. Matched(v, Append(p, e), escape) = Matching(v, escape)[e][Matched(v, p, escape)]
  BY <1>1, MatchedIs
<1>4. p \o <<e>> = Append(p, e) /\ Append(p, e) \in Texts
  BY <1>1, TwoAppended DEF Texts
<1>5. Took(v, p \o <<e>>, escape, Above(v, S))
  BY <1>2, <1>3, <1>4 DEF Took
<1> QED BY <1>4, <1>5 DEF e

\* Where the text of the user may begin, and what may follow it.
Begin(v, pre) == IF pre = <<>> THEN {0} ELSE 0 .. Len(v)
End(v, post, S) == IF post = <<>> THEN S ELSE Above(v, S)

\* Like finds what is meant, between its wildcards.
LEMMA LikeIs ==
  ASSUME NEW v \in Texts, NEW special \in Specials, NEW escape \in BOOLEAN,
         escape = (special # {}),
         NEW pre \in Wildcard, NEW post \in Wildcard, NEW c \in Texts,
         special = {} => \A i \in DOMAIN c : c[i] \notin Prohibited
  PROVE  Like(v, pre \o Pattern(c, special) \o post, escape)
           <=> Len(v) \in End(v, post, Followed(v, Begin(v, pre), c))
<1> DEFINE P == Pattern(c, special)
           B == Begin(v, pre)
           E == Followed(v, B, c)
           e == <<>>
           w == <<"%">>
<1>0. Len(v) \in Nat /\ e # w
  BY DEF Texts
<1>1. e \in Texts /\ w \in Texts /\ e \o w = w
  <2>1. "%" \in Chars
    BY DEF Chars
  <2>2. e \in Seq(Chars) /\ w \in Seq(Chars)
    BY <2>1
  <2> QED BY <2>2, Concat DEF Texts
<1>2. Took(v, e, escape, {0})
  BY MatchedIs
<1>3. {0} \in SUBSET (0 .. Len(v)) /\ Above(v, {0}) = 0 .. Len(v)
  BY <1>0 DEF Above
<1>4. pre \in Texts /\ B \in SUBSET (0 .. Len(v)) /\ Took(v, pre, escape, B)
  <2>1. CASE pre = e
    <3>1. B = {0}
      BY <2>1 DEF Begin
    <3> QED BY <1>1, <1>2, <1>3, <2>1, <3>1
  <2>2. CASE pre = w
    <3>1. B = 0 .. Len(v)
      BY <1>0, <2>2 DEF Begin
    <3>2. Took(v, e \o w, escape, Above(v, {0}))
      <4> HIDE DEF e
      <4> QED BY <1>1, <1>2, <1>3, PercentTaken
    <3> QED BY <1>1, <1>3, <2>2, <3>1, <3>2
  <2> QED BY <2>1, <2>2 DEF Wildcard
<1>5. P \in Texts
  <2>1. \E x : x \in Chars
    BY DEF Chars
  <2> QED BY <2>1, CleanIs
<1> HIDE DEF B
<1>6. Took(v, pre \o P, escape, E) /\ E \in SUBSET (0 .. Len(v))
  <2>1. E \in SUBSET (0 .. Len(v))
    BY DEF Followed
  <2>2. Took(v, pre \o P, escape, E)
    BY <1>4, PatternTaken
  <2> QED BY <2>1, <2>2
<1>7. pre \o P \in Texts
  <2> HIDE DEF P
  <2> QED BY <1>4, <1>5, Concat DEF Texts
<1> DEFINE p == pre \o P
<1> HIDE DEF P, E, e, w
<1>8. Took(v, p \o post, escape, End(v, post, E))
  <2>1. CASE post = e
    <3>1. p \o post = p /\ End(v, post, E) = E
      BY <1>7, <2>1, Concat DEF End, Texts, e
    <3> QED BY <1>6, <3>1
  <2>2. CASE post = w
    <3>1. End(v, post, E) = Above(v, E)
      BY <1>0, <2>2 DEF End, e
    <3>2. Took(v, p \o w, escape, Above(v, E))
      BY <1>6, <1>7, PercentTaken DEF w
    <3> QED BY <2>2, <3>1, <3>2
  <2> QED BY <2>1, <2>2 DEF Wildcard, e, w
<1>9. Like(v, p \o post, escape) <=> Len(v) \in End(v, post, E)
  BY <1>8 DEF Like, Took, Matched, Started
<1> QED BY <1>9 DEF P, B, E

\* The three masks, with a wildcard on either side or on one.
LEMMA MaskIs ==
  ASSUME NEW v \in Texts, NEW c \in Texts
  PROVE  /\ Len(v) \in Above(v, Followed(v, 0 .. Len(v), c)) <=> \E i \in 0 .. Len(v) : Occurs(c, v, i)
         /\ Len(v) \in Above(v, Followed(v, {0}, c)) <=> Occurs(c, v, 0)
         /\ Len(v) \in Followed(v, 0 .. Len(v), c) <=> Occurs(c, v, Len(v) - Len(c))
<1> DEFINE n == Len(v)
           k == Len(c)
<1>1. n \in Nat /\ k \in Nat
  BY DEF Texts
<1> HIDE DEF n, k
<1>2. \A i : Occurs(c, v, i) => i \in Int /\ 0 <= i /\ i + k <= n
  BY <1>1 DEF Occurs, n, k
<1>3. ASSUME NEW S \in SUBSET (0 .. n)
      PROVE  n \in Above(v, Followed(v, S, c)) <=> \E i \in S : Occurs(c, v, i)
  <2>1. ASSUME NEW i \in S, Occurs(c, v, i) PROVE i + k \in Followed(v, S, c) /\ i + k <= n
    <3>1. i + k \in 0 .. n
      BY <1>1, <1>2, <2>1
    <3> QED BY <1>1, <2>1, <3>1 DEF Followed, n, k
  <2>2. n \in Above(v, Followed(v, S, c)) => \E i \in S : Occurs(c, v, i)
    BY DEF Above, Followed
  <2>3. n \in 0 .. n
    BY <1>1
  <2> QED BY <2>1, <2>2, <2>3 DEF Above, n
<1>4. 0 .. n \in SUBSET (0 .. n) /\ {0} \in SUBSET (0 .. n) /\ n \in 0 .. n
  BY <1>1
<1>5. n \in Followed(v, 0 .. n, c) <=> Occurs(c, v, n - k)
  <2>1. n \in Followed(v, 0 .. n, c) <=> \E i \in 0 .. n : n = i + k /\ Occurs(c, v, i)
    BY <1>4 DEF Followed, n, k
  <2>2. \A i \in 0 .. n : n = i + k <=> i = n - k
    BY <1>1
  <2>3. Occurs(c, v, n - k) => n - k \in 0 .. n
    BY <1>1, <1>2
  <2> QED BY <2>1, <2>2, <2>3
<1> QED BY <1>3, <1>4, <1>5 DEF n, k

-----------------------------------------------------------------------------
(* The two providers, descriptor by descriptor.                            *)

\* What SqlProvider makes of a descriptor.
Translated(f) ==
  LET has == f.Predicate \notin {"Null", "NotNull"}
  IN [pred |-> SqlPredicate(f.Predicate),
      literal |-> IF has THEN Quote(f.Criterion, f.Predicate) ELSE <<>>,
      escape |-> has /\ Escapes(f.Criterion, f.Predicate)]

Descriptor == [Predicate : Predicates, Criterion : Texts]
Clauses == [pred : {"like", "=", "<>", "is null", "is not null"},
            literal : Texts, escape : BOOLEAN]

Special(c, pred) == IF Escapes(c, pred) THEN Prohibited \cup {"!"} ELSE {}
Before(pred) == IF pred \in {"Contains", "EndsWith"} THEN <<"%">> ELSE <<>>
After(pred) == IF pred \in {"Contains", "StartsWith"} THEN <<"%">> ELSE <<>>

LEMMA QuoteIs ==
  ASSUME NEW c \in Texts, NEW pred \in Predicates
  PROVE  /\ Special(c, pred) \in Specials /\ Before(pred) \in Wildcard /\ After(pred) \in Wildcard
         /\ Quote(c, pred) = Before(pred) \o Clean(c, Special(c, pred)) \o After(pred)
         /\ Quote(c, pred) \in Texts
         /\ Literal(Quote(c, pred)) = Before(pred) \o Pattern(c, Special(c, pred)) \o After(pred)
<1> DEFINE s == Special(c, pred)
           b == Before(pred)
           a == After(pred)
<1>1. s \in Specials /\ b \in Wildcard /\ a \in Wildcard
  BY DEF Special, Specials, Before, After, Wildcard
<1>2. Quote(c, pred) = b \o Clean(c, s) \o a
  BY DEF Quote, SqlCleanString, Clean, Special, Before, After
<1> HIDE DEF s, b, a
<1>3. Literal(b \o Clean(c, s) \o a) = b \o Pattern(c, s) \o a
  BY <1>1, LiteralIs
<1>4. b \in Texts /\ a \in Texts
  <2>1. "%" \in Chars
    BY DEF Chars
  <2>2. <<>> \in Texts /\ <<"%">> \in Texts
    BY <2>1 DEF Texts
  <2> QED BY <1>1, <2>2 DEF Wildcard
<1>5. \E x : x \in Chars
  BY DEF Chars
<1>6. Clean(c, s) \in Texts
  BY <1>1, <1>5, CleanIs
<1>7. b \o Clean(c, s) \o a \in Texts
  BY <1>4, <1>6, Concat DEF Texts
<1> QED BY <1>1, <1>2, <1>3, <1>7 DEF s, b, a

LEMMA TranslatedType ==
  ASSUME NEW f \in Descriptor
  PROVE  Translated(f) \in Clauses
<1>1. f.Predicate \in Predicates /\ f.Criterion \in Texts
  BY DEF Descriptor
<1>2. SqlPredicate(f.Predicate) \in {"like", "=", "<>", "is null", "is not null"}
  BY <1>1 DEF SqlPredicate, Predicates, Masks
<1>3. Quote(f.Criterion, f.Predicate) \in Texts /\ <<>> \in Texts
  BY <1>1, QuoteIs DEF Texts
<1>4. Escapes(f.Criterion, f.Predicate) \in BOOLEAN
  BY DEF Escapes
<1> QED BY <1>2, <1>3, <1>4 DEF Translated, Clauses

\* Of a field with a text the server decides as the expression does.
LEMMA SameSelection ==
  ASSUME NEW f \in Descriptor, f.Predicate \notin {"Null", "NotNull"}, NEW v \in Texts
  PROVE  SqlSelects(Translated(f), v) <=> LinqSelects(f, v)
<1> DEFINE c == f.Criterion
           q == f.Predicate
           b == Translated(f)
<1>1. c \in Texts /\ q \in Masks \cup {"Eq", "Neq"}
  BY DEF Descriptor, Predicates
<1>2. v # Null /\ Text(v) = v
  BY FilteringAssumption DEF Text
<1>3. b.pred = SqlPredicate(q) /\ b.literal = Quote(c, q) /\ b.escape = Escapes(c, q)
  BY DEF Translated, Escapes
<1>4. /\ Special(c, q) \in Specials /\ Before(q) \in Wildcard /\ After(q) \in Wildcard
      /\ Literal(Quote(c, q)) = Before(q) \o Pattern(c, Special(c, q)) \o After(q)
  BY <1>1, QuoteIs DEF Predicates
<1>5. CASE q \in {"Eq", "Neq"}
  <2>1. Special(c, q) = {} /\ Before(q) = <<>> /\ After(q) = <<>>
    BY <1>5 DEF Special, Escapes, Masks, Before, After
  <2>2. Pattern(c, {}) = c /\ <<>> \o c = c /\ c \o <<>> = c
    BY <1>1, PatternPlain, Concat DEF Texts
  <2>3. Literal(b.literal) = c
    BY <1>3, <1>4, <2>1, <2>2
  <2>4. CASE q = "Eq"
    <3>1. b.pred = "=" /\ (LinqSelects(f, v) <=> v = c)
      BY <1>3, <2>4 DEF SqlPredicate, LinqSelects, Masks
    <3> QED BY <2>3, <3>1 DEF SqlSelects
  <2>5. CASE q = "Neq"
    <3>1. b.pred = "<>" /\ (LinqSelects(f, v) <=> v # c)
      BY <1>3, <2>5 DEF SqlPredicate, LinqSelects, Masks
    <3> QED BY <1>2, <2>3, <3>1 DEF SqlSelects
  <2> QED BY <1>5, <2>4, <2>5
<1>6. CASE q \in Masks
  <2> DEFINE s == Special(c, q)
             e == Escapes(c, q)
  <2>1. e \in BOOLEAN /\ e = (s # {})
    BY DEF Escapes, Special
  <2>2. s = {} => \A i \in DOMAIN c : c[i] \notin Prohibited
    BY <1>6 DEF Special, Escapes
  <2>3. b.pred = "like"
    BY <1>3, <1>6 DEF SqlPredicate, Masks
  <2>4. SqlSelects(b, v) <=> Like(v, Literal(b.literal), b.escape)
    <3> QED BY <1>2, <2>3 DEF SqlSelects
  <2> HIDE DEF e, s, c
  <2>5. Like(v, Before(q) \o Pattern(c, s) \o After(q), e)
          <=> Len(v) \in End(v, After(q), Followed(v, Begin(v, Before(q)), c))
    BY <1>1, <1>4, <2>1, <2>2, LikeIs DEF s
  <2>6. SqlSelects(b, v) <=> Len(v) \in End(v, After(q), Followed(v, Begin(v, Before(q)), c))
    BY <1>3, <1>4, <2>4, <2>5 DEF e, s
  <2>7. <<"%">> # <<>>
    OBVIOUS
  <2>8. CASE q = "Contains"
    <3>1. End(v, After(q), Followed(v, Begin(v, Before(q)), c)) = Above(v, Followed(v, 0 .. Len(v), c))
      BY <2>7, <2>8 DEF End, Begin, Before, After
    <3>2. LinqSelects(f, v) <=> \E i \in 0 .. Len(v) : Occurs(c, v, i)
      BY <1>2, <2>8 DEF LinqSelects, c
    <3> QED BY <1>1, <2>6, <3>1, <3>2, MaskIs
  <2>9. CASE q = "StartsWith"
    <3>1. End(v, After(q), Followed(v, Begin(v, Before(q)), c)) = Above(v, Followed(v, {0}, c))
      BY <2>7, <2>9 DEF End, Begin, Before, After
    <3>2. LinqSelects(f, v) <=> Occurs(c, v, 0)
      BY <1>2, <2>9 DEF LinqSelects, c
    <3> QED BY <1>1, <2>6, <3>1, <3>2, MaskIs
  <2>10. CASE q = "EndsWith"
    <3>1. End(v, After(q), Followed(v, Begin(v, Before(q)), c)) = Followed(v, 0 .. Len(v), c)
      BY <2>7, <2>10 DEF End, Begin, Before, After
    <3>2. LinqSelects(f, v) <=> Occurs(c, v, Len(v) - Len(c))
      BY <1>2, <2>10 DEF LinqSelects, c
    <3> QED BY <1>1, <2>6, <3>1, <3>2, MaskIs
  <2> QED BY <1>6, <2>8, <2>9, <2>10 DEF Masks
<1> QED BY <1>1, <1>5, <1>6

-----------------------------------------------------------------------------
(* The invariant: both providers have made of the descriptors visited so   *)
(* far what they make of each, and LinqProvider has combined that.         *)

Selected(n) ==
  {v \in Rows : IF rule = "Or" THEN \E k \in 1 .. n : LinqSelects(filtering[k], v)
                               ELSE \A k \in 1 .. n : LinqSelects(filtering[k], v)}

AllTranslated ==
  Len(bld) = visited /\ \A k \in 1 .. visited : bld[k] = Translated(filtering[k])

AllSelected == visited > 0 => linq = Selected(visited)

FilterInv == FilterTypeOK /\ AllTranslated /\ AllSelected

LEMMA FilterType ==
  ASSUME FilterTypeOK
  PROVE  /\ Len(filtering) \in Nat /\ visited \in Nat /\ visited <= Len(filtering)
         /\ \A k \in 1 .. Len(filtering) : filtering[k] \in Descriptor
<1>1. filtering \in Seq(Descriptor)
  BY FilteringAssumption DEF FilterTypeOK, Descriptor
<1>2. Len(filtering) \in Nat /\ \A k \in 1 .. Len(filtering) : filtering[k] \in Descriptor
  BY <1>1
<1>3. visited \in 0 .. Len(filtering)
  BY DEF FilterTypeOK
<1>4. visited \in Nat /\ visited <= Len(filtering)
  BY <1>2, <1>3
<1> QED BY <1>2, <1>4

LEMMA FilterInitInv == FilterInit => FilterInv
<1> SUFFICES ASSUME FilterInit PROVE FilterInv
  OBVIOUS
<1>1. filtering \in Seq(Descriptor)
  BY FilteringAssumption DEF FilterInit, Descriptor
<1>2. Len(filtering) \in Nat
  BY <1>1
<1> QED BY <1>2 DEF FilterInit, FilterInv, FilterTypeOK, AllTranslated, AllSelected

LEMMA FilterNextInv == FilterInv /\ [FilterNext]_filterVars => FilterInv'
<1> SUFFICES ASSUME FilterInv, [FilterNext]_filterVars PROVE FilterInv'
  OBVIOUS
<1>1. CASE UNCHANGED filterVars
  BY <1>1 DEF filterVars, FilterInv, FilterTypeOK, AllTranslated, AllSelected, Selected
<1>2. CASE Visit
  <2> DEFINE n == visited
             f == filtering[n + 1]
             S == {v \in Rows : LinqSelects(f, v)}
  <2>1. FilterTypeOK /\ AllTranslated /\ AllSelected
    BY DEF FilterInv
  <2>2. /\ n < Len(filtering) /\ visited' = n + 1
        /\ linq' = IF n = 0 THEN S ELSE Combine(linq, S)
        /\ bld' = Append(bld, Translated(f))
        /\ filtering' = filtering /\ rule' = rule
    BY <1>2 DEF Visit, Translated
  <2>3. n \in Nat /\ Len(filtering) \in Nat /\ n + 1 \in 1 .. Len(filtering) /\ f \in Descriptor
    BY <2>1, <2>2, FilterType
  <2>4. Translated(f) \in Clauses
    BY <2>3, TranslatedType
  <2>5. bld \in Seq(Clauses) /\ Len(bld) = n
    BY <2>1 DEF FilterTypeOK, Clauses, AllTranslated
  <2>6. bld' \in Seq(Clauses) /\ Len(bld') = n + 1
        /\ bld'[n + 1] = Translated(f) /\ \A k \in 1 .. n : bld'[k] = bld[k]
    <3> HIDE DEF n, f
    <3> QED BY <2>2, <2>3, <2>4, <2>5
  <2>7. FilterTypeOK'
    <3>1. linq' \subseteq Rows
      BY <2>1, <2>2 DEF FilterTypeOK, Combine
    <3>2. n + 1 \in 0 .. Len(filtering)
      BY <2>3
    <3> QED BY <2>1, <2>2, <2>6, <3>1, <3>2 DEF FilterTypeOK, Clauses
  <2>8. \A k \in 1 .. n + 1 : k \in 1 .. n \/ k = n + 1
    BY <2>3
  <2>9. n + 1 \in 1 .. n + 1 /\ \A k \in 1 .. n : k \in 1 .. n + 1
    BY <2>3
  <2>10. AllTranslated'
    <3>1. \A k \in 1 .. n + 1 : bld'[k] = Translated(filtering[k])
      BY <2>1, <2>6, <2>8 DEF AllTranslated
    <3> QED BY <2>2, <2>6, <3>1 DEF AllTranslated
  <2>11. AllSelected'
    <3>1. linq' = Selected(n + 1) => AllSelected'
      BY <2>2 DEF AllSelected, Selected
    <3>2. CASE n = 0
      <4>1. \A k \in 1 .. n + 1 : k = n + 1
        BY <2>3, <3>2
      <4>2. S = Selected(n + 1)
        BY <2>9, <4>1 DEF Selected
      <4> QED BY <2>2, <3>1, <3>2, <4>2
    <3>3. CASE n > 0
      <4>1. linq = Selected(n)
        BY <2>1, <3>3 DEF AllSelected
      <4>2. CASE rule = "Or"
        <5>1. linq' = linq \cup S
          BY <2>2, <3>3, <4>2 DEF Combine
        <5>2. \A v : (\E k \in 1 .. n + 1 : LinqSelects(filtering[k], v))
                     <=> (\E k \in 1 .. n : LinqSelects(filtering[k], v)) \/ LinqSelects(f, v)
          BY <2>8, <2>9
        <5> QED BY <2>2, <3>1, <4>1, <4>2, <5>1, <5>2 DEF Selected
      <4>3. CASE rule # "Or"
        <5>1. linq' = linq \cap S
          BY <2>2, <3>3, <4>3 DEF Combine
        <5>2. \A v : (\A k \in 1 .. n + 1 : LinqSelects(filtering[k], v))
                     <=> (\A k \in 1 .. n : LinqSelects(filtering[k], v)) /\ LinqSelects(f, v)
          BY <2>8, <2>9
        <5> QED BY <2>2, <3>1, <4>1, <4>3, <5>1, <5>2 DEF Selected
      <4> QED BY <4>2, <4>3
    <3> QED BY <2>3, <3>2, <3>3
  <2> QED BY <2>7, <2>10, <2>11 DEF FilterInv
<1> QED BY <1>1, <1>2 DEF FilterNext

LEMMA FilterInvariance == FilterSpec => []FilterInv
BY FilterInitInv, FilterNextInv, PTL DEF FilterSpec

\* A where clause is made of whole predicates, whatever the user has typed, and
\* the expression selects some of the records (SqlProvider, LinqProvider).
THEOREM FilterTypeCorrect == FilterSpec => []FilterTypeOK
<1>1. FilterInv => FilterTypeOK
  BY DEF FilterInv
<1> QED BY <1>1, FilterInvariance, PTL

\* Of the records whose field has a text, the where clause of SqlProvider and
\* the expression of LinqProvider select the same, for every text there is and
\* every text asked for: nothing typed is taken for a wildcard, an escape or the
\* end of the literal, and the descriptors are combined alike.
THEOREM ProvidersAgree == FilterSpec => []SameRows
<1>1. ASSUME FilterInv PROVE SameRows
  <2>1. FilterTypeOK /\ AllTranslated /\ AllSelected
    BY <1>1 DEF FilterInv
  <2> SUFFICES ASSUME visited > 0, \A k \in 1 .. visited : ~AsksForNull(k)
               PROVE  linq \ {Null} = SqlRows \ {Null}
    BY DEF SameRows
  <2>2. visited \in Nat /\ \A k \in 1 .. visited : k \in 1 .. Len(filtering)
        /\ filtering[k] \in Descriptor /\ filtering[k].Predicate \notin {"Null", "NotNull"}
    <3>1. \A k \in 1 .. visited : k \in 1 .. Len(filtering)
      BY <2>1, FilterType
    <3> QED BY <2>1, <3>1, FilterType DEF AsksForNull
  <2>3. DOMAIN bld = 1 .. visited /\ \A k \in 1 .. visited : bld[k] = Translated(filtering[k])
    <3>1. bld \in Seq(Clauses) /\ Len(bld) = visited
      BY <2>1 DEF AllTranslated, FilterTypeOK, Clauses
    <3>2. DOMAIN bld = 1 .. Len(bld)
      BY <3>1
    <3> QED BY <2>1, <3>1, <3>2 DEF AllTranslated
  <2>4. linq = Selected(visited)
    BY <2>1 DEF AllSelected
  <2>5. ASSUME NEW v \in Rows \ {Null}, NEW k \in 1 .. visited
        PROVE  SqlSelects(bld[k], v) <=> LinqSelects(filtering[k], v)
    <3>1. v \in Texts
      BY FilteringAssumption
    <3> QED BY <2>2, <2>3, <3>1, SameSelection
  <2> QED BY <2>3, <2>4, <2>5 DEF Selected, SqlRows
<1> QED BY <1>1, FilterInvariance, PTL

-----------------------------------------------------------------------------
(* The query cache.                                                        *)

USE DEF At, Goto, Ends, Key

-----------------------------------------------------------------------------
(* The type invariant.                                                     *)

\* A thread that is at work has a query, one with a key unless it passes the
\* cache by.
Asking ==
  \A t \in Threads :
    /\ pc[t] # "idle" => asked[t] \in Queries
    /\ pc[t] \in {"first", "waiting", "second", "fetching"} => Key(t) \in Keys

LEMMA CacheInitType == CacheInit => CacheTypeOK /\ Asking
<1> SUFFICES ASSUME CacheInit PROVE CacheTypeOK /\ Asking
  OBVIOUS
<1> QED BY DEF CacheInit, CacheTypeOK, Asking, Inside

\* What the cache has is an answer or, in another type, an exception.
LEMMA GotType ==
  ASSUME CacheTypeOK, Asking, NEW t \in Threads, pc[t] \in {"first", "second"},
         cache[Key(t)] # None
  PROVE  Got(t) \in Queries \cup {Exception}
BY DEF CacheTypeOK, Asking, Got

LEMMA CacheNextType == CacheTypeOK /\ Asking /\ [CacheNext]_cacheVars => CacheTypeOK' /\ Asking'
<1> SUFFICES ASSUME CacheTypeOK, Asking, [CacheNext]_cacheVars PROVE CacheTypeOK' /\ Asking'
  OBVIOUS
<1> USE DEF CacheTypeOK, Asking, Inside
<1>1. ASSUME NEW t \in Threads, NEW q \in Queries, Handle(t, q) PROVE CacheTypeOK' /\ Asking'
  <2>1. CacheKey(q) # None => CacheKey(q) \in Keys
    BY DEF Keys
  <2> QED BY <1>1, <2>1 DEF Handle
<1>2. ASSUME NEW t \in Threads, HandleDirectly(t) PROVE CacheTypeOK' /\ Asking'
  BY <1>2 DEF HandleDirectly
<1>3. ASSUME NEW t \in Threads, FirstGet(t) PROVE CacheTypeOK' /\ Asking'
  BY <1>3, GotType DEF FirstGet
<1>4. ASSUME NEW t \in Threads, Lock(t) PROVE CacheTypeOK' /\ Asking'
  BY <1>4 DEF Lock
<1>5. ASSUME NEW t \in Threads, SecondGet(t) PROVE CacheTypeOK' /\ Asking'
  BY <1>5, GotType DEF SecondGet
<1>6. ASSUME NEW t \in Threads, Fetch(t) PROVE CacheTypeOK' /\ Asking'
  BY <1>6 DEF Fetch
<1>7. ASSUME NEW t \in Threads, FetchThrows(t) PROVE CacheTypeOK' /\ Asking'
  BY <1>7 DEF FetchThrows
<1>8. ASSUME NEW k \in Keys, Expire(k) PROVE CacheTypeOK' /\ Asking'
  BY <1>8 DEF Expire
<1>9. CASE UNCHANGED cacheVars
  BY <1>9 DEF cacheVars
<1> QED BY <1>1, <1>2, <1>3, <1>4, <1>5, <1>6, <1>7, <1>8, <1>9 DEF CacheNext, Step

LEMMA CacheTypes == CacheSpec => [](CacheTypeOK /\ Asking)
BY CacheInitType, CacheNextType, PTL DEF CacheSpec

\* Every state of every behaviour has the types of CacheTypeOK.
THEOREM CacheTypeCorrect == CacheSpec => []CacheTypeOK
BY CacheTypes, PTL

-----------------------------------------------------------------------------
(* An entry is computed once.                                              *)

\* Behind the lock there is its owner alone, and while it computes an answer
\* nobody stores one under the same key; an entry that is not there has not
\* been computed.
OneComputes ==
  /\ \A t \in Threads :
       /\ pc[t] \in {"second", "fetching"} => owner = t
       /\ pc[t] = "fetching" => cache[Key(t)] = None
  /\ \A k \in Keys :
       /\ cache[k] = None => fetched[k] = 0
       /\ fetched[k] <= 1

LEMMA InitOneComputes == CacheInit => OneComputes
BY DEF CacheInit, OneComputes

LEMMA NextOneComputes ==
  CacheTypeOK /\ Asking /\ OneComputes /\ [CacheNext]_cacheVars => OneComputes'
<1> SUFFICES ASSUME CacheTypeOK, Asking, OneComputes, [CacheNext]_cacheVars PROVE OneComputes'
  OBVIOUS
<1>0. None \notin Threads /\ None \notin Queries
  BY QueryCacheAssumption
<1> USE <1>0 DEF CacheTypeOK, Asking, OneComputes
<1>1. ASSUME NEW t \in Threads, NEW q \in Queries, Handle(t, q) PROVE OneComputes'
  BY <1>1 DEF Handle
<1>2. ASSUME NEW t \in Threads, HandleDirectly(t) PROVE OneComputes'
  BY <1>2 DEF HandleDirectly
<1>3. ASSUME NEW t \in Threads, FirstGet(t) PROVE OneComputes'
  BY <1>3 DEF FirstGet
<1>4. ASSUME NEW t \in Threads, Lock(t) PROVE OneComputes'
  BY <1>4 DEF Lock
<1>5. ASSUME NEW t \in Threads, SecondGet(t) PROVE OneComputes'
  BY <1>5 DEF SecondGet
<1>6. ASSUME NEW t \in Threads, Fetch(t) PROVE OneComputes'
  <2>1. Key(t) \in Keys /\ fetched[Key(t)] = 0
    BY <1>6 DEF Fetch
  <2>2. \A u \in Threads \ {t} : pc[u] \notin {"second", "fetching"}
    BY <1>6 DEF Fetch
  <2> QED BY <1>6, <2>1, <2>2 DEF Fetch
<1>7. ASSUME NEW t \in Threads, FetchThrows(t) PROVE OneComputes'
  BY <1>7 DEF FetchThrows
<1>8. ASSUME NEW k \in Keys, Expire(k) PROVE OneComputes'
  BY <1>8 DEF Expire
<1>9. CASE UNCHANGED cacheVars
  BY <1>9 DEF cacheVars
<1> QED BY <1>1, <1>2, <1>3, <1>4, <1>5, <1>6, <1>7, <1>8, <1>9 DEF CacheNext, Step

\* However many threads miss an entry at the same time, and although it may
\* expire at any moment, it is computed once as long as the cache keeps it.
THEOREM EntryComputedOnce == CacheSpec => []ComputedOnce
<1>1. CacheSpec => []OneComputes
  BY InitOneComputes, NextOneComputes, CacheTypes, PTL DEF CacheSpec
<1>2. OneComputes => ComputedOnce
  BY DEF OneComputes, ComputedOnce
<1> QED BY <1>1, <1>2, PTL

-----------------------------------------------------------------------------
(* What a key tells of its query.                                          *)

\* Of two equal texts whose ends are equally long, beginnings and ends are equal.
EndsTell(T, a, x, b, y) ==
  {a, b, x, y} \subseteq Seq(T) /\ a \o x = b \o y /\ Len(x) = Len(y)
    => a = b /\ x = y

LEMMA CatTells == \A T, a, x, b, y : EndsTell(T, a, x, b, y)
<1> TAKE T, a, x, b, y
<1> SUFFICES ASSUME {a, b, x, y} \subseteq Seq(T) /\ a \o x = b \o y /\ Len(x) = Len(y)
             PROVE  a = b /\ x = y
  BY DEF EndsTell
<1>0. a \in Seq(T) /\ b \in Seq(T) /\ x \in Seq(T) /\ y \in Seq(T)
  OBVIOUS
<1>1. /\ Len(a) \in Nat /\ Len(b) \in Nat /\ Len(x) \in Nat
      /\ Len(a \o x) = Len(a) + Len(x)
      /\ Len(b \o y) = Len(b) + Len(y)
  BY <1>0, ConcatProperties, LenProperties
<1>2. Len(a) = Len(b)
  BY <1>1
<1>3. \A i \in 1 .. Len(a) : a[i] = b[i]
  <2> SUFFICES ASSUME NEW i \in 1 .. Len(a) PROVE a[i] = b[i]
    OBVIOUS
  <2>1. i \in 1 .. Len(a) + Len(x) /\ i <= Len(a) /\ i \in 1 .. Len(b) + Len(y) /\ i <= Len(b)
    BY <1>1, <1>2
  <2>2. (a \o x)[i] = a[i] /\ (b \o y)[i] = b[i]
    BY <1>0, <2>1, ConcatProperties
  <2> QED BY <2>2
<1>4. \A i \in 1 .. Len(x) : x[i] = y[i]
  <2> SUFFICES ASSUME NEW i \in 1 .. Len(x) PROVE x[i] = y[i]
    OBVIOUS
  <2> DEFINE k == Len(a) + i
  <2>1. /\ k \in 1 .. Len(a) + Len(x) /\ ~(k <= Len(a)) /\ k - Len(a) = i
        /\ k \in 1 .. Len(b) + Len(y) /\ ~(k <= Len(b)) /\ k - Len(b) = i
    BY <1>1, <1>2
  <2> HIDE DEF k
  <2>2. (a \o x)[k] = x[i] /\ (b \o y)[k] = y[i]
    BY <1>0, <2>1, ConcatProperties
  <2> QED BY <2>2
<1> QED BY <1>0, <1>2, <1>3, <1>4, SeqEqual

\* Texts that end after their last mark x can be split there.
LEMMA LastMark ==
  ASSUME NEW T, NEW x \in T, NEW a \in Seq(T), NEW b \in Seq(T),
         NEW s \in Seq(T \ {x}), NEW t \in Seq(T \ {x}),
         (a \o <<x>>) \o s = (b \o <<x>>) \o t
  PROVE  Len(s) >= Len(t)
<1> SUFFICES ASSUME Len(s) < Len(t) PROVE FALSE
  BY LenProperties
<1>0. s \in Seq(T) /\ t \in Seq(T) /\ <<x>> \in Seq(T) /\ Len(<<x>>) = 1
  <2>1. T \ {x} \subseteq T
    OBVIOUS
  <2> QED BY <2>1, SeqMonotonic
<1> DEFINE ax == a \o <<x>>
           bx == b \o <<x>>
           k == Len(a) + 1
           j == k - Len(bx)
<1>1. /\ ax \in Seq(T) /\ Len(ax) = Len(a) + 1
      /\ bx \in Seq(T) /\ Len(bx) = Len(b) + 1
      /\ Len(ax \o s) = Len(ax) + Len(s)
      /\ Len(bx \o t) = Len(bx) + Len(t)
      /\ Len(a) \in Nat /\ Len(b) \in Nat /\ Len(s) \in Nat /\ Len(t) \in Nat
  BY <1>0, ConcatProperties, LenProperties
<1>2. ax[k] = x
  <2>1. k \in 1 .. Len(a) + 1 /\ ~(k <= Len(a)) /\ k - Len(a) = 1
    BY <1>1
  <2>2. (a \o <<x>>)[k] = <<x>>[1]
    BY <1>0, <2>1, ConcatProperties
  <2> QED BY <2>2
<1>3. ax \o s = bx \o t
  OBVIOUS
<1> HIDE DEF ax, bx
<1>4. /\ k \in 1 .. Len(ax) + Len(s) /\ k <= Len(ax)
      /\ k \in 1 .. Len(bx) + Len(t) /\ ~(k <= Len(bx))
      /\ j \in 1 .. Len(t)
  BY <1>1, <1>3
<1>5. (ax \o s)[k] = ax[k] /\ (bx \o t)[k] = t[j]
  BY <1>0, <1>1, <1>4, ConcatProperties
<1>6. t[j] = x
  BY <1>2, <1>3, <1>5
<1>7. t[j] \in T \ {x}
  BY <1>4, ElementOfSeq
<1> QED BY <1>6, <1>7

Marked(T, x, a, s, b, t) ==
  /\ x \in T /\ a \in Seq(T) /\ b \in Seq(T)
  /\ s \in Seq(T \ {x}) /\ t \in Seq(T \ {x})
  /\ (a \o <<x>>) \o s = (b \o <<x>>) \o t

LEMMA SplitAtLastMark ==
  \A T, x, a, s, b, t : Marked(T, x, a, s, b, t) => a = b /\ s = t
<1> TAKE T, x, a, s, b, t
<1> SUFFICES ASSUME Marked(T, x, a, s, b, t) PROVE a = b /\ s = t
  OBVIOUS
<1> USE DEF Marked
<1>1. Len(s) >= Len(t)
  BY LastMark
<1>2. Len(t) >= Len(s)
  BY LastMark
<1>3. Len(s) = Len(t)
  BY <1>1, <1>2, LenProperties
<1> DEFINE mark == <<x>>
           ax == a \o mark
           bx == b \o mark
<1>4. s \in Seq(T) /\ t \in Seq(T) /\ mark \in Seq(T)
  <2>1. T \ {x} \subseteq T
    OBVIOUS
  <2> QED BY <2>1, SeqMonotonic
<1> HIDE DEF mark
<1>5. ax \in Seq(T) /\ bx \in Seq(T)
  BY <1>4, ConcatProperties
<1>6. ax \o s = bx \o t
  BY DEF mark
<1> HIDE DEF ax, bx
<1>7. ax = bx /\ s = t
  <2>1. EndsTell(T, ax, s, bx, t)
    BY CatTells
  <2> QED BY <1>3, <1>4, <1>5, <1>6, <2>1 DEF EndsTell
<1>8. EndsTell(T, a, mark, b, mark)
  BY CatTells
<1> QED BY <1>4, <1>7, <1>8 DEF ax, bx, EndsTell

\* What stands before the i-th text.
Gap(i, separator) == IF i > 1 THEN separator ELSE <<>>

\* r has what is in the builder after each of the first n texts.
Builds(r, n, texts, separator) ==
  /\ r[0] = <<>>
  /\ \A i \in 1 .. n : r[i] = (r[i - 1] \o Gap(i, separator)) \o texts[i]

LEMMA ListedIs ==
  ASSUME NEW T, NEW texts \in Seq(Seq(T)), NEW separator \in Seq(T)
  PROVE  \E r \in [0 .. Len(texts) -> Seq(T)] :
           /\ Builds(r, Len(texts), texts, separator)
           /\ Listed(texts, separator) = r[Len(texts)]
<1> DEFINE n == Len(texts)
           S == Seq(T)
           AfterText(i, u) == (u \o Gap(i, separator)) \o texts[i]
           step == [i \in 1 .. n |-> [u \in S |-> AfterText(i, u)]]
           count == [i \in 1 .. n |-> i]
           empty == <<>>
           P(r) == r = [i \in 0 .. n |-> IF i = 0 THEN <<>>
                          ELSE r[i - 1] \o (IF i > 1 THEN separator ELSE <<>>) \o texts[i]]
           f == CHOOSE r : P(r)
<1>0. n \in Nat /\ empty \in S
  OBVIOUS
<1>1. \A i \in 1 .. n, u \in S : AfterText(i, u) \in S
  <2> SUFFICES ASSUME NEW i \in 1 .. n, NEW u \in S PROVE AfterText(i, u) \in S
    OBVIOUS
  <2>1. texts[i] \in Seq(T) /\ Gap(i, separator) \in Seq(T)
    BY DEF Gap
  <2>2. u \o Gap(i, separator) \in Seq(T)
    BY <2>1, ConcatProperties
  <2> QED BY <2>1, <2>2, ConcatProperties
<1>2. step \in [1 .. n -> [S -> S]]
  BY <1>1
<1>3. count \in Seq(1 .. n) /\ Len(count) = n
  BY <1>0
<1>4. \A i \in 1 .. n, u \in S : step[count[i]][u] = AfterText(i, u)
  OBVIOUS
<1> HIDE DEF step, count, S, empty
<1>5. PICK q \in [0 .. n -> S] : Reaches(q, n, count, empty, step)
  <2> DEFINE X == 1 .. n
  <2>1. step \in [X -> [S -> S]] /\ count \in Seq(X)
    BY <1>2, <1>3
  <2> HIDE DEF X
  <2>2. \E q \in [0 .. Len(count) -> S] : Reaches(q, Len(count), count, empty, step)
    BY <1>0, <2>1, ReachesExists
  <2> QED BY <1>3, <2>2
<1>6. \A i \in 1 .. n : i \in 0 .. n /\ i - 1 \in 0 .. n /\ i # 0
  BY <1>0
<1>7. Builds(q, n, texts, separator)
  <2>1. \A i \in 1 .. n : q[i] = AfterText(i, q[i - 1])
    <3> SUFFICES ASSUME NEW i \in 1 .. n PROVE q[i] = AfterText(i, q[i - 1])
      OBVIOUS
    <3>1. q[i - 1] \in S
      BY <1>6
    <3>2. q[i] = step[count[i]][q[i - 1]]
      BY <1>5 DEF Reaches
    <3> QED BY <1>4, <3>1, <3>2
  <2>2. q[0] = <<>>
    BY <1>5 DEF Reaches, empty
  <2> QED BY <2>1, <2>2 DEF Builds
<1>8. P(q)
  <2>1. \A i \in 0 .. n : q[i] = IF i = 0 THEN <<>>
            ELSE q[i - 1] \o (IF i > 1 THEN separator ELSE <<>>) \o texts[i]
    <3>1. \A i \in 0 .. n : i # 0 => i \in 1 .. n
      BY <1>0
    <3> QED BY <1>7, <3>1 DEF Builds, Gap
  <2> QED BY <2>1
<1>9. P(f)
  BY <1>8
<1>10. Listed(texts, separator) = f[n]
  BY DEF Listed
<1> HIDE DEF f
<1>11. /\ f[0] = <<>>
       /\ \A i \in 1 .. n :
            f[i] = f[i - 1] \o (IF i > 1 THEN separator ELSE <<>>) \o texts[i]
  <2>1. 0 \in 0 .. n
    BY <1>0
  <2> QED BY <1>6, <1>9, <2>1
<1> DEFINE N == {i \in Nat : i <= n => f[i] = q[i]}
<1>12. 0 \in N
  BY <1>7, <1>11 DEF Builds
<1>13. ASSUME NEW i \in Nat, i \in N PROVE i + 1 \in N
  <2> SUFFICES ASSUME i + 1 <= n PROVE f[i + 1] = q[i + 1]
    OBVIOUS
  <2>1. f[i] = q[i]
    BY <1>13, <1>0
  <2>2. i + 1 \in 1 .. n /\ (i + 1) - 1 = i
    BY <1>0
  <2> QED BY <1>7, <1>11, <2>1, <2>2 DEF Builds, Gap
<1> HIDE DEF N
<1>14. \A i \in Nat : i \in N
  BY <1>12, <1>13, EveryNumber
<1>15. f[n] = q[n]
  BY <1>0, <1>14 DEF N
<1> QED BY <1>5, <1>7, <1>10, <1>15 DEF S

\* The i-th text comes after what was built before it.
IsBuilt(T, r, texts, separator, L, i) ==
  /\ r[i - 1] \in Seq(T) /\ texts[i] \in Seq(T)
  /\ r[i - 1] \o Gap(i, separator) \in Seq(T)
  /\ r[i] = (r[i - 1] \o Gap(i, separator)) \o texts[i]
  /\ Len(texts[i]) = L
  /\ Len(r[i]) \in Nat /\ Len(r[i]) >= L

\* After at least one text of L tokens there are at least as many.
LEMMA BuildsLong ==
  ASSUME NEW T, NEW texts \in Seq(Seq(T)), NEW separator \in Seq(T),
         NEW L \in Nat \ {0}, \A i \in DOMAIN texts : Len(texts[i]) = L,
         NEW r \in [0 .. Len(texts) -> Seq(T)],
         Builds(r, Len(texts), texts, separator), NEW i \in 1 .. Len(texts)
  PROVE  IsBuilt(T, r, texts, separator, L, i)
<1>1. i - 1 \in 0 .. Len(texts) /\ i \in 0 .. Len(texts) /\ i \in DOMAIN texts
  BY LenProperties
<1>2. r[i - 1] \in Seq(T) /\ texts[i] \in Seq(T) /\ Gap(i, separator) \in Seq(T)
  BY <1>1 DEF Gap
<1>3. r[i - 1] \o Gap(i, separator) \in Seq(T)
  BY <1>2, ConcatProperties
<1>4. r[i] = (r[i - 1] \o Gap(i, separator)) \o texts[i]
  BY DEF Builds
<1>5. Len(r[i]) = Len(r[i - 1] \o Gap(i, separator)) + Len(texts[i])
  BY <1>2, <1>3, <1>4, ConcatProperties
<1>6. Len(r[i - 1] \o Gap(i, separator)) \in Nat /\ Len(texts[i]) = L
  BY <1>1, <1>3, LenProperties
<1> QED BY <1>2, <1>3, <1>4, <1>5, <1>6 DEF IsBuilt

\* Texts of one length that are listed with separators of one length can be
\* read back from the list, and so can the separator if it occurs.
SameLists(T, s, x, t, y, L) ==
  /\ s \in Seq(Seq(T)) /\ t \in Seq(Seq(T)) /\ x \in Seq(T) /\ y \in Seq(T)
  /\ Len(x) = Len(y) /\ L \in Nat \ {0}
  /\ \A i \in DOMAIN s : Len(s[i]) = L
  /\ \A i \in DOMAIN t : Len(t[i]) = L
  /\ Listed(s, x) = Listed(t, y)

LEMMA ListedTells ==
  \A T, s, x, t, y, L :
    SameLists(T, s, x, t, y, L) => s = t /\ (Len(s) > 1 => x = y)
<1> TAKE T, s, x, t, y, L
<1> SUFFICES ASSUME SameLists(T, s, x, t, y, L)
             PROVE  s = t /\ (Len(s) > 1 => x = y)
  OBVIOUS
<1> USE DEF SameLists
<1> DEFINE n == Len(s)
           m == Len(t)
<1>0. n \in Nat /\ m \in Nat
  BY LenProperties
<1>1. PICK r \in [0 .. n -> Seq(T)] : Builds(r, n, s, x) /\ Listed(s, x) = r[n]
  BY ListedIs
<1>2. PICK q \in [0 .. m -> Seq(T)] : Builds(q, m, t, y) /\ Listed(t, y) = q[m]
  BY ListedIs
<1>3. \A i \in 1 .. n : IsBuilt(T, r, s, x, L, i)
  BY <1>1, BuildsLong
<1>4. \A j \in 1 .. m : IsBuilt(T, q, t, y, L, j)
  BY <1>2, BuildsLong
<1>5. r[0] = <<>> /\ q[0] = <<>> /\ Len(r[0]) = 0 /\ Len(q[0]) = 0
  <2>1. Len(<<>>) = 0
    OBVIOUS
  <2> QED BY <1>1, <1>2, <2>1 DEF Builds
<1> DEFINE Told(i, j) == /\ i = j
                         /\ \A k \in 1 .. i : s[k] = t[k]
                         /\ i > 1 => x = y
           N == {i \in Nat : i <= n => \A j \in 0 .. m : r[i] = q[j] => Told(i, j)}
<1> HIDE DEF n, m
<1>6. 0 \in N
  <2> SUFFICES ASSUME NEW j \in 0 .. m, r[0] = q[j] PROVE Told(0, j)
    OBVIOUS
  <2>1. j = 0
    <3> SUFFICES ASSUME j \in 1 .. m PROVE FALSE
      BY <1>0
    <3>1. Len(q[j]) >= L
      BY <1>4 DEF IsBuilt
    <3>2. Len(q[j]) = 0
      BY <1>5
    <3> QED BY <3>1, <3>2
  <2> QED BY <2>1
<1>7. ASSUME NEW i \in Nat, i \in N PROVE i + 1 \in N
  <2> SUFFICES ASSUME i + 1 <= n, NEW j \in 0 .. m, r[i + 1] = q[j] PROVE Told(i + 1, j)
    OBVIOUS
  <2>0. i + 1 \in 1 .. n /\ (i + 1) - 1 = i
    BY <1>0
  <2>1. j \in 1 .. m
    <3> SUFFICES ASSUME j = 0 PROVE FALSE
      BY <1>0
    <3>1. Len(r[i + 1]) >= L
      BY <1>3, <2>0 DEF IsBuilt
    <3>2. Len(r[i + 1]) = 0
      BY <1>5
    <3> QED BY <3>1, <3>2
  <2>2. /\ r[i] \o Gap(i + 1, x) = q[j - 1] \o Gap(j, y)
        /\ s[i + 1] = t[j]
    <3> DEFINE a == r[i] \o Gap(i + 1, x)
               b == q[j - 1] \o Gap(j, y)
               g == s[i + 1]
               h == t[j]
    <3>1. a \in Seq(T) /\ s[i + 1] \in Seq(T) /\ r[i + 1] = a \o s[i + 1] /\ Len(s[i + 1]) = L
      BY <1>3, <2>0 DEF IsBuilt
    <3>2. b \in Seq(T) /\ t[j] \in Seq(T) /\ q[j] = b \o t[j] /\ Len(t[j]) = L
      BY <1>4, <2>1 DEF IsBuilt
    <3>4. a \in Seq(T) /\ b \in Seq(T) /\ g \in Seq(T) /\ h \in Seq(T)
          /\ a \o g = b \o h /\ Len(g) = Len(h)
      BY <3>1, <3>2
    <3> HIDE DEF a, b, g, h
    <3>3. a = b /\ g = h
      <4>1. EndsTell(T, a, g, b, h)
        BY CatTells
      <4> QED BY <3>4, <4>1 DEF EndsTell
    <3> QED BY <3>3 DEF a, b, g, h
  <2>3. r[i] \in Seq(T) /\ q[j - 1] \in Seq(T)
    BY <1>3, <1>4, <2>0, <2>1 DEF IsBuilt
  <2>4. \A u \in Seq(T) : /\ u \o <<>> = u
                          /\ Len(u \o y) = Len(u) + Len(y)
                          /\ Len(u \o x) = Len(u) + Len(x)
                          /\ Len(u) \in Nat /\ Len(x) \in Nat /\ Len(y) \in Nat
    <3> SUFFICES ASSUME NEW u \in Seq(T)
                 PROVE  /\ u \o <<>> = u
                        /\ Len(u \o y) = Len(u) + Len(y)
                        /\ Len(u \o x) = Len(u) + Len(x)
                        /\ Len(u) \in Nat /\ Len(x) \in Nat /\ Len(y) \in Nat
      OBVIOUS
    <3>1. u \o <<>> = u
      BY ConcatEmptySeq
    <3>2. Len(u \o y) = Len(u) + Len(y) /\ Len(u \o x) = Len(u) + Len(x)
      BY ConcatProperties
    <3> QED BY <3>1, <3>2, LenProperties
  <2>5. CASE i = 0
    <3>1. Len(r[i] \o Gap(i + 1, x)) = 0
      BY <1>5, <2>3, <2>4, <2>5 DEF Gap
    <3>2. ~(j > 1)
      <4> SUFFICES ASSUME j > 1 PROVE FALSE
        OBVIOUS
      <4>1. j - 1 \in 1 .. m
        BY <1>0, <2>1
      <4>2. Len(q[j - 1]) >= L
        BY <1>4, <4>1 DEF IsBuilt
      <4>3. Len(q[j - 1] \o Gap(j, y)) = Len(q[j - 1]) + Len(y)
        BY <2>3, <2>4 DEF Gap
      <4>4. Len(q[j - 1] \o Gap(j, y)) = 0
        BY <2>2, <3>1
      <4>5. Len(q[j - 1]) \in Nat /\ Len(y) \in Nat
        BY <2>3, <2>4
      <4> QED BY <4>2, <4>3, <4>4, <4>5
    <3>3. j = 1
      BY <1>0, <2>1, <3>2
    <3> QED BY <2>2, <2>5, <3>3
  <2>6. CASE i # 0
    <3>0. i \in 1 .. n
      BY <1>0, <2>0, <2>6
    <3>1. Len(r[i]) >= L
      BY <1>3, <3>0 DEF IsBuilt
    <3>2. Gap(i + 1, x) = x
      BY <2>6 DEF Gap
    <3>3. j > 1
      <4> SUFFICES ASSUME j = 1 PROVE FALSE
        BY <1>0, <2>1
      <4>1. Len(q[j - 1] \o Gap(j, y)) = 0
        BY <1>5, <2>3, <2>4 DEF Gap
      <4>2. Len(r[i] \o x) = 0
        BY <2>2, <3>2, <4>1
      <4>3. Len(r[i] \o x) = Len(r[i]) + Len(x) /\ Len(r[i]) \in Nat /\ Len(x) \in Nat
        BY <2>3, <2>4
      <4> QED BY <3>1, <4>2, <4>3
    <3>4. r[i] = q[j - 1] /\ x = y
      <4>1. r[i] \o x = q[j - 1] \o y
        BY <2>2, <3>2, <3>3 DEF Gap
      <4>2. EndsTell(T, r[i], x, q[j - 1], y)
        BY CatTells
      <4> QED BY <2>3, <4>1, <4>2 DEF EndsTell
    <3>5. j - 1 \in 0 .. m
      BY <1>0, <2>1
    <3>6. Told(i, j - 1)
      BY <1>0, <1>7, <2>0, <3>4, <3>5
    <3>7. \A k \in 1 .. i + 1 : k \in 1 .. i \/ k = i + 1
      OBVIOUS
    <3>8. i + 1 = j
      BY <2>1, <3>6
    <3> QED BY <2>2, <3>4, <3>6, <3>7, <3>8
  <2> QED BY <2>5, <2>6
<1>8. \A i \in Nat : i \in N
  <2> HIDE DEF N
  <2> QED BY <1>6, <1>7, EveryNumber
<1>9. Told(n, m)
  <2>1. m \in 0 .. m
    BY <1>0
  <2>2. r[n] = q[m]
    BY <1>1, <1>2
  <2>3. n \in N
    BY <1>0, <1>8
  <2> QED BY <1>0, <2>1, <2>2, <2>3
<1> QED BY <1>9, SeqEqual DEF n, m

LEMMA ListedIn ==
  ASSUME NEW T, NEW texts \in Seq(Seq(T)), NEW separator \in Seq(T)
  PROVE  Listed(texts, separator) \in Seq(T)
<1>1. PICK r \in [0 .. Len(texts) -> Seq(T)] : Listed(texts, separator) = r[Len(texts)]
  BY ListedIs
<1>2. Len(texts) \in 0 .. Len(texts)
  BY LenProperties
<1> QED BY <1>1, <1>2

\* A list of texts is not shorter than each of them.
LEMMA ListedType ==
  ASSUME NEW T, NEW texts \in Seq(Seq(T)), NEW separator \in Seq(T),
         NEW L \in Nat \ {0}, \A i \in DOMAIN texts : Len(texts[i]) = L
  PROVE  /\ Listed(texts, separator) \in Seq(T)
         /\ texts # <<>> => Len(Listed(texts, separator)) >= L
<1> DEFINE n == Len(texts)
<1>1. PICK r \in [0 .. n -> Seq(T)] :
        Builds(r, n, texts, separator) /\ Listed(texts, separator) = r[n]
  BY ListedIs
<1>2. n \in Nat /\ n \in 0 .. n
  BY LenProperties
<1>3. texts # <<>> => n \in 1 .. n
  BY <1>2, EmptySeq
<1>4. texts # <<>> => Len(r[n]) >= L
  BY <1>1, <1>3, BuildsLong DEF IsBuilt
<1> QED BY <1>1, <1>2, <1>4

LEMMA Tuple1 == ASSUME NEW T, NEW a \in T PROVE <<a>> \in Seq(T) /\ Len(<<a>>) = 1
OBVIOUS

LEMMA Tuple3 ==
  ASSUME NEW T, NEW a \in T, NEW b \in T, NEW c \in T
  PROVE  <<a, b, c>> \in Seq(T) /\ Len(<<a, b, c>>) = 3
OBVIOUS

\* A list of one text is that text.
LEMMA ListedOne ==
  ASSUME NEW T, NEW u \in Seq(T), NEW separator \in Seq(T)
  PROVE  Listed(<<u>>, separator) = u
<1> DEFINE texts == <<u>>
<1>0. texts \in Seq(Seq(T)) /\ Len(texts) = 1 /\ texts[1] = u
  OBVIOUS
<1> HIDE DEF texts
<1>1. PICK r \in [0 .. 1 -> Seq(T)] :
        Builds(r, 1, texts, separator) /\ Listed(texts, separator) = r[1]
  <2>1. \E r \in [0 .. Len(texts) -> Seq(T)] :
          /\ Builds(r, Len(texts), texts, separator)
          /\ Listed(texts, separator) = r[Len(texts)]
    BY <1>0, ListedIs
  <2> QED BY <1>0, <2>1
<1>2. 1 \in 1 .. 1 /\ 1 - 1 = 0
  OBVIOUS
<1>3. r[1] = (r[0] \o Gap(1, separator)) \o texts[1] /\ r[0] = <<>>
  BY <1>1, <1>2 DEF Builds
<1>4. <<>> \o <<>> = <<>> /\ <<>> \o u = u
  BY ConcatEmptySeq, EmptySeq
<1> QED BY <1>0, <1>1, <1>3, <1>4 DEF Gap, texts

\* A descriptor whose text can be read back.
PlainDescriptor(d) ==
  /\ PlainField(d.Field)
  /\ d.Criterion # None => Len(d.Criterion) = 1 /\ d.Criterion[1] \notin {"_", "EMPTY"}

\* What stands between a descriptor's name and its criterion.
Middle(d) == <<"_", d.Predicate, "_">>

LEMMA TextType ==
  ASSUME NEW d \in FilteringDescriptor
  PROVE  /\ d.Field \in Seq(Tokens) /\ Middle(d) \in Seq(Tokens) /\ Len(Middle(d)) = 3
         /\ Described(d.Criterion) \in Seq(Tokens)
         /\ d.Field \o Middle(d) \in Seq(Tokens)
         /\ FilteringText(d) = (d.Field \o Middle(d)) \o Described(d.Criterion)
         /\ FilteringText(d) \in Seq(Tokens)
         /\ PlainDescriptor(d) => /\ Len(d.Field) = 1 /\ Len(Described(d.Criterion)) = 1
                                  /\ Len(FilteringText(d)) = 5
<1>1. /\ d.Field \in Seq(Tokens) /\ d.Predicate \in Tokens
      /\ d.Criterion \in Seq(Tokens) \cup {None}
      /\ "_" \in Tokens /\ "EMPTY" \in Tokens
  BY QueryCacheAssumption DEF FilteringDescriptor
<1>2. Middle(d) \in Seq(Tokens) /\ Len(Middle(d)) = 3
  BY <1>1, Tuple3 DEF Middle
<1>3. <<"EMPTY">> \in Seq(Tokens) /\ Len(<<"EMPTY">>) = 1
  BY <1>1, Tuple1
<1>4. Described(d.Criterion) \in Seq(Tokens)
  BY <1>1, <1>3 DEF Described
<1>5. /\ d.Field \o Middle(d) \in Seq(Tokens)
      /\ Len(d.Field \o Middle(d)) = Len(d.Field) + Len(Middle(d))
  BY <1>1, <1>2, ConcatProperties
<1>6. FilteringText(d) = (d.Field \o Middle(d)) \o Described(d.Criterion)
  BY DEF FilteringText, Middle
<1>7. /\ (d.Field \o Middle(d)) \o Described(d.Criterion) \in Seq(Tokens)
      /\ Len((d.Field \o Middle(d)) \o Described(d.Criterion))
           = Len(d.Field \o Middle(d)) + Len(Described(d.Criterion))
  BY <1>4, <1>5, ConcatProperties
<1>8. PlainDescriptor(d) => Len(d.Field) = 1 /\ Len(Described(d.Criterion)) = 1
  BY <1>3 DEF PlainDescriptor, PlainField, Described
<1>9. PlainDescriptor(d) => Len(FilteringText(d)) = 5
  <2> DEFINE head == d.Field \o Middle(d)
             tail == Described(d.Criterion)
  <2>1. Len(head) = Len(d.Field) + 3
    BY <1>2, <1>5
  <2>2. Len(FilteringText(d)) = Len(head) + Len(tail)
    BY <1>6, <1>7
  <2> SUFFICES ASSUME PlainDescriptor(d) PROVE Len(FilteringText(d)) = 5
    OBVIOUS
  <2>3. Len(d.Field) = 1 /\ Len(tail) = 1
    BY <1>8
  <2> HIDE DEF head, tail
  <2> QED BY <2>1, <2>2, <2>3
<1> QED BY <1>1, <1>2, <1>4, <1>5, <1>6, <1>7, <1>8, <1>9

\* Equal texts are those of equal descriptors.
LEMMA TextTells ==
  ASSUME NEW d \in FilteringDescriptor, NEW e \in FilteringDescriptor,
         PlainDescriptor(d), PlainDescriptor(e), FilteringText(d) = FilteringText(e)
  PROVE  Equal(d, e)
<1>1. /\ d.Field \o Middle(d) = e.Field \o Middle(e)
      /\ Described(d.Criterion) = Described(e.Criterion)
  <2>1. EndsTell(Tokens, d.Field \o Middle(d), Described(d.Criterion),
                 e.Field \o Middle(e), Described(e.Criterion))
    BY CatTells
  <2>2. (d.Field \o Middle(d)) \o Described(d.Criterion)
          = (e.Field \o Middle(e)) \o Described(e.Criterion)
    BY TextType
  <2>3. /\ d.Field \o Middle(d) \in Seq(Tokens) /\ Described(d.Criterion) \in Seq(Tokens)
        /\ e.Field \o Middle(e) \in Seq(Tokens) /\ Described(e.Criterion) \in Seq(Tokens)
        /\ Len(Described(d.Criterion)) = Len(Described(e.Criterion))
    BY TextType
  <2> QED BY <2>1, <2>2, <2>3 DEF EndsTell
<1>2. d.Field = e.Field /\ Middle(d) = Middle(e)
  <2>1. EndsTell(Tokens, d.Field, Middle(d), e.Field, Middle(e))
    BY CatTells
  <2>2. /\ d.Field \in Seq(Tokens) /\ Middle(d) \in Seq(Tokens)
        /\ e.Field \in Seq(Tokens) /\ Middle(e) \in Seq(Tokens)
        /\ Len(Middle(d)) = Len(Middle(e))
    BY TextType
  <2> QED BY <1>1, <2>1, <2>2 DEF EndsTell
<1>3. d.Predicate = e.Predicate
  <2>1. Middle(d)[2] = d.Predicate /\ Middle(e)[2] = e.Predicate
    BY DEF Middle
  <2> QED BY <1>2, <2>1
<1>4. d.Criterion = e.Criterion
  <2>1. <<"EMPTY">>[1] = "EMPTY"
    OBVIOUS
  <2> QED BY <1>1, <2>1 DEF Described, PlainDescriptor
<1> QED BY <1>2, <1>3, <1>4 DEF Equal

FilteringTexts(f) == [i \in DOMAIN f.descriptors |-> FilteringText(f.descriptors[i])]

RuleText(f) == <<"_", f.rule, "_">>

LEMMA FilteringType ==
  ASSUME NEW f \in FilteringCollection
  PROVE  /\ \A i \in DOMAIN f.descriptors : f.descriptors[i] \in FilteringDescriptor
         /\ FilteringTexts(f) \in Seq(Seq(Tokens))
         /\ DOMAIN FilteringTexts(f) = DOMAIN f.descriptors
         /\ Len(FilteringTexts(f)) = Len(f.descriptors)
         /\ RuleText(f) \in Seq(Tokens) /\ Len(RuleText(f)) = 3
         /\ FilteringDescription(f) \in Seq(Tokens)
         /\ FilteringDescription(f) = IF f.descriptors = <<>> THEN <<"unfiltered">>
                                      ELSE Listed(FilteringTexts(f), RuleText(f))
<1>1. f.descriptors \in Seq(FilteringDescriptor) /\ f.rule \in Tokens
  BY QueryCacheAssumption DEF FilteringCollection
<1>2. "_" \in Tokens /\ "unfiltered" \in Tokens
  BY QueryCacheAssumption
<1>3. \A i \in DOMAIN f.descriptors : f.descriptors[i] \in FilteringDescriptor
  BY <1>1, ElementOfSeq, LenProperties
<1>4. DOMAIN f.descriptors = 1 .. Len(f.descriptors) /\ Len(f.descriptors) \in Nat
  BY <1>1, LenProperties
<1>5. \A i \in 1 .. Len(f.descriptors) : FilteringText(f.descriptors[i]) \in Seq(Tokens)
  BY <1>3, <1>4, TextType
<1>6. /\ FilteringTexts(f) \in Seq(Seq(Tokens))
      /\ DOMAIN FilteringTexts(f) = DOMAIN f.descriptors
      /\ Len(FilteringTexts(f)) = Len(f.descriptors)
  BY <1>4, <1>5 DEF FilteringTexts
<1>7. RuleText(f) \in Seq(Tokens) /\ Len(RuleText(f)) = 3
  BY <1>1, <1>2, Tuple3 DEF RuleText
<1>8. FilteringDescription(f) = IF f.descriptors = <<>> THEN <<"unfiltered">>
                                ELSE Listed(FilteringTexts(f), RuleText(f))
  BY DEF FilteringDescription, FilteringTexts, RuleText
<1>9. Listed(FilteringTexts(f), RuleText(f)) \in Seq(Tokens)
  BY <1>6, <1>7, ListedIn
<1>10. <<"unfiltered">> \in Seq(Tokens)
  BY <1>2, Tuple1
<1> QED BY <1>3, <1>6, <1>7, <1>8, <1>9, <1>10

\* Equal descriptions are those of the same filter.
LEMMA FilteringTells ==
  ASSUME NEW f \in FilteringCollection, NEW g \in FilteringCollection,
         PlainFilter(f), PlainFilter(g), FilteringDescription(f) = FilteringDescription(g)
  PROVE  SameFilter(f, g)
<1>0. /\ \A i \in DOMAIN f.descriptors :
           f.descriptors[i] \in FilteringDescriptor /\ PlainDescriptor(f.descriptors[i])
      /\ \A i \in DOMAIN g.descriptors :
           g.descriptors[i] \in FilteringDescriptor /\ PlainDescriptor(g.descriptors[i])
  BY FilteringType DEF PlainFilter, PlainDescriptor
<1>1. /\ \A i \in DOMAIN FilteringTexts(f) : Len(FilteringTexts(f)[i]) = 5
      /\ \A i \in DOMAIN FilteringTexts(g) : Len(FilteringTexts(g)[i]) = 5
  BY <1>0, FilteringType, TextType DEF FilteringTexts
<1>2. 5 \in Nat \ {0} /\ Len(<<"unfiltered">>) = 1
  OBVIOUS
<1>3. /\ f.descriptors # <<>> => FilteringTexts(f) # <<>>
      /\ g.descriptors # <<>> => FilteringTexts(g) # <<>>
  <2>1. f.descriptors \in Seq(FilteringDescriptor) /\ g.descriptors \in Seq(FilteringDescriptor)
    BY DEF FilteringCollection
  <2>2. Len(<<>>) = 0
    OBVIOUS
  <2>3. FilteringTexts(f) = <<>> => Len(f.descriptors) = 0
    BY <2>2, FilteringType
  <2>4. FilteringTexts(g) = <<>> => Len(g.descriptors) = 0
    BY <2>2, FilteringType
  <2> QED BY <2>1, <2>3, <2>4, EmptySeq
<1>4. /\ f.descriptors # <<>> => Len(FilteringDescription(f)) >= 5
      /\ g.descriptors # <<>> => Len(FilteringDescription(g)) >= 5
  <2>1. f.descriptors # <<>> => Len(Listed(FilteringTexts(f), RuleText(f))) >= 5
    BY <1>1, <1>2, <1>3, FilteringType, ListedType
  <2>2. g.descriptors # <<>> => Len(Listed(FilteringTexts(g), RuleText(g))) >= 5
    BY <1>1, <1>2, <1>3, FilteringType, ListedType
  <2> QED BY <2>1, <2>2, FilteringType
<1>5. CASE f.descriptors = <<>> \/ g.descriptors = <<>>
  <2>1. f.descriptors = <<>> /\ g.descriptors = <<>>
    <3>1. f.descriptors = <<>> => Len(FilteringDescription(f)) = 1
      BY <1>2, FilteringType
    <3>2. g.descriptors = <<>> => Len(FilteringDescription(g)) = 1
      BY <1>2, FilteringType
    <3>3. ~(1 >= 5)
      OBVIOUS
    <3> QED BY <1>4, <1>5, <3>1, <3>2, <3>3
  <2> QED BY <2>1 DEF SameFilter
<1>6. CASE f.descriptors # <<>> /\ g.descriptors # <<>>
  <2>1. Listed(FilteringTexts(f), RuleText(f)) = Listed(FilteringTexts(g), RuleText(g))
    BY <1>6, FilteringType
  <2>2. /\ FilteringTexts(f) = FilteringTexts(g)
        /\ Len(FilteringTexts(f)) > 1 => RuleText(f) = RuleText(g)
    <3> DEFINE s == FilteringTexts(f)
               t == FilteringTexts(g)
               x == RuleText(f)
               y == RuleText(g)
    <3>1. /\ s \in Seq(Seq(Tokens)) /\ t \in Seq(Seq(Tokens))
          /\ x \in Seq(Tokens) /\ y \in Seq(Tokens) /\ Len(x) = Len(y)
      BY FilteringType
    <3>2. /\ \A i \in DOMAIN s : Len(s[i]) = 5
          /\ \A i \in DOMAIN t : Len(t[i]) = 5
      BY <1>1
    <3>3. Listed(s, x) = Listed(t, y)
      BY <2>1
    <3> HIDE DEF s, t, x, y
    <3>4. SameLists(Tokens, s, x, t, y, 5)
      BY <3>1, <3>2, <3>3 DEF SameLists
    <3>5. s = t /\ (Len(s) > 1 => x = y)
      BY <3>4, ListedTells
    <3> QED BY <3>5 DEF s, t, x, y
  <2>3. Len(f.descriptors) = Len(g.descriptors) /\ DOMAIN f.descriptors = DOMAIN g.descriptors
    BY <2>2, FilteringType
  <2>4. \A i \in DOMAIN f.descriptors : Equal(f.descriptors[i], g.descriptors[i])
    <3> SUFFICES ASSUME NEW i \in DOMAIN f.descriptors
                 PROVE  Equal(f.descriptors[i], g.descriptors[i])
      OBVIOUS
    <3>1. FilteringText(f.descriptors[i]) = FilteringTexts(f)[i]
      BY DEF FilteringTexts
    <3>2. FilteringText(g.descriptors[i]) = FilteringTexts(g)[i]
      BY <2>3 DEF FilteringTexts
    <3> QED BY <1>0, <2>2, <2>3, <3>1, <3>2, TextTells
  <2>5. Len(f.descriptors) > 1 => f.rule = g.rule
    <3>1. RuleText(f)[2] = f.rule /\ RuleText(g)[2] = g.rule
      BY DEF RuleText
    <3> QED BY <2>2, <3>1, FilteringType
  <2> QED BY <2>3, <2>4, <2>5 DEF SameFilter
<1> QED BY <1>5, <1>6

LEMMA Tuple2 ==
  ASSUME NEW T, NEW a \in T, NEW b \in T
  PROVE  <<a, b>> \in Seq(T) /\ Len(<<a, b>>) = 2 /\ <<a, b>>[1] = a
OBVIOUS

\* How the text of a descriptor ends.
Direction(c) == IF c.Desc THEN " DSC" ELSE ""

\* T has what texts are made of that can be read back.
Words(T) == T = Tokens \/ T = Tokens \ {"_"}

LEMMA WordsHave ==
  ASSUME NEW T, Words(T)
  PROVE  {",", " DSC", "", "unsorted"} \subseteq T
<1>1. {",", " DSC", "", "unsorted"} \subseteq Tokens
  BY QueryCacheAssumption
<1>2. "_" \notin {",", " DSC", "", "unsorted"}
  OBVIOUS
<1> QED BY <1>1, <1>2 DEF Words

LEMMA SortingTextType ==
  ASSUME NEW T, Words(T), NEW c \in SortingDescriptor, c.Field \in Seq(T)
  PROVE  /\ SortingText(c) = c.Field \o <<Direction(c)>>
         /\ <<Direction(c)>> \in Seq(T) /\ Len(<<Direction(c)>>) = 1
         /\ SortingText(c) \in Seq(T)
         /\ PlainField(c.Field) => Len(SortingText(c)) = 2
<1>1. SortingText(c) = c.Field \o <<Direction(c)>>
  BY DEF SortingText, Direction
<1>2. Direction(c) \in T
  BY WordsHave DEF Direction
<1> DEFINE tail == <<Direction(c)>>
<1>3. tail \in Seq(T) /\ Len(tail) = 1
  BY <1>2, Tuple1
<1> HIDE DEF tail
<1>4. c.Field \o tail \in Seq(T) /\ Len(c.Field \o tail) = Len(c.Field) + Len(tail)
  BY <1>3, ConcatProperties
<1>5. ASSUME PlainField(c.Field) PROVE Len(c.Field \o tail) = 2
  <2>1. Len(c.Field) = 1
    BY <1>5 DEF PlainField
  <2> QED BY <1>3, <1>4, <2>1
<1> QED BY <1>1, <1>3, <1>4, <1>5 DEF tail

LEMMA SortingTextTells ==
  ASSUME NEW c \in SortingDescriptor, NEW e \in SortingDescriptor,
         SortingText(c) = SortingText(e)
  PROVE  c = e
<1>1. /\ c.Field \in Seq(Tokens) /\ e.Field \in Seq(Tokens)
      /\ c.Desc \in BOOLEAN /\ e.Desc \in BOOLEAN
      /\ c = [Field |-> c.Field, Desc |-> c.Desc] /\ e = [Field |-> e.Field, Desc |-> e.Desc]
  BY DEF SortingDescriptor
<1> DEFINE g == <<Direction(c)>>
           h == <<Direction(e)>>
<1>2. /\ c.Field \o g = e.Field \o h
      /\ g \in Seq(Tokens) /\ h \in Seq(Tokens) /\ Len(g) = Len(h)
  BY <1>1, SortingTextType DEF Words
<1> HIDE DEF g, h
<1>3. EndsTell(Tokens, c.Field, g, e.Field, h)
  BY CatTells
<1>4. c.Field = e.Field /\ g = h
  BY <1>1, <1>2, <1>3 DEF EndsTell
<1>5. Direction(c) = Direction(e)
  <2>1. g[1] = Direction(c) /\ h[1] = Direction(e)
    BY DEF g, h
  <2> QED BY <1>4, <2>1
<1>6. c.Desc = e.Desc
  <2>1. " DSC" # ""
    OBVIOUS
  <2>2. CASE c.Desc /\ ~e.Desc
    BY <1>5, <2>1, <2>2 DEF Direction
  <2>3. CASE ~c.Desc /\ e.Desc
    BY <1>5, <2>1, <2>3 DEF Direction
  <2> QED BY <1>1, <2>2, <2>3
<1> QED BY <1>1, <1>4, <1>6

Unsorted == <<"unsorted", "">>

SortingTexts(s) ==
  IF s = <<>> THEN <<Unsorted>> ELSE [i \in DOMAIN s |-> SortingText(s[i])]

\* All the fields of a sorting are words of T.
FieldsOf(T, s) == \A i \in DOMAIN s : s[i].Field \in Seq(T)

LEMMA SortingType ==
  ASSUME NEW T, Words(T), NEW s \in Seq(SortingDescriptor), FieldsOf(T, s)
  PROVE  /\ SortingTexts(s) \in Seq(Seq(T))
         /\ <<",">> \in Seq(T)
         /\ SortingDescription(s) = Listed(SortingTexts(s), <<",">>)
         /\ SortingDescription(s) \in Seq(T)
         /\ PlainSorting(s) => \A i \in DOMAIN SortingTexts(s) : Len(SortingTexts(s)[i]) = 2
<1>1. Unsorted \in Seq(T) /\ Len(Unsorted) = 2 /\ <<",">> \in Seq(T)
  BY WordsHave, Tuple1, Tuple2 DEF Unsorted
<1>2. \A i \in DOMAIN s : s[i] \in SortingDescriptor
  BY ElementOfSeq, LenProperties
<1>3. /\ SortingTexts(s) \in Seq(Seq(T))
      /\ PlainSorting(s) => \A i \in DOMAIN SortingTexts(s) : Len(SortingTexts(s)[i]) = 2
  <2>1. CASE s = <<>>
    <3> DEFINE u == Unsorted
    <3>1. <<u>> \in Seq(Seq(T)) /\ \A i \in DOMAIN <<u>> : <<u>>[i] = u
      <4> HIDE DEF u
      <4> SUFFICES u \in Seq(T)
        OBVIOUS
      <4> QED BY <1>1 DEF u
    <3> QED BY <1>1, <2>1, <3>1 DEF SortingTexts
  <2>2. CASE s # <<>>
    <3>1. \A i \in DOMAIN s : /\ SortingText(s[i]) \in Seq(T)
                              /\ PlainField(s[i].Field) => Len(SortingText(s[i])) = 2
      BY <1>2, SortingTextType DEF FieldsOf
    <3>2. DOMAIN s = 1 .. Len(s) /\ Len(s) \in Nat
      BY LenProperties
    <3>3. SortingTexts(s) = [i \in 1 .. Len(s) |-> SortingText(s[i])]
      BY <2>2, <3>2 DEF SortingTexts
    <3>4. SortingTexts(s) \in Seq(Seq(T))
      BY <3>1, <3>2, <3>3
    <3> QED BY <3>1, <3>2, <3>3, <3>4 DEF PlainSorting
  <2> QED BY <2>1, <2>2
<1>4. SortingDescription(s) = Listed(SortingTexts(s), <<",">>)
  <2>1. Listed(<<Unsorted>>, <<",">>) = Unsorted
    BY <1>1, ListedOne
  <2> QED BY <2>1 DEF SortingDescription, SortingTexts, Unsorted
<1>5. Listed(SortingTexts(s), <<",">>) \in Seq(T)
  BY <1>1, <1>3, ListedIn
<1> QED BY <1>1, <1>3, <1>4, <1>5

\* The words of a plain sorting are not marks.
LEMMA PlainWords ==
  ASSUME NEW s \in Seq(SortingDescriptor)
  PROVE  /\ FieldsOf(Tokens, s)
         /\ PlainSorting(s) => FieldsOf(Tokens \ {"_"}, s)
<1>1. \A i \in DOMAIN s : s[i].Field \in Seq(Tokens)
  <2>1. \A i \in DOMAIN s : s[i] \in SortingDescriptor
    BY ElementOfSeq, LenProperties
  <2> QED BY <2>1 DEF SortingDescriptor
<1>2. ASSUME PlainSorting(s), NEW i \in DOMAIN s PROVE s[i].Field \in Seq(Tokens \ {"_"})
  <2>1. s[i].Field \in Seq(Tokens) /\ Len(s[i].Field) = 1 /\ s[i].Field[1] # "_"
    BY <1>1, <1>2 DEF PlainSorting, PlainField
  <2> DEFINE u == s[i].Field
             S == Tokens \ {"_"}
  <2>2. u \in Seq(Tokens) /\ Len(u) = 1 /\ u[1] # "_"
    BY <2>1
  <2> HIDE DEF u
  <2>3. u \in [1 .. 1 -> Tokens]
    BY <2>2, LenProperties
  <2>4. u[1] \in S
    <3>1. 1 \in 1 .. 1
      OBVIOUS
    <3>2. u[1] \in Tokens
      BY <2>3, <3>1, Zenon
    <3> QED BY <2>2, <3>2
  <2>5. u \in [1 .. 1 -> S]
    <3> HIDE DEF S
    <3> QED BY <2>3, <2>4
  <2>6. u \in Seq(S)
    <3> HIDE DEF S
    <3> QED BY <2>5, 1 \in Nat, SeqDef
  <2> QED BY <2>6 DEF u
<1> QED BY <1>1, <1>2 DEF FieldsOf

\* Equal descriptions are those of the same order.
LEMMA SortingTells ==
  ASSUME NEW s \in Seq(SortingDescriptor), NEW t \in Seq(SortingDescriptor),
         PlainSorting(s), PlainSorting(t), SortingDescription(s) = SortingDescription(t)
  PROVE  s = t
<1>0. Words(Tokens)
  BY DEF Words
<1>1. SortingTexts(s) = SortingTexts(t)
  <2> DEFINE u == SortingTexts(s)
             v == SortingTexts(t)
             x == <<",">>
  <2>1. /\ u \in Seq(Seq(Tokens)) /\ v \in Seq(Seq(Tokens)) /\ x \in Seq(Tokens)
        /\ \A i \in DOMAIN u : Len(u[i]) = 2
        /\ \A i \in DOMAIN v : Len(v[i]) = 2
        /\ Listed(u, x) = Listed(v, x)
    BY <1>0, SortingType, PlainWords
  <2> HIDE DEF u, v, x
  <2>2. SameLists(Tokens, u, x, v, x, 2)
    BY <2>1 DEF SameLists
  <2>3. u = v
    BY <2>2, ListedTells
  <2> QED BY <2>3 DEF u, v
<1>2. \A r \in Seq(SortingDescriptor) :
        /\ DOMAIN r = 1 .. Len(r) /\ Len(r) \in Nat
        /\ \A i \in DOMAIN r : r[i] \in SortingDescriptor
        /\ r # <<>> => 1 \in DOMAIN r
  BY ElementOfSeq, LenProperties, EmptySeq
<1>3. \A r \in Seq(SortingDescriptor) :
        r # <<>> /\ PlainSorting(r) => SortingTexts(r) # <<Unsorted>>
  <2> SUFFICES ASSUME NEW r \in Seq(SortingDescriptor), r # <<>>, PlainSorting(r),
                      SortingTexts(r) = <<Unsorted>>
               PROVE  FALSE
    OBVIOUS
  <2>1. 1 \in DOMAIN r /\ r[1] \in SortingDescriptor
    BY <1>2
  <2>2. SortingText(r[1]) = Unsorted
    <3>1. SortingTexts(r)[1] = SortingText(r[1])
      BY <2>1 DEF SortingTexts
    <3>2. <<Unsorted>>[1] = Unsorted
      OBVIOUS
    <3> QED BY <3>1, <3>2
  <2>3. /\ r[1].Field \in Seq(Tokens) /\ PlainField(r[1].Field)
        /\ Len(r[1].Field) = 1
    BY <2>1 DEF SortingDescriptor, PlainSorting, PlainField
  <2>4. SortingText(r[1]) = r[1].Field \o <<Direction(r[1])>> /\ <<Direction(r[1])>> \in Seq(Tokens)
        /\ Len(<<Direction(r[1])>>) = 1
    BY <1>0, <2>1, <2>3, SortingTextType
  <2> DEFINE g == r[1].Field
             h == <<Direction(r[1])>>
  <2>5. (g \o h)[1] = g[1]
    <3>1. g \in Seq(Tokens) /\ h \in Seq(Tokens) /\ Len(g) = 1 /\ Len(h) = 1
      BY <2>3, <2>4
    <3> HIDE DEF g, h
    <3> DEFINE k == 1
    <3>2. k \in 1 .. Len(g) + Len(h) /\ k <= Len(g)
      BY <3>1
    <3> HIDE DEF k
    <3>3. (g \o h)[k] = g[k]
      BY <3>1, <3>2, ConcatProperties
    <3> QED BY <3>3 DEF k
  <2>6. Unsorted[1] = "unsorted"
    BY DEF Unsorted
  <2> QED BY <2>2, <2>3, <2>4, <2>5, <2>6 DEF PlainField
<1>4. CASE s = <<>> \/ t = <<>>
  <2>1. /\ s = <<>> => SortingTexts(s) = <<Unsorted>>
        /\ t = <<>> => SortingTexts(t) = <<Unsorted>>
    BY DEF SortingTexts
  <2> QED BY <1>1, <1>3, <1>4, <2>1
<1>5. CASE s # <<>> /\ t # <<>>
  <2>1. /\ SortingTexts(s) = [i \in DOMAIN s |-> SortingText(s[i])]
        /\ SortingTexts(t) = [i \in DOMAIN t |-> SortingText(t[i])]
    BY <1>5 DEF SortingTexts
  <2>2. DOMAIN s = DOMAIN t
    BY <1>1, <2>1
  <2>3. Len(s) = Len(t)
    BY <1>2, <2>2
  <2>4. \A i \in 1 .. Len(s) : s[i] = t[i]
    <3> SUFFICES ASSUME NEW i \in DOMAIN s PROVE s[i] = t[i]
      BY <1>2
    <3>1. SortingText(s[i]) = SortingText(t[i])
      <4>1. SortingTexts(s)[i] = SortingText(s[i])
        BY <2>1
      <4>2. SortingTexts(t)[i] = SortingText(t[i])
        BY <2>1, <2>2
      <4> QED BY <1>1, <4>1, <4>2
    <3>2. s[i] \in SortingDescriptor /\ t[i] \in SortingDescriptor
      BY <1>2, <2>2
    <3> QED BY <3>1, <3>2, SortingTextTells
  <2> QED BY <2>3, <2>4, SeqEqual
<1> QED BY <1>4, <1>5

-----------------------------------------------------------------------------
(* A caller gets the answer to its question.                              *)

LEMMA Tuple4 ==
  ASSUME NEW T, NEW a \in T, NEW b \in T, NEW c \in T, NEW d \in T
  PROVE  /\ <<a, b, c, d>> \in Seq(T) /\ Len(<<a, b, c, d>>) = 4
         /\ <<a, b, c, d>>[1] = a /\ <<a, b, c, d>>[3] = c
OBVIOUS

\* What stands before the descriptions.
KeyHead(q) == <<q.size, "_", q.number, "_">>

\* A text begins with its beginning.
LEMMA BeginsWith ==
  ASSUME NEW T, NEW h \in Seq(T), NEW u \in Seq(T), NEW i \in 1 .. Len(h)
  PROVE  (h \o u)[i] = h[i]
<1>1. i \in 1 .. Len(h) + Len(u) /\ i <= Len(h)
  BY LenProperties
<1> QED BY <1>1, ConcatProperties

\* A key is a head, a filter, a mark and an order.
LEMMA KeyType ==
  ASSUME NEW q \in Queries, CacheKey(q) # None
  PROVE  /\ KeyHead(q) \in Seq(Tokens) /\ Len(KeyHead(q)) = 4
         /\ KeyHead(q)[1] = q.size /\ KeyHead(q)[3] = q.number
         /\ q.filter \in FilteringCollection /\ q.sorting \in Seq(SortingDescriptor)
         /\ FilteringDescription(q.filter) \in Seq(Tokens)
         /\ KeyHead(q) \o FilteringDescription(q.filter) \in Seq(Tokens)
         /\ CacheKey(q) = ((KeyHead(q) \o FilteringDescription(q.filter)) \o <<"_">>)
                            \o SortingDescription(q.sorting)
         /\ CacheKey(q)[1] = q.size /\ CacheKey(q)[3] = q.number
<1> DEFINE h == KeyHead(q)
           f == FilteringDescription(q.filter)
           mark == <<"_">>
           s == SortingDescription(q.sorting)
<1>1. /\ q.size \in Tokens /\ q.number \in Tokens /\ "_" \in Tokens
      /\ q.filter \in FilteringCollection /\ q.sorting \in Seq(SortingDescriptor)
  BY QueryCacheAssumption
<1>2. h \in Seq(Tokens) /\ Len(h) = 4 /\ h[1] = q.size /\ h[3] = q.number
  BY <1>1, Tuple4 DEF KeyHead
<1>3. f \in Seq(Tokens) /\ mark \in Seq(Tokens) /\ s \in Seq(Tokens)
  <2>1. Words(Tokens)
    BY DEF Words
  <2>2. f \in Seq(Tokens)
    BY <1>1, FilteringType
  <2>3. s \in Seq(Tokens)
    BY <1>1, <2>1, SortingType, PlainWords
  <2> QED BY <1>1, <2>2, <2>3, Tuple1
<1>4. CacheKey(q) = ((h \o f) \o mark) \o s
  BY DEF CacheKey, KeyHead
<1> HIDE DEF h, f, mark, s
<1>5. /\ h \o f \in Seq(Tokens) /\ Len(h \o f) = Len(h) + Len(f)
      /\ (h \o f) \o mark \in Seq(Tokens)
      /\ Len((h \o f) \o mark) = Len(h \o f) + Len(mark)
  <2>1. h \o f \in Seq(Tokens) /\ Len(h \o f) = Len(h) + Len(f)
    BY <1>2, <1>3, ConcatProperties
  <2> QED BY <1>3, <2>1, ConcatProperties
<1>6. ASSUME NEW i \in 1 .. Len(h) PROVE (((h \o f) \o mark) \o s)[i] = h[i]
  <2>1. i \in 1 .. Len(h \o f) /\ i \in 1 .. Len((h \o f) \o mark)
    <3>1. Len(h) \in Nat /\ Len(f) \in Nat /\ Len(mark) \in Nat
      BY <1>2, <1>3, LenProperties
    <3> QED BY <1>5, <3>1
  <2>2. (((h \o f) \o mark) \o s)[i] = ((h \o f) \o mark)[i]
    BY <1>3, <1>5, <2>1, BeginsWith
  <2>3. ((h \o f) \o mark)[i] = (h \o f)[i]
    BY <1>3, <1>5, <2>1, BeginsWith
  <2>4. (h \o f)[i] = h[i]
    BY <1>2, <1>3, BeginsWith
  <2> QED BY <2>2, <2>3, <2>4
<1>7. 1 \in 1 .. Len(h) /\ 3 \in 1 .. Len(h)
  BY <1>2
<1>8. CacheKey(q)[1] = q.size /\ CacheKey(q)[3] = q.number
  BY <1>2, <1>4, <1>6, <1>7
<1> QED BY <1>1, <1>2, <1>3, <1>4, <1>5, <1>8 DEF h, f, mark, s

\* What a query a that was answered tells a caller that asked q.
Tells(a, q) ==
  /\ a.size = q.size
  /\ a.number = q.number
  /\ Plain(a) /\ Plain(q) => SameFilter(a.filter, q.filter) /\ a.sorting = q.sorting

\* Two queries with one key ask for the same page under the same filter in the
\* same order.
LEMMA KeyTells ==
  ASSUME NEW p \in Queries, NEW q \in Queries, CacheKey(p) = CacheKey(q), CacheKey(q) # None
  PROVE  Tells(p, q)
<1>1. p.size = q.size /\ p.number = q.number
  BY KeyType
<1>2. ASSUME Plain(p), Plain(q)
      PROVE  SameFilter(p.filter, q.filter) /\ p.sorting = q.sorting
  <2> DEFINE T == Tokens
             x == "_"
             h == KeyHead(p)
             k == KeyHead(q)
             f == FilteringDescription(p.filter)
             g == FilteringDescription(q.filter)
             a == h \o f
             b == k \o g
             s == SortingDescription(p.sorting)
             t == SortingDescription(q.sorting)
  <2>1. /\ h \in Seq(T) /\ k \in Seq(T) /\ f \in Seq(T) /\ g \in Seq(T)
        /\ a \in Seq(T) /\ b \in Seq(T)
    BY KeyType
  <2>2. (a \o <<x>>) \o s = (b \o <<x>>) \o t
    <3>1. CacheKey(p) = (a \o <<x>>) \o s
      BY KeyType
    <3>2. CacheKey(q) = (b \o <<x>>) \o t
      BY KeyType
    <3> QED BY <3>1, <3>2
  <2>3. s \in Seq(T \ {x}) /\ t \in Seq(T \ {x})
    <3>1. Words(T \ {x})
      BY DEF Words
    <3>2. p.sorting \in Seq(SortingDescriptor) /\ q.sorting \in Seq(SortingDescriptor)
      BY KeyType
    <3>3. FieldsOf(T \ {x}, p.sorting) /\ FieldsOf(T \ {x}, q.sorting)
      BY <1>2, <3>2, PlainWords DEF Plain
    <3> QED BY <3>1, <3>2, <3>3, SortingType
  <2>4. x \in T
    BY QueryCacheAssumption
  <2>5. h = k
    BY <1>1 DEF KeyHead
  <2>6. a = b /\ s = t
    <3> HIDE DEF a, b, s, t, T, x
    <3>1. Marked(T, x, a, s, b, t)
      BY <2>1, <2>2, <2>3, <2>4 DEF Marked
    <3> QED BY <3>1, SplitAtLastMark
  <2>7. f = g
    <3> HIDE DEF h, k, f, g, T
    <3>1. h \o f = h \o g
      BY <2>5, <2>6
    <3> QED BY <2>1, <3>1, ConcatSimplifications
  <2>8. SameFilter(p.filter, q.filter)
    BY <1>2, <2>7, FilteringTells, KeyType DEF Plain
  <2>9. p.sorting = q.sorting
    BY <1>2, <2>6, SortingTells, KeyType DEF Plain
  <2> QED BY <2>8, <2>9
<1> QED BY <1>1, <1>2 DEF Tells

\* A query is an answer to itself.
LEMMA TellsItself == \A q : Tells(q, q)
BY DEF Tells, SameFilter, Equal

\* An entry lies under the key of the query it answers.
Filed == \A k \in Keys : cache[k] # None => CacheKey(cache[k]) = k

\* What has been answered answers the question, in the type expected.
Answering ==
  \A t \in Threads :
    answer[t] \in Queries => Tells(answer[t], asked[t]) /\ answer[t].result = asked[t].result

LEMMA AnsweringIs == Answering => AnswersTheQuestion
BY DEF Answering, AnswersTheQuestion, Tells

\* What a lookup answers is that page in the type expected.
LEMMA GotAnswers ==
  ASSUME CacheTypeOK, Asking, Filed, NEW t \in Threads, pc[t] \in {"first", "second"},
         cache[Key(t)] # None, Got(t) \in Queries
  PROVE  Tells(Got(t), asked[t]) /\ Got(t).result = asked[t].result
<1>1. Got(t) = cache[Key(t)] /\ Got(t).result = asked[t].result
  BY QueryCacheAssumption DEF Got
<1>2. CacheKey(Got(t)) = CacheKey(asked[t]) /\ Key(t) \in Keys /\ asked[t] \in Queries
  BY <1>1 DEF Filed, Asking
<1>3. CacheKey(asked[t]) # None
  BY <1>2 DEF Keys
<1> QED BY <1>1, <1>2, <1>3, KeyTells

LEMMA NextAnswers ==
  CacheTypeOK /\ Asking /\ Filed /\ Answering /\ [CacheNext]_cacheVars => Filed' /\ Answering'
<1> SUFFICES ASSUME CacheTypeOK, Asking, Filed, Answering, [CacheNext]_cacheVars
             PROVE  Filed' /\ Answering'
  OBVIOUS
<1>0. None \notin Queries /\ Exception \notin Queries
  BY QueryCacheAssumption
<1> USE DEF CacheTypeOK, Asking, Filed, Answering
<1>1. ASSUME NEW t \in Threads, NEW q \in Queries, Handle(t, q) PROVE Filed' /\ Answering'
  BY <1>0, <1>1 DEF Handle
<1>2. ASSUME NEW t \in Threads, HandleDirectly(t) PROVE Filed' /\ Answering'
  BY <1>0, <1>2, TellsItself DEF HandleDirectly
<1>3. ASSUME NEW t \in Threads, FirstGet(t) PROVE Filed' /\ Answering'
  BY <1>3, GotAnswers DEF FirstGet
<1>4. ASSUME NEW t \in Threads, Lock(t) PROVE Filed' /\ Answering'
  BY <1>4 DEF Lock
<1>5. ASSUME NEW t \in Threads, SecondGet(t) PROVE Filed' /\ Answering'
  BY <1>5, GotAnswers DEF SecondGet
<1>6. ASSUME NEW t \in Threads, Fetch(t) PROVE Filed' /\ Answering'
  BY <1>6, TellsItself DEF Fetch
<1>7. ASSUME NEW t \in Threads, FetchThrows(t) PROVE Filed' /\ Answering'
  BY <1>0, <1>7 DEF FetchThrows
<1>8. ASSUME NEW k \in Keys, Expire(k) PROVE Filed' /\ Answering'
  BY <1>8 DEF Expire
<1>9. CASE UNCHANGED cacheVars
  BY <1>9 DEF cacheVars
<1> QED BY <1>1, <1>2, <1>3, <1>4, <1>5, <1>6, <1>7, <1>8, <1>9 DEF CacheNext, Step

\* Whoever stored what is in the cache, a caller that gets an answer gets the
\* page it asked for in the type it expects, and, if the names and values of
\* both queries are plain, under equal descriptors, one rule and one order.
THEOREM QuestionAnswered == CacheSpec => []AnswersTheQuestion
<1>1. CacheInit => Filed /\ Answering
  BY QueryCacheAssumption DEF CacheInit, Filed, Answering
<1> QED BY <1>1, NextAnswers, AnsweringIs, CacheTypes, PTL DEF CacheSpec
=============================================================================
