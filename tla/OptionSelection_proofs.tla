----------------------- MODULE OptionSelection_proofs -----------------------
(***************************************************************************)
(* Proofs about the selection of the option list, for any setups.          *)
(***************************************************************************)
EXTENDS OptionSelection, FiniteSetTheorems, WellFoundedInduction, TLAPS

-----------------------------------------------------------------------------
(* Sets of rows, numbered from 0.                                         *)

\* A set of rows has a first one.
LEMMA LeastRow ==
  ASSUME NEW n \in Nat, NEW S \in SUBSET (0 .. n), S # {}
  PROVE  \E i \in S : \A j \in S : i <= j
<1> DEFINE R == {ss \in Nat \X Nat : ss[1] < ss[2]}
<1>1. IsWellFoundedOn(R, Nat)
  BY NatLessThanWellFounded DEF OpToRel
<1>2. S \subseteq Nat /\ \A i, j \in S : <<j, i>> \in R <=> j < i
  OBVIOUS
<1> HIDE DEF R
<1>3. \E i \in S : \A j \in S : <<j, i>> \notin R
  BY <1>1, <1>2, WFMin
<1>4. \A i, j \in S : i <= j \/ j < i
  OBVIOUS
<1> QED BY <1>2, <1>3, <1>4

\* And a last one.
LEMMA GreatestRow ==
  ASSUME NEW n \in Nat, NEW S \in SUBSET (0 .. n), S # {}
  PROVE  \E i \in S : \A j \in S : j <= i
<1> DEFINE T == {n - i : i \in S}
<1>1. T \in SUBSET (0 .. n) /\ T # {}
  <2>1. \A i \in S : n - i \in 0 .. n
    OBVIOUS
  <2>2. T \in SUBSET (0 .. n)
    BY <2>1
  <2>3. T # {}
    OBVIOUS
  <2> QED BY <2>2, <2>3
<1>2. PICK k \in T : \A j \in T : k <= j
  <2> HIDE DEF T
  <2> QED BY <1>1, LeastRow
<1>3. PICK i \in S : k = n - i
  <2>1. k \in T
    BY <1>2
  <2> QED BY <2>1
<1>4. ASSUME NEW j \in S PROVE j <= i
  <2>1. n - j \in T
    OBVIOUS
  <2> QED BY <1>2, <1>3, <2>1
<1> QED BY <1>4

\* A set of rows has more than one of them or is empty or a singleton.
LEMMA FewRows ==
  ASSUME NEW n \in Nat, NEW S \in SUBSET (0 .. n)
  PROVE  /\ Cardinality(S) \in Nat
         /\ Cardinality(S) <= 1 <=> \A i, j \in S : i = j
<1>1. IsFiniteSet(0 .. n)
  BY FS_Interval
<1>2. IsFiniteSet(S) /\ Cardinality(S) \in Nat
  BY <1>1, FS_Subset, FS_CardinalityType
<1>3. Cardinality(S) = 0 <=> S = {}
  BY <1>2, FS_EmptySet
<1>4. Cardinality(S) = 1 <=> \E i : S = {i}
  BY <1>2, FS_Singleton
<1>5. (\A i, j \in S : i = j) <=> S = {} \/ \E i : S = {i}
  <2>1. ASSUME \A i, j \in S : i = j, NEW k \in S PROVE S = {k}
    BY <2>1
  <2> QED BY <2>1
<1> QED BY <1>2, <1>3, <1>4, <1>5

-----------------------------------------------------------------------------
(* What the helpers return.                                                *)

LEMMA Shape ==
  ASSUME TypeOK
  PROVE  /\ \A p \in Pages :
              /\ p.count \in Nat \ {0} /\ p.count - 1 \in Nat
              /\ p.exclusive \subseteq 0 .. p.count - 1
              /\ p.selected \subseteq 0 .. p.count - 1
         /\ page \in Pages /\ view \in Pages
         /\ MultiSelect \in BOOLEAN /\ PagingOn \in BOOLEAN /\ Animated \in BOOLEAN
         /\ fading \in BOOLEAN /\ holding \in BOOLEAN /\ behind \in BOOLEAN
         /\ quiet \in BOOLEAN /\ crossed \in BOOLEAN
  BY OptionSelectionAssumption DEF TypeOK, Pages, MultiSelect, PagingOn, Animated

LEMMA LeastIs ==
  ASSUME NEW n \in Nat, NEW S \in SUBSET (0 .. n), S # {}
  PROVE  Least(S) \in S
<1>1. \E i \in S : \A j \in S : i <= j
  BY LeastRow
<1> QED BY <1>1 DEF Least

LEMMA GreatestIs ==
  ASSUME NEW n \in Nat, NEW S \in SUBSET (0 .. n), S # {}
  PROVE  Greatest(S) \in S
<1>1. \E i \in S : \A j \in S : j <= i
  BY GreatestRow
<1> QED BY <1>1 DEF Greatest

\* The browser selects what comes selected, of a single selection one option.
LEMMA ChosenIs ==
  ASSUME NEW n \in Nat, NEW S \in SUBSET (0 .. n)
  PROVE  /\ Chosen(S) \in SUBSET S
         /\ MultiSelect \/ (\A i, j \in S : i = j) => Chosen(S) = S
<1>1. CASE MultiSelect \/ S = {}
  BY <1>1 DEF Chosen
<1>2. CASE ~MultiSelect /\ S # {}
  <2>1. Chosen(S) = {Greatest(S)} /\ Greatest(S) \in S
    BY <1>2, GreatestIs DEF Chosen
  <2> QED BY <1>2, <2>1
<1> QED BY <1>1, <1>2

\* Selections of the items and options there are.
Sels == [sel : SUBSET Items, ui : SUBSET shown]

\* _unselectExclusiveItems leaves a selection alone that shares no exclusive
\* item, and else the first exclusive option, if all options have items.
LEMMA UnselectExclusiveIs ==
  ASSUME TypeOK, NEW l \in Sels
  PROVE  /\ UnselectExclusive(l) \in Sels
         /\ ~Shared(l) => ~Throws(l) /\ UnselectExclusive(l) = l
         /\ Shared(l) /\ ~Throws(l) =>
              \E first \in l.ui \cap Items :
                UnselectExclusive(l) = [sel |-> (l.sel \ l.ui) \cup {first}, ui |-> {first}]
<1> DEFINE first == Least(l.ui \cap view.exclusive)
<1>1. l.sel \in SUBSET Items /\ l.ui \in SUBSET shown
  BY DEF Sels
<1>2. CASE Throws(l)
  <2>1. Shared(l) /\ UnselectExclusive(l) = [sel |-> l.sel \ l.ui, ui |-> l.ui \ Items]
    BY <1>2 DEF Throws, UnselectExclusive
  <2> QED BY <1>1, <1>2, <2>1 DEF Sels
<1>3. CASE Shared(l) /\ ~Throws(l)
  <2>1. l.ui \cap view.exclusive # {} /\ l.ui \subseteq Items
    BY <1>3 DEF Shared, Throws
  <2>2. view.count - 1 \in Nat
        /\ l.ui \cap view.exclusive \in SUBSET (0 .. view.count - 1)
    BY <1>1, Shape DEF TypeOK
  <2>3. first \in l.ui \cap view.exclusive
    BY <2>1, <2>2, LeastIs
  <2>4. UnselectExclusive(l) = [sel |-> (l.sel \ l.ui) \cup {first}, ui |-> {first}]
    BY <1>3 DEF UnselectExclusive
  <2> HIDE DEF first
  <2>5. first \in l.ui \cap Items
    BY <2>1, <2>3
  <2>6. [sel |-> (l.sel \ l.ui) \cup {first}, ui |-> {first}] \in Sels
    BY <1>1, <2>5 DEF Sels
  <2> QED BY <1>3, <2>4, <2>5, <2>6
<1>4. CASE ~Shared(l)
  BY <1>4 DEF UnselectExclusive, Throws
<1> QED BY <1>2, <1>3, <1>4

\* The k-th option is that of item k while all have one.
LEMMA EqIs ==
  ASSUME TypeOK
  PROVE  \A k : /\ Eq(k) \subseteq shown
                /\ shown = Items /\ k \in Items => Eq(k) = {k}
<1>1. \A k : Eq(k) \subseteq shown
  BY DEF Eq
<1>2. ASSUME shown = Items, NEW k \in Items PROVE Eq(k) = {k}
  <2>1. page.count - 1 \in Nat
    BY Shape
  <2>2. ASSUME NEW i \in Items PROVE Cardinality({j \in shown : j < i}) = i
    <3>1. i \in Nat /\ i <= page.count - 1
      BY <2>1 DEF Items
    <3>2. {j \in shown : j < i} = 0 .. i - 1
      BY <1>2, <2>1, <3>1 DEF Items
    <3>3. Cardinality(0 .. i - 1) = IF 0 > i - 1 THEN 0 ELSE (i - 1) - 0 + 1
      BY <3>1, FS_Interval
    <3>4. Cardinality(0 .. i - 1) = i
      BY <3>1, <3>3
    <3> QED BY <3>2, <3>4
  <2> QED BY <1>2, <2>2 DEF Eq
<1> QED BY <1>1, <1>2

-----------------------------------------------------------------------------
(* The inductive invariant.                                                *)

\* Only while a page fades out are the options those of another page, which
\* never happens under a client filter; with pages all items have an option.
InView ==
  /\ ~fading => view = page
  /\ ~PagingOn => ~fading
  /\ PagingOn => shown = 0 .. view.count - 1

IInv == TypeOK /\ InView /\ SelectionAnnounced

\* Outside of a fade-out every option has an item, and with pages every item
\* has an option.
LEMMA OptionsHaveItems ==
  ASSUME TypeOK, InView, ~fading
  PROVE  view = page /\ shown \subseteq Items /\ (PagingOn => shown = Items)
  BY DEF TypeOK, InView, Items

\* A handler that leaves the page and its options as they are.
LEMMA PutsKeeps ==
  ASSUME TypeOK, InView, NEW l \in Sels, Becomes(l),
         UNCHANGED <<options, page, view, shown, fading>>,
         scroll' \in {"off", "on", "stale"}, holding' \in BOOLEAN, behind' \in BOOLEAN,
         quiet' \in BOOLEAN, crossed' \in BOOLEAN, told' \subseteq Nat
  PROVE  TypeOK' /\ InView'
<1>1. /\ Items' = Items /\ Pages' = Pages /\ PagingOn' = PagingOn
  BY DEF Items, Pages, PagingOn
<1>2. sel' \in SUBSET Items /\ ui' \in SUBSET shown
  BY DEF Becomes, Sels
<1>3. fading \in BOOLEAN
  BY Shape
<1>4. TypeOK'
  BY <1>1, <1>2, <1>3 DEF TypeOK
<1>5. InView'
  BY <1>1 DEF InView
<1> QED BY <1>4, <1>5

\* A selection is a set of numbers.
LEMMA SelType ==
  ASSUME TypeOK, NEW l \in Sels
  PROVE  l.sel \subseteq Nat
<1>1. Items \subseteq Nat
  BY Shape DEF Items
<1> QED BY <1>1 DEF Sels

LEMMA NowType ==
  ASSUME TypeOK
  PROVE  Now \in Sels /\ Now.sel = sel /\ Now.ui = ui
  BY DEF TypeOK, Now, Sels

\* A handler of the user's that tells the host page if the selection changed.
LEMMA AnnounceKeeps ==
  ASSUME IInv, NEW l \in Sels, Becomes(l), NEW c \in BOOLEAN, Announce(l, c),
         ~crossed' => c \/ l.sel = sel, crossed => crossed', crossed' \in BOOLEAN,
         behind' = FALSE, UNCHANGED <<options, page, view, shown, fading, holding, scroll>>
  PROVE  IInv'
<1>1. TypeOK /\ InView
  BY DEF IInv
<1>2. /\ sel' = l.sel
      /\ told' = IF c THEN l.sel ELSE told
      /\ quiet' = (quiet /\ ~c)
  BY DEF Becomes, Announce
<1>3. quiet' \in BOOLEAN /\ holding' \in BOOLEAN /\ behind' \in BOOLEAN
  BY <1>1, <1>2, Shape
<1>4. told' \subseteq Nat
  BY <1>1, <1>2, SelType DEF TypeOK
<1>5. scroll' \in {"off", "on", "stale"}
  BY <1>1 DEF TypeOK
<1>6. SelectionAnnounced'
  BY <1>2 DEF IInv, SelectionAnnounced
<1> QED BY <1>1, <1>3, <1>4, <1>5, <1>6, PutsKeeps DEF IInv

\* A call of the host page.
LEMMA HostChangesKeeps ==
  ASSUME IInv, NEW l \in Sels, NEW f, NEW c, HostChanges(l, f, c),
         behind' \in BOOLEAN, UNCHANGED options
  PROVE  IInv'
<1>1. TypeOK /\ InView
  BY DEF IInv
<1>2. /\ Becomes(l) /\ sel' = l.sel
      /\ told' = IF f /\ c THEN l.sel ELSE told
      /\ quiet' = IF f /\ c THEN FALSE ELSE quiet \/ l.sel # sel
      /\ crossed' = (crossed \/ fading)
      /\ UNCHANGED <<page, view, shown, fading, holding, scroll>>
  BY DEF HostChanges, Becomes
<1>3. quiet' \in BOOLEAN /\ holding' \in BOOLEAN /\ crossed' \in BOOLEAN
  BY <1>1, <1>2, Shape
<1>4. told' \subseteq Nat
  BY <1>1, <1>2, SelType DEF TypeOK
<1>5. scroll' \in {"off", "on", "stale"}
  BY <1>1, <1>2 DEF TypeOK
<1>6. SelectionAnnounced'
  BY <1>2 DEF IInv, SelectionAnnounced
<1> QED BY <1>1, <1>2, <1>3, <1>4, <1>5, <1>6, PutsKeeps DEF IInv

\* A handler that leaves items, page and what is known of them alone.
LEMMA DragsKeep ==
  ASSUME IInv, ui' \subseteq shown,
         UNCHANGED <<options, page, sel, view, shown, fading, told, quiet, crossed>>,
         scroll' \in {"off", "on", "stale"}, holding' \in BOOLEAN, behind' \in BOOLEAN
  PROVE  IInv'
<1>1. TypeOK /\ InView
  BY DEF IInv
<1> DEFINE l == [sel |-> sel, ui |-> ui']
<1>2. l.sel = sel /\ l.ui = ui' /\ l \in Sels
  BY <1>1 DEF Sels, TypeOK
<1> HIDE DEF l
<1>3. Becomes(l)
  BY <1>2 DEF Becomes
<1>4. quiet' \in BOOLEAN /\ crossed' \in BOOLEAN /\ told' \subseteq Nat
  BY <1>1, Shape DEF TypeOK
<1>5. SelectionAnnounced'
  BY DEF IInv, SelectionAnnounced
<1> QED BY <1>1, <1>2, <1>3, <1>4, <1>5, PutsKeeps DEF IInv

\* What the change event leaves of gesture S, outside of a fade-out: S, or the
\* first exclusive option of it.
Leaves(S) ==
  \/ ~Shared([sel |-> sel, ui |-> S]) /\ ui' = S
  \/ \E first \in S : ui' = {first}

\* _selectionChange
LEMMA SelectionChangeKeeps ==
  ASSUME IInv, NEW S \in Gestures, SelectionChange(S), UNCHANGED options
  PROVE  /\ IInv'
         /\ ~fading => Leaves(S) /\ sel' = (sel \ shown) \cup ui'
<1> DEFINE chosen == [sel |-> sel, ui |-> S]
           exclusive == UnselectExclusive(chosen)
           l == IF Throws(chosen) THEN exclusive ELSE ReadUI(exclusive)
           c == shown \subseteq Items /\ (Shared(chosen) \/ l.sel # exclusive.sel)
<1>1. /\ Becomes(l) /\ Announce(l, c)
      /\ behind' = FALSE
      /\ crossed' = (crossed \/ fading)
      /\ UNCHANGED <<page, view, shown, fading, holding, scroll>>
  BY DEF SelectionChange
<1>2. TypeOK /\ InView /\ crossed \in BOOLEAN /\ fading \in BOOLEAN
  BY Shape DEF IInv
<1>3. S \in SUBSET shown
  BY DEF Gestures
<1>4. chosen \in Sels /\ chosen.sel = sel /\ chosen.ui = S
  BY <1>2, <1>3 DEF Sels, TypeOK
<1> HIDE DEF chosen
<1>5. /\ exclusive \in Sels
      /\ ~Shared(chosen) => ~Throws(chosen) /\ exclusive = chosen
      /\ Shared(chosen) /\ ~Throws(chosen) =>
           \E first \in S \cap Items :
             exclusive = [sel |-> (sel \ S) \cup {first}, ui |-> {first}]
  BY <1>2, <1>4, UnselectExclusiveIs
<1> HIDE DEF exclusive
<1>6. /\ ReadUI(exclusive).sel = (exclusive.sel \ shown) \cup (exclusive.ui \cap Items)
      /\ ReadUI(exclusive).ui = exclusive.ui
      /\ ReadUI(exclusive) \in Sels
  BY <1>5 DEF ReadUI, Sels
<1>7. l \in Sels
  BY <1>5, <1>6
<1>8. ASSUME ~fading PROVE Leaves(S) /\ l.sel = (sel \ shown) \cup l.ui /\ l.ui = ui'
  <2>1. shown \subseteq Items /\ S \subseteq Items
    BY <1>2, <1>3, <1>8, OptionsHaveItems
  <2>2. ~Throws(chosen) /\ l = ReadUI(exclusive)
    BY <1>4, <2>1 DEF Throws
  <2>3. l.ui = ui'
    BY <1>1 DEF Becomes
  <2> HIDE DEF l
  <2>4. CASE Shared(chosen)
    <3>1. PICK first \in S \cap Items :
            exclusive = [sel |-> (sel \ S) \cup {first}, ui |-> {first}]
      BY <1>5, <2>2, <2>4
    <3>2. l.ui = {first} /\ l.sel = (sel \ shown) \cup {first}
      BY <1>3, <1>6, <2>2, <3>1
    <3> QED BY <2>3, <3>1, <3>2 DEF Leaves
  <2>5. CASE ~Shared(chosen)
    <3>1. l.ui = S /\ l.sel = (sel \ shown) \cup S
      BY <1>4, <1>5, <1>6, <2>1, <2>2, <2>5
    <3> QED BY <2>3, <2>5, <3>1 DEF Leaves, chosen
  <2> QED BY <2>4, <2>5
<1>9. ASSUME ~crossed' PROVE c \/ l.sel = sel
  <2>1. ~fading
    BY <1>1, <1>9
  <2>2. shown \subseteq Items
    BY <1>2, <2>1, OptionsHaveItems
  <2> HIDE DEF l
  <2> QED BY <1>4, <1>5, <2>2
<1>10. sel' = l.sel
  BY <1>1 DEF Becomes
<1>11. c \in BOOLEAN /\ crossed' \in BOOLEAN /\ (crossed => crossed')
  BY <1>1, <1>2
<1> HIDE DEF l, c
<1>12. IInv'
  BY <1>1, <1>7, <1>9, <1>11, AnnounceKeeps
<1> QED BY <1>8, <1>10, <1>12

\* Ctrl and A: every option, or the first exclusive one.
LEMMA SelectsAllKeeps ==
  ASSUME IInv, SelectsAll, UNCHANGED options
  PROVE  /\ IInv' /\ MultiSelect
         /\ ~fading /\ PagingOn => ui' = sel'
<1> DEFINE all == [sel |-> IF PagingOn THEN Items ELSE sel \cup shown, ui |-> shown]
           l == UnselectExclusive(all)
           c == ~Throws(all) /\ (all.sel # sel \/ Shared(all))
<1>1. /\ MultiSelect /\ Becomes(l) /\ Announce(l, c)
      /\ behind' = FALSE
      /\ crossed' = (crossed \/ fading)
      /\ UNCHANGED <<page, view, shown, fading, holding, scroll>>
  BY DEF SelectsAll
<1>2. TypeOK /\ InView /\ crossed \in BOOLEAN /\ fading \in BOOLEAN
  BY Shape DEF IInv
<1>3. PagingOn \/ shown \subseteq Items
  BY <1>2, OptionsHaveItems DEF InView
<1>4. /\ all \in Sels /\ all.ui = shown
      /\ PagingOn => all.sel = Items
  BY <1>2, <1>3 DEF Sels, TypeOK
<1> HIDE DEF all
<1>5. /\ l \in Sels
      /\ ~Shared(all) => ~Throws(all) /\ l = all
      /\ Shared(all) /\ ~Throws(all) =>
           \E first \in shown \cap Items :
             l = [sel |-> (all.sel \ shown) \cup {first}, ui |-> {first}]
  BY <1>2, <1>4, UnselectExclusiveIs
<1>6. sel' = l.sel /\ ui' = l.ui
  BY <1>1 DEF Becomes
<1>7. c \in BOOLEAN /\ crossed' \in BOOLEAN /\ (crossed => crossed')
  BY <1>1, <1>2
<1> HIDE DEF l
<1>8. ASSUME ~fading PROVE ~Throws(all)
  BY <1>2, <1>4, <1>8, OptionsHaveItems DEF Throws
<1>9. ASSUME ~crossed' PROVE c \/ l.sel = sel
  <2>1. ~fading
    BY <1>1, <1>9
  <2> QED BY <1>5, <1>8, <2>1
<1> HIDE DEF c
<1>10. IInv'
  BY <1>1, <1>5, <1>7, <1>9, AnnounceKeeps
<1>11. ASSUME ~fading, PagingOn PROVE ui' = sel'
  <2>1. shown = Items /\ ~Throws(all) /\ all.sel = Items
    BY <1>2, <1>4, <1>8, <1>11, OptionsHaveItems
  <2>2. CASE Shared(all)
    <3>1. PICK first \in shown \cap Items :
            l = [sel |-> (all.sel \ shown) \cup {first}, ui |-> {first}]
      BY <1>5, <2>1, <2>2
    <3> QED BY <1>6, <2>1, <3>1
  <2>3. CASE ~Shared(all)
    BY <1>4, <1>5, <1>6, <2>1, <2>3
  <2> QED BY <2>2, <2>3
<1> QED BY <1>1, <1>10, <1>11

\* select(ids)
LEMMA SelectKeeps ==
  ASSUME IInv, NEW ids \in SUBSET Items \ {{}}, NEW f \in BOOLEAN, Select(ids, f),
         UNCHANGED options
  PROVE  IInv' /\ (MultiSelect \/ Cardinality(sel') = 1) /\ sel' = ids /\ ui' = ids \cap shown
<1> DEFINE l == [sel |-> ids, ui |-> ids \cap shown]
<1>1. l \in Sels /\ l.sel = ids /\ l.ui = ids \cap shown
  BY DEF Sels
<1> HIDE DEF l
<1>2. /\ MultiSelect \/ Cardinality(ids) = 1
      /\ HostChanges(l, f, TRUE) /\ behind' = FALSE
  BY DEF Select, l
<1>3. IInv'
  BY <1>1, <1>2, HostChangesKeeps
<1> QED BY <1>1, <1>2, <1>3 DEF HostChanges, Becomes

\* select()
LEMMA SelectAllKeeps ==
  ASSUME IInv, NEW f \in BOOLEAN, SelectAll(f), UNCHANGED options
  PROVE  /\ IInv'
         /\ ~MultiSelect => sel' = {0}
         /\ ~fading /\ PagingOn => ui' = sel'
<1> DEFINE all == [sel |-> Items, ui |-> shown]
           l == UnselectExclusive(all)
           one == [sel |-> {0}, ui |-> Eq(0)]
<1>1. TypeOK /\ InView
  BY DEF IInv
<1>2. all \in Sels /\ all.sel = Items /\ all.ui = shown
  BY DEF Sels
<1>3. behind' = FALSE
  BY DEF SelectAll
<1>4. CASE MultiSelect /\ HostChanges(l, f /\ ~Throws(all), sel # Items \/ Shared(all))
  <2> HIDE DEF all
  <2>1. /\ l \in Sels
        /\ ~Shared(all) => ~Throws(all) /\ l = all
        /\ Shared(all) /\ ~Throws(all) =>
             \E first \in shown \cap Items :
               l = [sel |-> (Items \ shown) \cup {first}, ui |-> {first}]
    BY <1>1, <1>2, UnselectExclusiveIs
  <2> HIDE DEF l
  <2>2. IInv'
    BY <1>3, <1>4, <2>1, HostChangesKeeps
  <2>3. ASSUME ~fading, PagingOn PROVE l.ui = l.sel
    <3>1. shown = Items /\ ~Throws(all)
      BY <1>1, <1>2, <2>3, OptionsHaveItems DEF Throws
    <3>2. CASE Shared(all)
      <4>1. PICK first \in shown \cap Items :
              l = [sel |-> (Items \ shown) \cup {first}, ui |-> {first}]
        BY <2>1, <3>1, <3>2
      <4> QED BY <3>1, <4>1
    <3>3. CASE ~Shared(all)
      BY <1>2, <2>1, <3>1, <3>3
    <3> QED BY <3>2, <3>3
  <2> QED BY <1>4, <2>2, <2>3 DEF HostChanges, Becomes
<1>5. CASE ~MultiSelect /\ HostChanges(one, f, TRUE)
  <2>1. 0 \in Items
    BY <1>1, Shape DEF Items
  <2>2. one \in Sels /\ one.sel = {0} /\ one.ui = Eq(0)
    BY <1>1, <2>1, EqIs DEF Sels
  <2> HIDE DEF one
  <2>3. IInv'
    BY <1>3, <1>5, <2>2, HostChangesKeeps
  <2>4. ASSUME ~fading, PagingOn PROVE Eq(0) = {0}
    BY <1>1, <2>1, <2>4, OptionsHaveItems, EqIs
  <2> QED BY <1>5, <2>2, <2>3, <2>4 DEF HostChanges, Becomes
<1> QED BY <1>4, <1>5 DEF SelectAll

\* unselect()
LEMMA UnselectAllKeeps ==
  ASSUME IInv, NEW f \in BOOLEAN, UnselectAll(f), UNCHANGED options
  PROVE  IInv' /\ sel' = {} /\ ui' = {}
<1> DEFINE l == [sel |-> {}, ui |-> {}]
<1>1. l \in Sels /\ l.sel = {} /\ l.ui = {}
  BY DEF Sels
<1> HIDE DEF l
<1>2. HostChanges(l, f, sel # {}) /\ behind' = FALSE
  BY DEF UnselectAll, l
<1>3. IInv'
  BY <1>1, <1>2, HostChangesKeeps
<1> QED BY <1>1, <1>2, <1>3 DEF HostChanges, Becomes

\* unselect(id)
LEMMA UnselectKeeps ==
  ASSUME IInv, NEW k \in Items, NEW f \in BOOLEAN, Unselect(k, f), UNCHANGED options
  PROVE  /\ IInv'
         /\ sel' = sel \ {k}
         /\ ~fading /\ PagingOn => ui' = ui \ {k}
<1> DEFINE l == [sel |-> sel \ {k}, ui |-> ui \ Eq(k)]
           c == k \in sel \/ ui \cap Eq(k) # {} \/ Eq(k) = {}
<1>1. TypeOK /\ InView
  BY DEF IInv
<1>2. l \in Sels /\ l.sel = sel \ {k} /\ l.ui = ui \ Eq(k)
  BY <1>1 DEF Sels, TypeOK
<1>3. HostChanges(l, f, c) /\ UNCHANGED behind
  BY DEF Unselect
<1> HIDE DEF l, c
<1>4. behind' \in BOOLEAN
  BY <1>1, <1>3, Shape
<1>5. IInv'
  BY <1>2, <1>3, <1>4, HostChangesKeeps
<1>6. ASSUME ~fading, PagingOn PROVE Eq(k) = {k}
  BY <1>1, <1>6, OptionsHaveItems, EqIs
<1> QED BY <1>2, <1>3, <1>5, <1>6 DEF HostChanges, Becomes

\* _applyClientFilter
LEMMA ApplyClientFilterKeeps ==
  ASSUME IInv, NEW match \in SUBSET Items, ApplyClientFilter(match), UNCHANGED options
  PROVE  IInv'
<1> DEFINE s == sel \ shown
<1>1. TypeOK /\ InView
  BY DEF IInv
<1>2. /\ ~PagingOn
      /\ sel' = s /\ shown' = match /\ ui' = Chosen(s \cap match)
      /\ told' = IF sel \cap shown # {} THEN s ELSE told
      /\ quiet' = (quiet /\ ~(sel \cap shown # {}))
      /\ behind' = FALSE
      /\ scroll' = IF scroll = "on" THEN "stale" ELSE scroll
      /\ UNCHANGED <<options, page, view, fading, holding, crossed>>
  BY DEF ApplyClientFilter, Announce
<1>3. ~fading /\ view = page
  BY <1>1, <1>2 DEF InView
<1>4. page.count - 1 \in Nat /\ Items = 0 .. page.count - 1
  BY <1>1, Shape DEF Items
<1>5. s \in SUBSET Items /\ s \cap match \in SUBSET (0 .. page.count - 1)
  BY <1>1, <1>4 DEF TypeOK
<1>6. ui' \subseteq match
  BY <1>2, <1>4, <1>5, ChosenIs
<1>7. Items' = Items /\ Pages' = Pages /\ PagingOn' = PagingOn
  BY <1>2 DEF Items, Pages, PagingOn
<1>8. told' \subseteq Nat
  BY <1>1, <1>2, <1>4, <1>5 DEF TypeOK
<1>9. {fading', holding', behind', quiet', crossed'} \subseteq BOOLEAN
  <2>1. fading' \in BOOLEAN /\ holding' \in BOOLEAN /\ behind' \in BOOLEAN
        /\ quiet' \in BOOLEAN /\ crossed' \in BOOLEAN
    BY <1>1, <1>2, Shape
  <2> QED BY <2>1
<1>10. scroll' \in {"off", "on", "stale"}
  BY <1>1, <1>2 DEF TypeOK
<1>11. shown' \subseteq 0 .. view.count - 1
  BY <1>2, <1>3, <1>4
<1> HIDE DEF s
<1>12. TypeOK'
  BY <1>1, <1>2, <1>5, <1>6, <1>7, <1>8, <1>9, <1>10, <1>11 DEF TypeOK
<1>13. InView'
  BY <1>2, <1>3, <1>7 DEF InView
<1>14. SelectionAnnounced'
  BY <1>2 DEF s, IInv, SelectionAnnounced
<1> QED BY <1>12, <1>13, <1>14 DEF IInv

\* _loadPage.success: without the animation the options are there at once.
LEMMA SuccessKeeps ==
  ASSUME IInv, NEW p \in Pages, Success(p), UNCHANGED options
  PROVE  /\ IInv' /\ sel' = p.selected
         /\ ~fading' => ui' = Chosen(p.selected)
<1>1. TypeOK /\ InView
  BY DEF IInv
<1>2. /\ PagingOn
      /\ page' = p /\ sel' = p.selected /\ told' = p.selected
      /\ quiet' = FALSE
      /\ fading' = Animated
      /\ IF Animated THEN UNCHANGED <<view, shown, ui, behind, scroll>>
                     ELSE PopulateData(p) /\ ui' = Chosen(p.selected)
      /\ UNCHANGED <<options, holding, crossed>>
  BY DEF Success
<1>3. /\ p.count - 1 \in Nat
      /\ p.selected \in SUBSET (0 .. p.count - 1)
  BY <1>1, Shape
<1>4. Items' = 0 .. p.count - 1 /\ Pages' = Pages /\ PagingOn' = PagingOn
  BY <1>2 DEF Items, Pages, PagingOn
<1>5. /\ view' \in Pages
      /\ shown' \subseteq 0 .. view'.count - 1
      /\ ui' \subseteq shown'
      /\ scroll' \in {"off", "on", "stale"}
      /\ behind' \in BOOLEAN
  <2>1. CASE Animated
    BY <1>1, <1>2, <2>1, Shape DEF TypeOK
  <2>2. CASE ~Animated
    <3>1. /\ view' = p /\ shown' = 0 .. p.count - 1 /\ behind' = FALSE
          /\ scroll' = IF scroll = "on" THEN "stale" ELSE scroll
          /\ ui' = Chosen(p.selected)
      BY <1>2, <2>2 DEF PopulateData
    <3>2. ui' \subseteq 0 .. p.count - 1
      BY <1>3, <3>1, ChosenIs
    <3>3. scroll' \in {"off", "on", "stale"}
      BY <1>1, <3>1 DEF TypeOK
    <3> QED BY <3>1, <3>2, <3>3
  <2> QED BY <2>1, <2>2
<1>6. {fading', holding', behind', quiet', crossed'} \subseteq BOOLEAN
  <2>1. fading' \in BOOLEAN /\ holding' \in BOOLEAN /\ behind' \in BOOLEAN
        /\ quiet' \in BOOLEAN /\ crossed' \in BOOLEAN
    BY <1>1, <1>2, <1>5, Shape
  <2> QED BY <2>1
<1>7. TypeOK'
  BY <1>1, <1>2, <1>3, <1>4, <1>5, <1>6 DEF TypeOK
<1>8. InView'
  <2>1. CASE Animated
    BY <1>1, <1>2, <1>4, <2>1 DEF InView
  <2>2. CASE ~Animated
    BY <1>2, <1>4, <2>2 DEF InView, PopulateData
  <2> QED BY <2>1, <2>2
<1>9. SelectionAnnounced'
  BY <1>2 DEF SelectionAnnounced
<1> QED BY <1>2, <1>7, <1>8, <1>9 DEF IInv

\* The callback of fadeTo.
LEMMA FadedOutKeeps ==
  ASSUME IInv, FadedOut, UNCHANGED options
  PROVE  IInv' /\ sel' = sel /\ ui' = Chosen(sel)
<1>1. TypeOK /\ InView
  BY DEF IInv
<1>2. /\ fading /\ fading' = FALSE
      /\ view' = page /\ shown' = 0 .. page.count - 1 /\ behind' = FALSE
      /\ scroll' = IF scroll = "on" THEN "stale" ELSE scroll
      /\ ui' = Chosen(sel)
      /\ UNCHANGED <<options, page, sel, holding, told, quiet, crossed>>
  BY DEF FadedOut, PopulateData
<1>3. page.count - 1 \in Nat /\ sel \in SUBSET (0 .. page.count - 1)
  BY <1>1, Shape DEF TypeOK, Items
<1>4. ui' \subseteq shown'
  BY <1>2, <1>3, ChosenIs
<1>5. Items' = Items /\ Pages' = Pages /\ PagingOn' = PagingOn
  BY <1>2 DEF Items, Pages, PagingOn
<1>6. {fading', holding', behind', quiet', crossed'} \subseteq BOOLEAN
  <2>1. fading' \in BOOLEAN /\ holding' \in BOOLEAN /\ behind' \in BOOLEAN
        /\ quiet' \in BOOLEAN /\ crossed' \in BOOLEAN
    BY <1>1, <1>2, Shape
  <2> QED BY <2>1
<1>7. scroll' \in {"off", "on", "stale"}
  BY <1>1, <1>2 DEF TypeOK
<1>8. TypeOK'
  BY <1>1, <1>2, <1>4, <1>5, <1>6, <1>7 DEF TypeOK
<1>9. InView'
  BY <1>1, <1>2, <1>5 DEF InView
<1>10. SelectionAnnounced'
  BY <1>2 DEF IInv, SelectionAnnounced
<1> QED BY <1>2, <1>8, <1>9, <1>10 DEF IInv

\* The mouse and the timer.
Moves ==
  \/ \E S \in Gestures : Drag(S)
  \/ ListMouseDown \/ DocMouseUp \/ MouseLeave \/ MouseEnter \/ AutoScroll

LEMMA MovesKeep ==
  ASSUME IInv, Moves, UNCHANGED options
  PROVE  /\ IInv'
         /\ UNCHANGED <<page, sel, view, shown, fading, crossed>>
         /\ behind' \/ (behind' = behind /\ ui' = ui)
<1>1. TypeOK /\ holding \in BOOLEAN /\ behind \in BOOLEAN
  BY Shape DEF IInv
<1>2. ui \subseteq shown /\ scroll \in {"off", "on", "stale"}
  BY <1>1 DEF TypeOK
<1>3. ASSUME NEW S \in Gestures, Drag(S)
      PROVE  /\ ui' \subseteq shown /\ behind' = TRUE
             /\ UNCHANGED <<page, sel, view, shown, fading, holding, scroll, told, quiet, crossed>>
  BY <1>3 DEF Drag, Gestures
<1>4. ASSUME AutoScroll
      PROVE  /\ ui' \subseteq shown /\ behind' = TRUE
             /\ UNCHANGED <<page, sel, view, shown, fading, holding, scroll, told, quiet, crossed>>
  BY <1>2, <1>4 DEF AutoScroll, Pick
<1>5. ASSUME ListMouseDown \/ DocMouseUp \/ MouseLeave \/ MouseEnter
      PROVE  /\ UNCHANGED <<page, sel, ui, view, shown, fading, behind, told, quiet, crossed>>
             /\ scroll' \in {"off", "on", "stale"} /\ holding' \in BOOLEAN
  BY <1>1, <1>2, <1>5 DEF ListMouseDown, DocMouseUp, MouseLeave, MouseEnter, uiVars
<1>6. /\ ui' \subseteq shown
      /\ UNCHANGED <<page, sel, view, shown, fading, told, quiet, crossed>>
      /\ scroll' \in {"off", "on", "stale"} /\ holding' \in BOOLEAN
      /\ behind' = TRUE \/ (behind' = behind /\ ui' = ui)
  BY <1>1, <1>2, <1>3, <1>4, <1>5 DEF Moves
<1>7. behind' \in BOOLEAN
  BY <1>1, <1>6
<1>8. IInv'
  BY <1>6, <1>7, DragsKeep
<1> QED BY <1>6, <1>8

LEMMA InitIInv ==
  ASSUME Init
  PROVE  IInv
<1>1. /\ page.count - 1 \in Nat
      /\ page.selected \in SUBSET (0 .. page.count - 1)
  BY OptionSelectionAssumption DEF Init, Pages
<1>2. ui \subseteq Items
  BY <1>1, ChosenIs DEF Init, Items
<1>3. {fading, holding, behind, quiet, crossed} \subseteq BOOLEAN
  BY DEF Init
<1>4. TypeOK
  BY <1>1, <1>2, <1>3 DEF Init, TypeOK, Items
<1> QED BY <1>4 DEF Init, IInv, InView, SelectionAnnounced, Items

LEMMA NextIInv ==
  ASSUME IInv, [Next]_vars
  PROVE  IInv'
<1>1. CASE Next
  <2>1. UNCHANGED options
    BY <1>1 DEF Next
  <2>2. CASE Changes
    BY <2>1, <2>2, SelectionChangeKeeps DEF Changes
  <2>3. CASE Moves
    BY <2>1, <2>3, MovesKeep
  <2>4. CASE SelectsAll
    BY <2>1, <2>4, SelectsAllKeeps
  <2>5. ASSUME NEW f \in BOOLEAN, NEW ids \in SUBSET Items \ {{}}, Select(ids, f)
        PROVE  IInv'
    BY <2>1, <2>5, SelectKeeps
  <2>6. ASSUME NEW f \in BOOLEAN, NEW k \in Items, Unselect(k, f)
        PROVE  IInv'
    BY <2>1, <2>6, UnselectKeeps
  <2>7. ASSUME NEW f \in BOOLEAN, SelectAll(f) \/ UnselectAll(f)
        PROVE  IInv'
    BY <2>1, <2>7, SelectAllKeeps, UnselectAllKeeps
  <2>8. ASSUME NEW match \in SUBSET Items, ApplyClientFilter(match)
        PROVE  IInv'
    BY <2>1, <2>8, ApplyClientFilterKeeps
  <2>9. ASSUME NEW p \in Pages, Success(p)
        PROVE  IInv'
    BY <2>1, <2>9, SuccessKeeps
  <2>10. CASE FadedOut
    BY <2>1, <2>10, FadedOutKeeps
  <2> QED BY <1>1, <2>2, <2>3, <2>4, <2>5, <2>6, <2>7, <2>8, <2>9, <2>10 DEF Next, Moves
<1>2. CASE UNCHANGED vars
  BY <1>2 DEF vars, uiVars, mouseVars, IInv, TypeOK, InView, SelectionAnnounced, Items,
    Pages, PagingOn
<1> QED BY <1>1, <1>2

THEOREM Invariance == Spec => []IInv
<1>1. Init => IInv
  BY InitIInv
<1>2. IInv /\ [Next]_vars => IInv'
  BY NextIInv
<1> QED BY <1>1, <1>2, PTL DEF Spec

-----------------------------------------------------------------------------
(* What follows from it.                                                   *)

\* The variables keep their types: whatever a page that fades out lets the user
\* and the host page do, items and options stay those there are.
THEOREM TypeCorrect == Spec => []TypeOK
<1>1. IInv => TypeOK
  BY DEF IInv
<1> QED BY <1>1, Invariance, PTL

\* The host page knows the selection after any changes, calls, pages and client
\* filters, unless it asked not to be told or the user acted on a page that was
\* fading out.
THEOREM HostIsTold == Spec => []SelectionAnnounced
<1>1. IInv => SelectionAnnounced
  BY DEF IInv
<1> QED BY <1>1, Invariance, PTL

\* After a change event an exclusive item is selected alone among the items that
\* have an option, from every selection that calls, drags and pages can lead to.
THEOREM ExclusiveLeftAlone == Spec => ChangesLeaveExclusiveAlone
<1> DEFINE Left == LET l == sel' \cap shown
                   IN l \cap page.exclusive # {} => Cardinality(l) = 1
<1>1. IInv /\ [Next]_vars => [Changes /\ ~fading => Left]_vars
  <2> SUFFICES ASSUME IInv, [Next]_vars, ~UNCHANGED vars, ~fading,
                      NEW S \in Gestures, SelectionChange(S)
               PROVE  Left
    BY DEF Changes
  <2>1. UNCHANGED options
    BY DEF Next
  <2>2. Leaves(S) /\ sel' = (sel \ shown) \cup ui'
    BY <2>1, SelectionChangeKeeps
  <2>3. TypeOK /\ view = page
    BY DEF IInv, InView
  <2>4. S \in SUBSET shown
    BY DEF Gestures
  <2>5. view.count - 1 \in Nat /\ S \in SUBSET (0 .. view.count - 1)
    BY <2>3, <2>4, Shape DEF TypeOK
  <2>6. CASE \E first \in S : ui' = {first}
    <3>1. PICK first \in S : ui' = {first}
      BY <2>6
    <3>2. sel' \cap shown = {first}
      BY <2>2, <2>4, <3>1
    <3> QED BY <3>2, FS_Singleton
  <2>7. CASE ~Shared([sel |-> sel, ui |-> S]) /\ ui' = S
    <3>1. sel' \cap shown = S
      BY <2>2, <2>4, <2>7
    <3>2. S \cap view.exclusive = {} \/ ~(Cardinality(S) > 1)
      BY <2>7 DEF Shared
    <3>3. Cardinality(S) \in Nat /\ (Cardinality(S) = 0 <=> S = {})
      <4>1. IsFiniteSet(0 .. view.count - 1)
        BY <2>5, FS_Interval
      <4>2. IsFiniteSet(S)
        BY <2>5, <4>1, FS_Subset
      <4> QED BY <4>2, FS_CardinalityType, FS_EmptySet
    <3>4. ASSUME S \cap page.exclusive # {} PROVE Cardinality(S) = 1
      <4>1. ~(Cardinality(S) > 1) /\ S # {}
        BY <2>3, <3>2, <3>4
      <4> QED BY <3>3, <4>1
    <3> QED BY <3>1, <3>4
  <2> QED BY <2>2, <2>6, <2>7 DEF Leaves
<1> QED BY <1>1, Invariance, PTL DEF Spec, ChangesLeaveExclusiveAlone

\* A host page that sets up single selection sends pages with one item selected
\* or none.
SinglePages ==
  \A s \in Setups :
    ~s.multiSelect /\ s.pagingOn => \A p \in s.pages : Cardinality(p.selected) <= 1

OneOrNone == ~MultiSelect /\ PagingOn /\ ~crossed => \A i, j \in sel : i = j

\* Such a page has one item selected, or none.
LEMMA SinglePage ==
  ASSUME TypeOK, SinglePages, ~MultiSelect, PagingOn, NEW p \in Pages
  PROVE  \A i, j \in p.selected : i = j
<1>1. options \in Setups /\ ~options.multiSelect /\ options.pagingOn /\ p \in options.pages
  BY DEF TypeOK, MultiSelect, PagingOn, Pages
<1>2. Cardinality(p.selected) <= 1
  BY <1>1 DEF SinglePages
<1>3. p.count - 1 \in Nat /\ p.selected \in SUBSET (0 .. p.count - 1)
  BY Shape
<1> QED BY <1>2, <1>3, FewRows

\* What a step has to show: in single selection one item, and the options that
\* are selected are the items', so far as the user did not cross two pages.
Synced ==
  /\ ~MultiSelect /\ ~crossed' => \A i, j \in sel' : i = j
  /\ ~fading' /\ ~behind' /\ (MultiSelect \/ ~crossed') => ui' = sel'

LEMMA ChangesSync ==
  ASSUME IInv, PagingOn, Changes, UNCHANGED options
  PROVE  Synced
<1>1. PICK S \in Gestures : SelectionChange(S)
  BY DEF Changes
<1>2. UNCHANGED fading /\ crossed' = (crossed \/ fading)
  BY <1>1 DEF SelectionChange
<1> SUFFICES ASSUME ~fading PROVE Synced
  <2>1. CASE fading
    BY <1>2, <2>1 DEF Synced
  <2> QED BY <2>1
<1>3. TypeOK /\ shown = Items
  BY OptionsHaveItems DEF IInv
<1>4. Leaves(S) /\ sel' = (sel \ shown) \cup ui'
  BY <1>1, SelectionChangeKeeps
<1>5. sel' = ui'
  BY <1>3, <1>4 DEF TypeOK
<1>6. ASSUME ~MultiSelect PROVE \A i, j \in S : i = j
  <2>1. Cardinality(S) <= 1 /\ S \in SUBSET shown
    BY <1>6 DEF Gestures
  <2>2. page.count - 1 \in Nat /\ S \in SUBSET (0 .. page.count - 1)
    BY <1>3, <2>1, Shape DEF Items
  <2> QED BY <2>1, <2>2, FewRows
<1> QED BY <1>4, <1>5, <1>6 DEF Leaves, Synced

LEMMA SelectSyncs ==
  ASSUME IInv, PagingOn, NEW f \in BOOLEAN, NEW ids \in SUBSET Items \ {{}},
         Select(ids, f), UNCHANGED options
  PROVE  Synced
<1>1. (MultiSelect \/ Cardinality(sel') = 1) /\ sel' = ids /\ ui' = ids \cap shown
  BY SelectKeeps
<1>2. UNCHANGED fading
  BY DEF Select, HostChanges
<1>3. ASSUME ~fading PROVE ui' = sel'
  BY <1>1, <1>3, OptionsHaveItems DEF IInv
<1>4. ASSUME ~MultiSelect PROVE \A i, j \in ids : i = j
  <2>1. page.count - 1 \in Nat /\ ids \in SUBSET (0 .. page.count - 1)
    BY Shape DEF IInv, Items
  <2>2. Cardinality(ids) <= 1
    <3>1. Cardinality(ids) = 1
      BY <1>1, <1>4
    <3> QED BY <3>1
  <2> QED BY <2>1, <2>2, FewRows
<1> QED BY <1>1, <1>2, <1>3, <1>4 DEF Synced

LEMMA UnselectSyncs ==
  ASSUME IInv, OneOrNone, UiIsConfig, PagingOn, NEW f \in BOOLEAN, NEW k \in Items,
         Unselect(k, f), UNCHANGED options
  PROVE  Synced
<1>1. sel' = sel \ {k} /\ (~fading => ui' = ui \ {k})
  BY UnselectKeeps
<1>2. UNCHANGED <<fading, behind>> /\ crossed' = (crossed \/ fading)
  BY DEF Unselect, HostChanges
<1>3. ASSUME ~fading, ~behind, MultiSelect \/ ~crossed PROVE ui = sel
  <2>1. page.count - 1 \in Nat /\ sel \in SUBSET (0 .. page.count - 1)
    BY Shape DEF IInv, TypeOK, Items
  <2>2. ui = Chosen(sel)
    BY <1>3 DEF UiIsConfig
  <2>3. MultiSelect \/ \A i, j \in sel : i = j
    BY <1>3 DEF OneOrNone
  <2> QED BY <2>1, <2>2, <2>3, ChosenIs
<1>4. ASSUME ~MultiSelect, ~crossed' PROVE \A i, j \in sel' : i = j
  BY <1>1, <1>2, <1>4 DEF OneOrNone
<1> QED BY <1>1, <1>2, <1>3, <1>4 DEF Synced

\* A step keeps one item selected in single selection, and the options in step
\* with the items.
LEMMA NextSynced ==
  ASSUME IInv, SinglePages, OneOrNone, UiIsConfig, [Next]_vars
  PROVE  OneOrNone' /\ UiIsConfig'
<1>1. IInv'
  BY NextIInv
<1>2. CASE Next
  <2>1. UNCHANGED options /\ MultiSelect' = MultiSelect /\ PagingOn' = PagingOn
    BY <1>2 DEF Next, MultiSelect, PagingOn
  <2>2. Chosen(sel)' = Chosen(sel')
    BY <2>1 DEF Chosen
  <2> SUFFICES ASSUME PagingOn PROVE OneOrNone' /\ UiIsConfig'
    BY <2>1 DEF OneOrNone, UiIsConfig
  <2>3. ASSUME Synced PROVE OneOrNone' /\ UiIsConfig'
    <3>1. page'.count - 1 \in Nat /\ sel' \in SUBSET (0 .. page'.count - 1)
      <4>1. TypeOK'
        BY <1>1 DEF IInv
      <4>2. page' \in Pages
        BY <2>1, <4>1 DEF TypeOK, Pages
      <4>3. page'.count - 1 \in Nat
        BY <4>2, Shape DEF IInv
      <4> QED BY <4>1, <4>3 DEF TypeOK, Items
    <3>2. MultiSelect \/ ~crossed' => Chosen(sel') = sel'
      BY <2>3, <3>1, ChosenIs DEF Synced
    <3> QED BY <2>1, <2>2, <2>3, <3>2 DEF Synced, OneOrNone, UiIsConfig
  <2>4. CASE Changes
    BY <2>1, <2>3, <2>4, ChangesSync
  <2>5. CASE Moves
    BY <2>1, <2>2, <2>5, MovesKeep DEF OneOrNone, UiIsConfig
  <2>6. CASE SelectsAll
    <3>1. MultiSelect /\ (~fading => ui' = sel') /\ UNCHANGED fading
      BY <2>1, <2>6, SelectsAllKeeps DEF SelectsAll
    <3> QED BY <2>3, <3>1 DEF Synced
  <2>7. ASSUME NEW f \in BOOLEAN, NEW ids \in SUBSET Items \ {{}}, Select(ids, f)
        PROVE  Synced
    BY <2>1, <2>7, SelectSyncs
  <2>8. ASSUME NEW f \in BOOLEAN, NEW k \in Items, Unselect(k, f)
        PROVE  Synced
    BY <2>1, <2>8, UnselectSyncs
  <2>9. ASSUME NEW f \in BOOLEAN, SelectAll(f) PROVE Synced
    <3>1. (~MultiSelect => sel' = {0}) /\ (~fading => ui' = sel')
      BY <2>1, <2>9, SelectAllKeeps
    <3>2. UNCHANGED fading
      BY <2>9 DEF SelectAll, HostChanges
    <3> QED BY <3>1, <3>2 DEF Synced
  <2>10. ASSUME NEW f \in BOOLEAN, UnselectAll(f) PROVE Synced
    BY <2>1, <2>10, UnselectAllKeeps DEF Synced
  <2>11. ASSUME NEW p \in Pages, Success(p) PROVE OneOrNone' /\ UiIsConfig'
    <3>1. sel' = p.selected /\ (~fading' => ui' = Chosen(p.selected))
      BY <2>1, <2>11, SuccessKeeps
    <3>2. ~MultiSelect => \A i, j \in p.selected : i = j
      BY <2>11, SinglePage DEF IInv
    <3> QED BY <2>1, <2>2, <3>1, <3>2 DEF OneOrNone, UiIsConfig
  <2>12. CASE FadedOut
    <3>1. sel' = sel /\ ui' = Chosen(sel) /\ UNCHANGED crossed
      BY <2>1, <2>12, FadedOutKeeps DEF FadedOut
    <3> QED BY <2>1, <2>2, <3>1 DEF OneOrNone, UiIsConfig
  <2> QED BY <1>2, <2>3, <2>4, <2>5, <2>6, <2>7, <2>8, <2>9, <2>10, <2>11, <2>12
          DEF Next, Moves, ApplyClientFilter
<1>3. CASE UNCHANGED vars
  BY <1>3 DEF vars, uiVars, mouseVars, OneOrNone, UiIsConfig, Chosen, MultiSelect, PagingOn
<1> QED BY <1>2, <1>3

\* Both hold in every state.
LEMMA AlwaysSynced ==
  ASSUME SinglePages
  PROVE  Spec => [](IInv /\ OneOrNone /\ UiIsConfig)
<1>1. Init => OneOrNone /\ UiIsConfig
  <2> SUFFICES ASSUME Init PROVE OneOrNone /\ UiIsConfig
    OBVIOUS
  <2>1. UiIsConfig
    BY DEF Init, UiIsConfig
  <2>2. ASSUME ~MultiSelect, PagingOn PROVE \A i, j \in sel : i = j
    BY <2>2, InitIInv, SinglePage DEF Init, IInv
  <2> QED BY <2>1, <2>2 DEF OneOrNone
<1>2. (IInv /\ OneOrNone /\ UiIsConfig) /\ [Next]_vars => (OneOrNone /\ UiIsConfig)'
  BY NextSynced
<1> QED BY <1>1, <1>2, Invariance, PTL DEF Spec

\* With pages from the server of which those of a single selection come with one
\* item selected at most, the options the user sees selected are the items the
\* configuration has selected, once the browser has sent the change event of a
\* drag and no page is fading out.
THEOREM UserSeesConfig == SinglePages => (Spec => []UiIsConfig)
<1> SUFFICES ASSUME SinglePages PROVE Spec => []UiIsConfig
  OBVIOUS
<1> QED BY AlwaysSynced, PTL

\* And a single selection stays one: no clicks, calls and pages leave two items
\* selected, unless the user acted on a page that was fading out.
THEOREM OneItemAtMost == SinglePages => (Spec => []OneItemSelected)
<1> SUFFICES ASSUME SinglePages PROVE Spec => []OneItemSelected
  OBVIOUS
<1>1. IInv /\ OneOrNone => OneItemSelected
  <2> SUFFICES ASSUME IInv, OneOrNone, ~MultiSelect, PagingOn, ~crossed
               PROVE  Cardinality(sel) <= 1
    BY DEF OneItemSelected
  <2>1. page.count - 1 \in Nat /\ sel \in SUBSET (0 .. page.count - 1)
    BY Shape DEF IInv, TypeOK, Items
  <2>2. \A i, j \in sel : i = j
    BY DEF OneOrNone
  <2> QED BY <2>1, <2>2, FewRows
<1> QED BY <1>1, AlwaysSynced, PTL
=============================================================================
