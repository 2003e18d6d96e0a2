------------------------ MODULE ListSelection_proofs ------------------------
(***************************************************************************)
(* Proofs about the selection of the list, for any setups.                 *)
(***************************************************************************)
EXTENDS ListSelection, FiniteSetTheorems, WellFoundedInduction, TLAPS

-----------------------------------------------------------------------------
(* Sets of rows, numbered from 0.                                         *)

\* A set of rows has a first one.
LEMMA LeastRow ==
  ASSUME NEW n \in Nat, NEW S \in SUBSET (0 .. n), S # {}
  PROVE  \E i \in S : \A j \in S : i <= j
<1> DEFINE R == {ss \in Nat \X Nat : ss[1] < ss[2]}
<1>1. IsWellFoundedOn(R, Nat)
  BY NatLessThanWellFounded DEF OpToRel
<1>2. S \subseteq Nat /\ \A i, j \in S : <<j, i>> \in R <=> j < i
  OBVIOUS
<1> HIDE DEF R
<1>3. \E i \in S : \A j \in S : <<j, i>> \notin R
  BY <1>1, <1>2, WFMin
<1>4. \A i, j \in S : i <= j \/ j < i
  OBVIOUS
<1> QED BY <1>2, <1>3, <1>4

\* And a last one.
LEMMA GreatestRow ==
  ASSUME NEW n \in Nat, NEW S \in SUBSET (0 .. n), S # {}
  PROVE  \E i \in S : \A j \in S : j <= i
<1> DEFINE T == {n - i : i \in S}
<1>1. T \in SUBSET (0 .. n) /\ T # {}
  <2>1. \A i \in S : n - i \in 0 .. n
    OBVIOUS
  <2>2. T \in SUBSET (0 .. n)
    BY <2>1
  <2>3. T # {}
    OBVIOUS
  <2> QED BY <2>2, <2>3
<1>2. PICK k \in T : \A j \in T : k <= j
  <2> HIDE DEF T
  <2> QED BY <1>1, LeastRow
<1>3. PICK i \in S : k = n - i
  <2>1. k \in T
    BY <1>2
  <2> QED BY <2>1
<1>4. ASSUME NEW j \in S PROVE j <= i
  <2>1. n - j \in T
    OBVIOUS
  <2> QED BY <1>2, <1>3, <2>1
<1> QED BY <1>4

\* A set of rows has more than one of them or is empty or a singleton.
LEMMA FewRows ==
  ASSUME NEW n \in Nat, NEW S \in SUBSET (0 .. n)
  PROVE  /\ Cardinality(S) \in Nat
         /\ Cardinality(S) <= 1 <=> \A i, j \in S : i = j
<1>1. IsFiniteSet(0 .. n)
  BY FS_Interval
<1>2. IsFiniteSet(S) /\ Cardinality(S) \in Nat
  BY <1>1, FS_Subset, FS_CardinalityType
<1>3. Cardinality(S) = 0 <=> S = {}
  BY <1>2, FS_EmptySet
<1>4. Cardinality(S) = 1 <=> \E i : S = {i}
  BY <1>2, FS_Singleton
<1>5. (\A i, j \in S : i = j) <=> S = {} \/ \E i : S = {i}
  <2>1. ASSUME \A i, j \in S : i = j, NEW k \in S PROVE S = {k}
    BY <2>1
  <2> QED BY <2>1
<1> QED BY <1>2, <1>3, <1>4, <1>5

-----------------------------------------------------------------------------
(* What the helpers keep.                                                  *)

Lists == [sel : [Rows -> BOOLEAN], row : [Rows -> BOOLEAN], changed : BOOLEAN]

\* A list a gesture may lead to: it says so if an item changed, and what the
\* client filter hides is as it was.
Fair(l) ==
  /\ l \in Lists
  /\ l.sel # sel => l.changed
  /\ \A i \in hidden : l.sel[i] = sel[i] /\ l.row[i] = row[i]

\* The rows in S show what the configuration says.
Agree(l, S) == \A i \in S : l.row[i] = l.sel[i]

\* Every page has a row, and names only its own.
LEMMA Shape ==
  ASSUME TypeOK
  PROVE  /\ page.count \in Nat \ {0}
         /\ page.count - 1 \in Nat
         /\ Rows = 0 .. page.count - 1
         /\ page.exclusive \subseteq Rows
         /\ page.selected \subseteq Rows
         /\ hidden \subseteq Rows
         /\ MultiSelect \in BOOLEAN /\ PagingOn \in BOOLEAN
  BY ListSelectionAssumption DEF TypeOK, Rows, Pages, MultiSelect, PagingOn

LEMMA NowFair ==
  ASSUME TypeOK
  PROVE  Fair(Now) /\ Now.sel = sel /\ Now.row = row /\ Now.changed = FALSE
  BY DEF TypeOK, Fair, Lists, Now

\* Marking visible rows is fair.
LEMMA MarkedFair ==
  ASSUME TypeOK, NEW l, Fair(l), NEW flag \in BOOLEAN,
         NEW X \in SUBSET Visible, NEW Y \in SUBSET Visible
  PROVE  Fair(Marked(l, X, Y, flag))
<1> DEFINE m == Marked(l, X, Y, flag)
<1>1. l.sel \in [Rows -> BOOLEAN] /\ l.row \in [Rows -> BOOLEAN] /\ l.changed \in BOOLEAN
  BY DEF Fair, Lists
<1>2. m \in Lists
  BY <1>1 DEF Lists, Marked
<1>3. ASSUME ~m.changed PROVE m.sel = sel
  <2>1. l.sel = sel /\ \A i \in X : l.sel[i] = flag
    BY <1>3 DEF Fair, Marked
  <2> QED BY <1>1, <2>1 DEF Marked
<1>4. ASSUME NEW i \in hidden PROVE m.sel[i] = sel[i] /\ m.row[i] = row[i]
  <2>1. i \in Rows /\ i \notin X /\ i \notin Y
    BY DEF TypeOK, Visible
  <2> QED BY <2>1 DEF Marked, Fair
<1> HIDE DEF m
<1>5. Fair(m)
  BY <1>2, <1>3, <1>4 DEF Fair
<1> QED BY <1>5 DEF m

\* Any marking gives a list.
LEMMA MarkedType ==
  ASSUME NEW l \in Lists, NEW flag \in BOOLEAN, NEW X, NEW Y
  PROVE  Marked(l, X, Y, flag) \in Lists
<1>1. l.sel \in [Rows -> BOOLEAN] /\ l.row \in [Rows -> BOOLEAN] /\ l.changed \in BOOLEAN
  BY DEF Lists
<1>2. (l.changed \/ \E i \in X : l.sel[i] # flag) \in BOOLEAN
  BY <1>1
<1> QED BY <1>1, <1>2 DEF Lists, Marked

\* Rows and items marked alike agree as far as they did before, and where they
\* are marked.
LEMMA MarkedAgrees ==
  ASSUME NEW l, NEW flag, NEW X, NEW S \in SUBSET Rows, Agree(l, S \ X)
  PROVE  Agree(Marked(l, X, X, flag), S)
  BY DEF Agree, Marked

\* _selectOne of a visible row is fair and keeps what agrees.
LEMMA SelectOneKeeps ==
  ASSUME TypeOK, NEW l \in Lists, NEW i \in Visible, NEW flag \in BOOLEAN,
         NEW S \in SUBSET Rows, Agree(l, S)
  PROVE  /\ SelectOne(l, i, flag) \in Lists
         /\ Fair(l) => Fair(SelectOne(l, i, flag))
         /\ Agree(SelectOne(l, i, flag), S)
         /\ SelectOne(l, i, flag).sel = [j \in Rows |-> IF j = i THEN flag ELSE l.sel[j]]
<1>1. CASE l.sel[i] = flag
  <2>1. SelectOne(l, i, flag) = l
    BY <1>1 DEF SelectOne
  <2>2. l.sel = [j \in Rows |-> IF j = i THEN flag ELSE l.sel[j]]
    BY <1>1 DEF Lists
  <2> QED BY <2>1, <2>2
<1>2. CASE l.sel[i] # flag
  <2>1. SelectOne(l, i, flag) = Marked(l, {i}, {i}, flag)
    BY <1>2 DEF SelectOne
  <2>2. /\ Fair(l) => Fair(Marked(l, {i}, {i}, flag))
        /\ Marked(l, {i}, {i}, flag) \in Lists
    BY MarkedFair, MarkedType
  <2>3. Agree(l, S \ {i})
    BY DEF Agree
  <2>4. Agree(Marked(l, {i}, {i}, flag), S)
    BY <2>3, MarkedAgrees
  <2>5. Marked(l, {i}, {i}, flag).sel = [j \in Rows |-> IF j = i THEN flag ELSE l.sel[j]]
    BY DEF Marked
  <2> QED BY <2>1, <2>2, <2>4, <2>5
<1> QED BY <1>1, <1>2

\* _toggleOne
LEMMA ToggleOneKeeps ==
  ASSUME TypeOK, NEW i \in Visible, NEW S \in SUBSET Rows, Agree(Now, S)
  PROVE  Fair(ToggleOne(Now, i)) /\ Agree(ToggleOne(Now, i), S)
<1>1. i \in Rows /\ i \notin hidden
  BY DEF Visible
<1>2. Fair(ToggleOne(Now, i))
  BY <1>1 DEF TypeOK, Fair, Lists, Now, ToggleOne
<1>3. Agree(ToggleOne(Now, i), S)
  BY <1>1 DEF TypeOK, Agree, Now, ToggleOne
<1> QED BY <1>2, <1>3

\* :eq finds the row itself while no row is hidden, and never finds None.
LEMMA EqIs ==
  ASSUME TypeOK
  PROVE  /\ Eq(Visible, None) = {}
         /\ hidden = {} => \A k \in Rows : Eq(Visible, k) = {k}
<1>1. page.count - 1 \in Nat /\ Rows = 0 .. page.count - 1
  BY Shape
<1>2. ASSUME NEW i \in Visible PROVE Cardinality({j \in Visible : j < i}) \in Nat
  <2>1. IsFiniteSet(0 .. page.count - 1)
    BY <1>1, FS_Interval
  <2>2. {j \in Visible : j < i} \in SUBSET (0 .. page.count - 1)
    BY <1>1 DEF Visible
  <2> QED BY <2>1, <2>2, FS_Subset, FS_CardinalityType
<1>3. Eq(Visible, None) = {}
  BY <1>2, ListSelectionAssumption DEF Eq
<1>4. ASSUME hidden = {}, NEW k \in Rows PROVE Eq(Visible, k) = {k}
  <2>1. Visible = Rows
    BY <1>4 DEF Visible
  <2>2. ASSUME NEW i \in Rows PROVE Cardinality({j \in Visible : j < i}) = i
    <3>1. i \in Nat /\ i <= page.count - 1
      BY <1>1
    <3>2. {j \in Visible : j < i} = 0 .. i - 1
      BY <1>1, <2>1, <3>1
    <3>3. Cardinality(0 .. i - 1) = IF 0 > i - 1 THEN 0 ELSE (i - 1) - 0 + 1
      BY <3>1, FS_Interval
    <3>4. Cardinality(0 .. i - 1) = i
      BY <3>1, <3>3
    <3> QED BY <3>2, <3>4
  <2> QED BY <2>1, <2>2 DEF Eq
<1> QED BY <1>3, <1>4

\* _selectAllVisible is fair; sparing no row, or while no row is hidden, it
\* marks the same rows and items.
LEMMA SelectAllVisibleIs ==
  ASSUME TypeOK, NEW l, Fair(l), NEW flag \in BOOLEAN, NEW except
  PROVE  /\ Fair(SelectAllVisible(l, flag, except))
         /\ except = None =>
              SelectAllVisible(l, flag, except) = Marked(l, Visible, Visible, flag)
         /\ hidden = {} /\ except \in Rows =>
              SelectAllVisible(l, flag, except)
                = Marked(l, Visible \ {except}, Visible \ {except}, flag)
<1>1. Fair(Marked(l, Visible \ {except}, Visible \ Eq(Visible, except), flag))
  BY MarkedFair
<1>2. None \notin Visible
  BY ListSelectionAssumption, Shape DEF Visible
<1>3. ASSUME except = None
      PROVE  Visible \ {except} = Visible /\ Visible \ Eq(Visible, except) = Visible
  BY <1>2, <1>3, EqIs
<1>4. ASSUME hidden = {}, except \in Rows
      PROVE  Visible \ Eq(Visible, except) = Visible \ {except}
  BY <1>4, EqIs
<1> QED BY <1>1, <1>3, <1>4 DEF SelectAllVisible

\* Extending is fair, and with an anchor on the page marks rows as items.
LEMMA ExtendKeeps ==
  ASSUME TypeOK, NEW l, Fair(l), NEW i, NEW a,
         NEW S \in SUBSET Rows, Agree(l, S)
  PROVE  /\ Fair(Extend(l, i, a))
         /\ ~Throws(a) => Agree(Extend(l, i, a), S)
<1> DEFINE lo == IF i <= a THEN i ELSE a
           hi == IF i <= a THEN a ELSE i
           inside == {j \in Visible : lo <= j /\ j <= hi}
           below == {j \in Visible : j < lo}
           above == {j \in Visible : j > hi}
           thrown == Marked(Marked(l, below, below, FALSE), inside, {}, TRUE)
           done == Marked(Marked(l, below \cup above, below \cup above, FALSE),
                          inside, inside, TRUE)
<1>1. Extend(l, i, a) = IF Throws(a) THEN thrown ELSE done
  BY DEF Extend
<1>2. inside \in SUBSET Visible /\ below \in SUBSET Visible
      /\ below \cup above \in SUBSET Visible /\ {} \in SUBSET Visible
  OBVIOUS
<1> HIDE DEF inside, below, above
<1>3. Fair(Marked(l, below, below, FALSE)) /\ Fair(thrown)
  BY <1>2, MarkedFair
<1>4. Fair(Marked(l, below \cup above, below \cup above, FALSE)) /\ Fair(done)
  BY <1>2, MarkedFair
<1>5. Agree(done, S)
  <2>1. Agree(l, S \ (below \cup above))
    BY DEF Agree
  <2>2. Agree(Marked(l, below \cup above, below \cup above, FALSE), S)
    BY <2>1, MarkedAgrees
  <2>3. Agree(Marked(l, below \cup above, below \cup above, FALSE), S \ inside)
    BY <2>2 DEF Agree
  <2> QED BY <2>3, MarkedAgrees
<1> QED BY <1>1, <1>3, <1>4, <1>5

Alone(s) == \A i \in Selected(s) \cap page.exclusive : Selected(s) = {i}

\* _unselectExclusiveItems is fair, keeps what agrees, and where all rows are
\* visible and show their items, leaves an exclusive item selected alone and
\* selects nothing that was not.
LEMMA UnselectExclusiveItemsIs ==
  ASSUME TypeOK, NEW l \in Lists, NEW S \in SUBSET Rows, Agree(l, S)
  PROVE  /\ UnselectExclusiveItems(l) \in Lists
         /\ Fair(l) => Fair(UnselectExclusiveItems(l))
         /\ Agree(UnselectExclusiveItems(l), S)
         /\ hidden = {} /\ S = Rows =>
              /\ Alone(UnselectExclusiveItems(l).sel)
              /\ Selected(UnselectExclusiveItems(l).sel) \subseteq Selected(l.sel)
<1> DEFINE chosen == {i \in Visible : l.row[i]}
           exclusive == chosen \cap page.exclusive
           first == CHOOSE i \in exclusive : \A j \in exclusive : i <= j
           off == {i \in chosen : l.sel[i]}
           cleared == Marked(l, off, off, FALSE)
           one == SelectOne(cleared, first, TRUE)
<1>1. UnselectExclusiveItems(l)
        = IF exclusive # {} /\ Cardinality(chosen) > 1
          THEN [one EXCEPT !.changed = TRUE] ELSE l
  BY DEF UnselectExclusiveItems
<1>2. page.count - 1 \in Nat /\ Rows = 0 .. page.count - 1
  BY Shape
<1>3. chosen \in SUBSET Visible /\ exclusive \in SUBSET Visible /\ off \in SUBSET Visible
      /\ Visible \in SUBSET Rows
  BY DEF Visible
<1>4. l.sel \in [Rows -> BOOLEAN] /\ l.row \in [Rows -> BOOLEAN]
  BY DEF Lists
<1>5. ASSUME hidden = {}, S = Rows
      PROVE  chosen = Selected(l.sel) /\ off = chosen
  <2>1. Visible = Rows /\ DOMAIN l.sel = Rows
    BY <1>4, <1>5 DEF Visible
  <2> QED BY <1>5, <2>1 DEF Agree, Selected
<1>6. CASE exclusive # {} /\ Cardinality(chosen) > 1
  <2>1. first \in exclusive
    <3>1. exclusive \in SUBSET (0 .. page.count - 1)
      BY <1>2, <1>3
    <3>2. \E i \in exclusive : \A j \in exclusive : i <= j
      <4> HIDE DEF exclusive
      <4> QED BY <1>2, <1>6, <3>1, LeastRow
    <3> HIDE DEF exclusive
    <3> QED BY <3>2
  <2>2. first \in Visible
    BY <1>3, <2>1
  <2> HIDE DEF first, off, exclusive
  <2>3. cleared \in Lists /\ (Fair(l) => Fair(cleared))
    BY <1>3, MarkedFair, MarkedType
  <2>4. Agree(cleared, S)
    <3>1. Agree(l, S \ off)
      BY DEF Agree
    <3> QED BY <3>1, MarkedAgrees
  <2>5. cleared.sel = [j \in Rows |-> IF j \in off THEN FALSE ELSE l.sel[j]]
    BY DEF Marked
  <2> HIDE DEF cleared
  <2>6. /\ one \in Lists /\ (Fair(l) => Fair(one)) /\ Agree(one, S)
        /\ one.sel = [j \in Rows |-> IF j = first THEN TRUE ELSE cleared.sel[j]]
    BY <2>2, <2>3, <2>4, SelectOneKeeps
  <2> HIDE DEF one
  <2>7. UnselectExclusiveItems(l) = [one EXCEPT !.changed = TRUE]
    BY <1>1, <1>6
  <2>8. /\ UnselectExclusiveItems(l) \in Lists
        /\ UnselectExclusiveItems(l).sel = one.sel
        /\ UnselectExclusiveItems(l).row = one.row
        /\ UnselectExclusiveItems(l).changed = TRUE
    BY <2>6, <2>7 DEF Lists
  <2>9. (Fair(l) => Fair(UnselectExclusiveItems(l))) /\ Agree(UnselectExclusiveItems(l), S)
    BY <2>6, <2>8 DEF Fair, Agree
  <2>10. ASSUME hidden = {}, S = Rows
         PROVE  /\ Alone(UnselectExclusiveItems(l).sel)
                /\ Selected(UnselectExclusiveItems(l).sel) \subseteq Selected(l.sel)
    <3>0. first \in Selected(l.sel)
      BY <1>5, <2>1, <2>10 DEF exclusive
    <3>1. \A j \in Rows : ~cleared.sel[j]
      <4>1. off = {i \in Rows : l.sel[i]}
        BY <1>4, <1>5, <2>10 DEF Selected
      <4> QED BY <2>5, <4>1
    <3>2. Selected(one.sel) = {first}
      BY <1>3, <2>2, <2>6, <3>1 DEF Selected
    <3> QED BY <2>8, <3>0, <3>2 DEF Alone
  <2> QED BY <2>8, <2>9, <2>10
<1>7. CASE ~(exclusive # {} /\ Cardinality(chosen) > 1)
  <2>1. UnselectExclusiveItems(l) = l
    BY <1>1, <1>7
  <2>2. ASSUME hidden = {}, S = Rows, NEW i \in Selected(l.sel) \cap page.exclusive
        PROVE  Selected(l.sel) = {i}
    <3>1. i \in exclusive /\ i \in chosen /\ chosen = Selected(l.sel)
      BY <1>5, <2>2
    <3>2. chosen \in SUBSET (0 .. page.count - 1)
      BY <1>2, <1>3
    <3> HIDE DEF chosen
    <3>3. Cardinality(chosen) \in Nat /\ (Cardinality(chosen) <= 1 <=> \A j, k \in chosen : j = k)
      BY <1>2, <3>2, FewRows
    <3>4. ~(Cardinality(chosen) > 1)
      BY <1>7, <3>1
    <3>5. Cardinality(chosen) <= 1
      BY <3>3, <3>4
    <3> QED BY <3>1, <3>3, <3>5
  <2> QED BY <2>1, <2>2 DEF Alone
<1> QED BY <1>6, <1>7

LEMMA UnselectExclusiveItemsKeeps ==
  ASSUME TypeOK, NEW l, Fair(l), NEW S \in SUBSET Rows, Agree(l, S)
  PROVE  /\ Fair(UnselectExclusiveItems(l))
         /\ Agree(UnselectExclusiveItems(l), S)
         /\ hidden = {} /\ S = Rows =>
              /\ Alone(UnselectExclusiveItems(l).sel)
              /\ Selected(UnselectExclusiveItems(l).sel) \subseteq Selected(l.sel)
<1>1. l \in Lists
  BY DEF Fair
<1> QED BY <1>1, UnselectExclusiveItemsIs

\* Selecting one row alone.
LEMMA SelectOnlyKeeps ==
  ASSUME TypeOK, NEW i \in Visible
  PROVE  /\ Fair(SelectOnly(i))
         /\ hidden = {} /\ Agree(Now, Rows) => Agree(SelectOnly(i), Rows)
         /\ hidden = {} => Selected(SelectOnly(i).sel) = {i}
<1> DEFINE l == SelectAllVisible(Now, FALSE, i)
<1>1. i \in Rows
  BY DEF Visible
<1>2. Fair(l)
  BY NowFair, SelectAllVisibleIs
<1>3. hidden = {} => l = Marked(Now, Visible \ {i}, Visible \ {i}, FALSE)
  BY <1>1, NowFair, SelectAllVisibleIs
<1>4. SelectOnly(i) = SelectOne(l, i, TRUE)
  BY DEF SelectOnly
<1> HIDE DEF l
<1>5. Agree(l, {})
  BY DEF Agree
<1>l. l \in Lists
  BY <1>2 DEF Fair
<1>6. Fair(SelectOne(l, i, TRUE))
      /\ SelectOne(l, i, TRUE).sel = [j \in Rows |-> IF j = i THEN TRUE ELSE l.sel[j]]
  BY <1>2, <1>l, <1>5, SelectOneKeeps
<1>7. ASSUME hidden = {}, Agree(Now, Rows) PROVE Agree(SelectOnly(i), Rows)
  <2>1. Agree(Now, Rows \ (Visible \ {i}))
    BY <1>7 DEF Agree
  <2>2. Agree(Marked(Now, Visible \ {i}, Visible \ {i}, FALSE), Rows)
    BY <2>1, MarkedAgrees
  <2>3. Agree(l, Rows)
    BY <1>3, <1>7, <2>2
  <2>4. Agree(SelectOne(l, i, TRUE), Rows)
    BY <1>l, <2>3, SelectOneKeeps
  <2> QED BY <1>4, <2>4
<1>8. ASSUME hidden = {} PROVE Selected(SelectOnly(i).sel) = {i}
  <2>1. \A j \in Rows : j # i => ~l.sel[j]
    <3>1. l.sel = [j \in Rows |-> IF j \in Visible \ {i} THEN FALSE ELSE Now.sel[j]]
      <4>1. Marked(Now, Visible \ {i}, Visible \ {i}, FALSE).sel
              = [j \in Rows |-> IF j \in Visible \ {i} THEN FALSE ELSE Now.sel[j]]
        BY DEF Marked
      <4> QED BY <1>3, <1>8, <4>1
    <3> QED BY <1>8, <3>1 DEF Visible
  <2> QED BY <1>1, <1>4, <1>6, <2>1 DEF Selected
<1> QED BY <1>4, <1>6, <1>7, <1>8

\* What Ctrl and Space make of the list.
Toggled(i) ==
  LET toggled == [Now EXCEPT !.row[i] = ~@]
      alone == IF i \in page.exclusive
               THEN SelectAllVisible(toggled, FALSE, i)
               ELSE UnselectExclusiveItems(toggled)
  IN SelectItem(alone, i, alone.row[i])

\* The row is toggled before its item, and the item written last: all others
\* agree in between, and this one in the end.
LEMMA ToggledKeeps ==
  ASSUME TypeOK, NEW i \in Visible
  PROVE  /\ Fair(Toggled(i))
         /\ hidden = {} /\ Agree(Now, Rows) => Agree(Toggled(i), Rows)
<1> DEFINE toggled == [Now EXCEPT !.row[i] = ~@]
           alone == IF i \in page.exclusive
                    THEN SelectAllVisible(toggled, FALSE, i)
                    ELSE UnselectExclusiveItems(toggled)
<1>1. i \in Rows /\ i \notin hidden
  BY DEF Visible
<1>2. Toggled(i) = Marked(alone, {i}, {}, alone.row[i])
  BY DEF Toggled, SelectItem
<1>3. /\ toggled.sel = sel
      /\ toggled.row = [row EXCEPT ![i] = ~@]
      /\ toggled.changed = FALSE
      /\ toggled = [sel |-> sel, row |-> [row EXCEPT ![i] = ~@], changed |-> FALSE]
  <2> DEFINE flipped == [row EXCEPT ![i] = ~@]
  <2>1. Now.row = row
    BY DEF Now
  <2>2. toggled = [Now EXCEPT !.row = flipped]
    BY <2>1
  <2> HIDE DEF toggled, flipped
  <2>3. /\ toggled.sel = sel
        /\ toggled.row = flipped
        /\ toggled.changed = FALSE
        /\ toggled = [sel |-> sel, row |-> flipped, changed |-> FALSE]
    BY <2>2 DEF Now
  <2> QED BY <2>3 DEF flipped
<1> HIDE DEF toggled
<1>4. toggled \in Lists
  BY <1>3 DEF Lists, TypeOK
<1>5. Fair(toggled)
  BY <1>1, <1>3, <1>4 DEF Fair, TypeOK
<1>6. Agree(toggled, {})
  BY DEF Agree
<1>7. Fair(alone)
  BY <1>5, <1>6, SelectAllVisibleIs, UnselectExclusiveItemsKeeps
<1>8. ASSUME hidden = {}, Agree(Now, Rows) PROVE Agree(alone, Rows \ {i})
  <2>1. Agree(toggled, Rows \ {i})
    BY <1>3, <1>8 DEF Agree, Now, TypeOK
  <2>2. CASE i \in page.exclusive
    <3>1. alone = Marked(toggled, Visible \ {i}, Visible \ {i}, FALSE)
      BY <1>1, <1>5, <1>8, <2>2, SelectAllVisibleIs
    <3>2. Agree(toggled, (Rows \ {i}) \ (Visible \ {i}))
      BY <2>1 DEF Agree
    <3> HIDE DEF alone
    <3>3. Agree(Marked(toggled, Visible \ {i}, Visible \ {i}, FALSE), Rows \ {i})
      <4> DEFINE X == Visible \ {i}
                 S == Rows \ {i}
      <4>1. S \in SUBSET Rows /\ Agree(toggled, S \ X)
        BY <3>2
      <4> HIDE DEF X, S
      <4>2. Agree(Marked(toggled, X, X, FALSE), S)
        BY <4>1, MarkedAgrees
      <4> QED BY <4>2 DEF X, S
    <3> QED BY <3>1, <3>3
  <2>3. CASE i \notin page.exclusive
    BY <1>5, <2>1, <2>3, UnselectExclusiveItemsKeeps
  <2> QED BY <2>2, <2>3
<1> HIDE DEF alone
<1>9. alone.row[i] \in BOOLEAN
  BY <1>1, <1>7 DEF Fair, Lists
<1>10. Fair(Toggled(i))
  BY <1>2, <1>7, <1>9, MarkedFair
<1>11. ASSUME hidden = {}, Agree(Now, Rows) PROVE Agree(Toggled(i), Rows)
  BY <1>1, <1>2, <1>8, <1>11 DEF Agree, Marked
<1> QED BY <1>10, <1>11

\* Shift and click anchor the selection at a row of the page.
LEMMA AnchorForIsRow ==
  ASSUME TypeOK, NEW i \in Visible
  PROVE  AnchorFor(i) \in Rows
<1> DEFINE chosen == {j \in Visible \ {i} : row[j]}
           Distance(j) == IF j < i THEN i - j ELSE j - i
           farthest == {j \in chosen : \A k \in chosen : Distance(k) <= Distance(j)}
<1>1. AnchorFor(i) = IF chosen = {} THEN i
                     ELSE CHOOSE j \in farthest : \A k \in farthest : k <= j
  BY DEF AnchorFor
<1>2. page.count - 1 \in Nat /\ Rows = 0 .. page.count - 1 /\ i \in Rows
  BY Shape DEF Visible
<1>3. chosen \in SUBSET (0 .. page.count - 1) /\ farthest \in SUBSET (0 .. page.count - 1)
  BY <1>2 DEF Visible
<1>4. CASE chosen # {}
  <2> DEFINE D == {Distance(j) : j \in chosen}
  <2>1. \A j \in chosen : Distance(j) \in 0 .. page.count - 1
    BY <1>2, <1>3
  <2>2. D \in SUBSET (0 .. page.count - 1)
    <3> HIDE DEF Distance, chosen
    <3> QED BY <2>1
  <2>3. D # {}
    BY <1>4
  <2>4. PICK d \in D : \A e \in D : e <= d
    <3> HIDE DEF D
    <3> QED BY <1>2, <2>2, <2>3, GreatestRow
  <2>5. PICK j \in chosen : d = Distance(j)
    <3>1. d \in D
      BY <2>4
    <3> HIDE DEF Distance, chosen
    <3> QED BY <3>1
  <2>6. \A k \in chosen : Distance(k) \in D
    <3> HIDE DEF Distance, chosen
    <3> QED OBVIOUS
  <2>7. j \in farthest
    <3> HIDE DEF Distance, chosen, D
    <3> QED BY <2>4, <2>5, <2>6
  <2> HIDE DEF farthest
  <2>8. \E m \in farthest : \A k \in farthest : k <= m
    BY <1>2, <1>3, <2>7, GreatestRow
  <2> QED BY <1>1, <1>2, <1>3, <1>4, <2>8
<1> QED BY <1>1, <1>2, <1>4

-----------------------------------------------------------------------------
(* The inductive invariant.                                                *)

\* Only a list without paging hides rows, and only one with paging has pages
\* replaced under an anchor.
Hiding == (PagingOn => hidden = {}) /\ (~PagingOn => ~stale)

AnchorOnPage == ~stale /\ anchor # None => ~Throws(anchor)

\* Hidden rows show their items; all rows do, while none is hidden and no
\* anchor of another page makes an extension throw, which single selection
\* never tries.
InStep == hidden = {} /\ (~stale \/ ~MultiSelect)

Settled(l) ==
  /\ l \in Lists
  /\ Agree(l, hidden)
  /\ InStep => Agree(l, Rows)

\* Nothing is held back but during a drag, and the host page knows the
\* selection unless something is held back.
Telling ==
  /\ changed => holding
  /\ ~changed /\ ~stale => told = Selected(sel)

IInv == TypeOK /\ Hiding /\ AnchorOnPage /\ Settled(Now) /\ Telling

\* A fair list is settled if its rows show its items.
LEMMA FairSettles ==
  ASSUME IInv, NEW l, Fair(l), InStep => Agree(l, Rows)
  PROVE  Settled(l)
<1>1. Agree(l, hidden)
  BY DEF IInv, Settled, Agree, Fair, Now
<1> QED BY <1>1 DEF Settled, Fair

\* A handler that puts a settled list on the same page keeps the invariant, if
\* the anchor stays on the page and the host page is told.
LEMMA PutsKeeps ==
  ASSUME IInv, NEW l, Settled(l), sel' = l.sel, row' = l.row,
         UNCHANGED <<options, page, hidden, stale>>,
         anchor' \in Nat \cup {None}, holding' \in BOOLEAN, changed' \in BOOLEAN,
         told' \subseteq Nat, AnchorOnPage', Telling'
  PROVE  IInv'
<1>1. Rows' = Rows /\ MultiSelect' = MultiSelect /\ PagingOn' = PagingOn
  BY DEF Rows, MultiSelect, PagingOn
<1>2. TypeOK'
  BY <1>1 DEF IInv, TypeOK, Settled, Lists, Pages
<1>3. Hiding'
  BY <1>1 DEF IInv, Hiding
<1>4. Settled(Now)'
  <2>1. Now' \in Lists'
    BY <1>1, <1>2 DEF Now, TypeOK, Lists
  <2>2. Now.sel' = l.sel /\ Now.row' = l.row
    BY DEF Now
  <2>3. InStep' = InStep
    BY <1>1 DEF InStep
  <2> QED BY <1>1, <2>1, <2>2, <2>3 DEF Settled, Agree
<1> QED BY <1>2, <1>3, <1>4 DEF IInv

\* A selection is a set of numbers.
LEMMA SelectedType ==
  ASSUME TypeOK, NEW l \in Lists
  PROVE  Selected(l.sel) \subseteq Nat
  BY Shape DEF Lists, Selected

\* A handler that ends with _fireChanged tells the host page, or holds it back
\* while the mouse button is down.
LEMMA BecomesKeeps ==
  ASSUME IInv, NEW l, Fair(l), InStep => Agree(l, Rows), NEW held \in BOOLEAN,
         Becomes(l, held), UNCHANGED <<options, page, hidden, stale>>,
         anchor' \in Nat \cup {None}, holding' \in BOOLEAN,
         held => holding', holding => holding', AnchorOnPage'
  PROVE  IInv' /\ \A j \in hidden : sel'[j] = sel[j]
<1>1. l \in Lists /\ l.changed \in BOOLEAN /\ (~l.changed => l.sel = sel)
  BY DEF Fair, Lists
<1>2. /\ sel' = l.sel /\ row' = l.row
      /\ told' = IF l.changed /\ ~held THEN Selected(l.sel) ELSE told
      /\ changed' = (changed \/ (l.changed /\ held))
  BY DEF Becomes
<1>3. changed \in BOOLEAN /\ changed' \in BOOLEAN
  BY <1>1, <1>2 DEF IInv, TypeOK
<1>4. told' \subseteq Nat
  BY <1>1, <1>2, SelectedType DEF IInv, TypeOK
<1>5. Telling'
  <2>1. changed' => holding'
    BY <1>2 DEF IInv, Telling
  <2>2. ASSUME ~changed', ~stale' PROVE told' = Selected(sel')
    <3>1. ~changed /\ ~(l.changed /\ held) /\ told = Selected(sel)
      BY <1>2, <2>2 DEF IInv, Telling
    <3> QED BY <1>1, <1>2, <3>1
  <2> QED BY <2>1, <2>2 DEF Telling, Selected
<1>6. Settled(l)
  BY FairSettles
<1>7. \A j \in hidden : sel'[j] = sel[j]
  BY <1>2 DEF Fair
<1> QED BY <1>2, <1>3, <1>4, <1>5, <1>6, <1>7, PutsKeeps

\* An extension that throws does so on a page that replaced the anchor's.
LEMMA ThrowingKeeps ==
  ASSUME IInv, NEW i, NEW a, MultiSelect, stale,
         BecomesSilently(Extend(Now, i, a)), UNCHANGED <<options, page, hidden, stale>>,
         anchor' \in Nat \cup {None}, holding' \in BOOLEAN, holding => holding'
  PROVE  IInv' /\ \A j \in hidden : sel'[j] = sel[j]
<1> DEFINE l == Extend(Now, i, a)
<1>1. Fair(l)
  <2>1. Agree(Now, {})
    BY DEF Agree
  <2> QED BY <2>1, NowFair, ExtendKeeps DEF IInv
<1>2. sel' = l.sel /\ row' = l.row /\ UNCHANGED <<told, changed>>
  BY DEF BecomesSilently
<1> HIDE DEF l
<1>3. Settled(l)
  BY <1>1, FairSettles DEF InStep
<1>4. AnchorOnPage' /\ Telling'
  BY <1>2 DEF AnchorOnPage, Telling, IInv
<1>5. changed' \in BOOLEAN /\ told' \subseteq Nat
  BY <1>2 DEF IInv, TypeOK
<1>6. \A j \in hidden : sel'[j] = sel[j]
  BY <1>1, <1>2 DEF Fair
<1> QED BY <1>2, <1>3, <1>4, <1>5, <1>6, PutsKeeps

\* Whatever the mouse does to a visible row.
LEMMA HandleSelectMouseKeeps ==
  ASSUME IInv, NEW i \in Visible, NEW ctrl \in BOOLEAN, NEW a,
         a # None /\ Throws(a) => stale,
         HandleSelectMouse(i, ctrl, a, TRUE), UNCHANGED <<options, page, hidden, stale>>,
         anchor' \in Nat \cup {None}, holding' = TRUE, AnchorOnPage'
  PROVE  IInv' /\ \A j \in hidden : sel'[j] = sel[j]
<1>0. TypeOK /\ Fair(Now) /\ (InStep => Agree(Now, Rows))
  BY NowFair DEF IInv, Settled
<1>e. Agree(Now, {})
  BY DEF Agree
<1>1. CASE MultiSelect /\ ctrl /\ Becomes(ToggleOne(Now, i), TRUE)
  <2>1. Fair(ToggleOne(Now, i)) /\ (InStep => Agree(ToggleOne(Now, i), Rows))
    BY <1>0, <1>e, ToggleOneKeeps
  <2> QED BY <1>1, <2>1, BecomesKeeps
<1>2. CASE MultiSelect /\ ~ctrl /\ a # None /\ ~Throws(a) /\ Becomes(Extend(Now, i, a), TRUE)
  <2>1. Fair(Extend(Now, i, a)) /\ (InStep => Agree(Extend(Now, i, a), Rows))
    BY <1>0, <1>e, <1>2, ExtendKeeps
  <2> QED BY <1>2, <2>1, BecomesKeeps
<1>3. CASE MultiSelect /\ ~ctrl /\ a # None /\ Throws(a)
           /\ BecomesSilently(Extend(Now, i, a))
  BY <1>3, ThrowingKeeps
<1>4. CASE MultiSelect /\ ~ctrl /\ a = None /\ UNCHANGED <<sel, row, told, changed>>
  <2>1. Becomes(Now, TRUE)
    BY <1>4, NowFair DEF IInv, TypeOK, Becomes, Now
  <2> QED BY <1>0, <2>1, BecomesKeeps
<1>5. CASE ~MultiSelect /\ Becomes(SelectOnly(i), TRUE)
  <2>1. Fair(SelectOnly(i)) /\ (InStep => Agree(SelectOnly(i), Rows))
    BY <1>0, SelectOnlyKeeps DEF InStep
  <2> QED BY <1>5, <2>1, BecomesKeeps
<1> QED BY <1>1, <1>2, <1>3, <1>4, <1>5 DEF HandleSelectMouse

LEMMA ItemMouseDownKeeps ==
  ASSUME IInv, NEW i, NEW shift \in BOOLEAN, NEW ctrl \in BOOLEAN,
         ItemMouseDown(i, shift, ctrl), UNCHANGED options
  PROVE  IInv' /\ \A j \in hidden : sel'[j] = sel[j]
<1>1. /\ i \in Visible
      /\ holding' = TRUE
      /\ anchor' = IF shift THEN AnchorFor(i) ELSE i
      /\ HandleSelectMouse(i, ctrl, anchor', TRUE)
      /\ UNCHANGED <<page, hidden, stale>>
  BY DEF ItemMouseDown
<1>2. anchor' \in Rows
  BY <1>1, AnchorForIsRow DEF IInv, Visible
<1>3. anchor' \in Nat /\ ~Throws(anchor') /\ ~Throws(anchor)'
  BY <1>1, <1>2, Shape DEF IInv, Throws
<1> QED BY <1>1, <1>3, HandleSelectMouseKeeps DEF AnchorOnPage

LEMMA ItemMouseEnterKeeps ==
  ASSUME IInv, NEW i, NEW ctrl \in BOOLEAN, ItemMouseEnter(i, ctrl), UNCHANGED options
  PROVE  IInv' /\ \A j \in hidden : sel'[j] = sel[j]
<1>1. /\ i \in Visible /\ holding
      /\ HandleSelectMouse(i, ctrl, anchor, TRUE)
      /\ UNCHANGED <<page, hidden, anchor, holding, stale>>
  BY DEF ItemMouseEnter
<1>2. AnchorOnPage' /\ (anchor # None /\ Throws(anchor) => stale)
  BY <1>1 DEF IInv, AnchorOnPage, Throws
<1>3. anchor' \in Nat \cup {None} /\ holding' = TRUE
  BY <1>1 DEF IInv, TypeOK
<1> QED BY <1>1, <1>2, <1>3, HandleSelectMouseKeeps

\* _finishSelection, also leaving an exclusive item alone.
LEMMA FinishSelectionKeeps ==
  ASSUME IInv, FinishSelection, UNCHANGED options
  PROVE  /\ IInv'
         /\ \A j \in hidden : sel'[j] = sel[j]
         /\ InStep => Alone(sel') /\ Selected(sel') \subseteq Selected(sel)
<1> DEFINE l == UnselectExclusiveItems(Now)
<1>1. /\ holding /\ sel' = l.sel /\ row' = l.row
      /\ told' = IF changed \/ l.changed THEN Selected(l.sel) ELSE told
      /\ holding' = FALSE /\ anchor' = None /\ changed' = FALSE
      /\ UNCHANGED <<options, page, hidden, stale>>
  BY DEF FinishSelection
<1>2. TypeOK /\ Fair(Now) /\ (InStep => Agree(Now, Rows)) /\ Agree(Now, {})
  BY NowFair DEF IInv, Settled, Agree
<1>3. Fair(l) /\ (InStep => Agree(l, Rows))
  BY <1>2, UnselectExclusiveItemsKeeps
<1>4. InStep => Alone(l.sel) /\ Selected(l.sel) \subseteq Selected(sel)
  BY <1>2, NowFair, UnselectExclusiveItemsKeeps DEF InStep
<1> HIDE DEF l
<1>5. Settled(l)
  BY <1>3, FairSettles
<1>6. told' \subseteq Nat
  BY <1>1, <1>2, <1>3, SelectedType DEF TypeOK, Fair
<1>7. Telling'
  <2>1. ASSUME ~stale' PROVE told' = Selected(sel')
    BY <1>1, <1>3, <2>1 DEF IInv, Telling, Fair
  <2> QED BY <1>1, <2>1 DEF Telling, Selected
<1>8. AnchorOnPage'
  BY <1>1 DEF AnchorOnPage
<1>9. IInv'
  BY <1>1, <1>5, <1>6, <1>7, <1>8, PutsKeeps
<1> QED BY <1>1, <1>3, <1>4, <1>9 DEF Fair

LEMMA KeySelectsKeeps ==
  ASSUME IInv, NEW i, KeySelects(i), UNCHANGED options
  PROVE  IInv' /\ \A j \in hidden : sel'[j] = sel[j]
<1>1. /\ i \in Visible
      /\ Becomes(SelectOnly(i), holding)
      /\ UNCHANGED <<page, hidden, anchor, holding, stale>>
  BY DEF KeySelects
<1>2. Fair(SelectOnly(i)) /\ (InStep => Agree(SelectOnly(i), Rows))
  BY <1>1, SelectOnlyKeeps DEF IInv, Settled, InStep
<1>3. AnchorOnPage' /\ anchor' \in Nat \cup {None} /\ holding \in BOOLEAN
  BY <1>1 DEF IInv, TypeOK, AnchorOnPage, Throws
<1> QED BY <1>1, <1>2, <1>3, BecomesKeeps

LEMMA KeyExtendsKeeps ==
  ASSUME IInv, NEW i, KeyExtends(i), UNCHANGED options
  PROVE  /\ IInv'
         /\ \A j \in hidden : sel'[j] = sel[j]
         /\ hidden = {} /\ ~stale => Alone(sel')
<1>1. /\ MultiSelect /\ i \in Visible /\ anchor # None
      /\ UNCHANGED <<page, hidden, anchor, holding, stale>>
  BY DEF KeyExtends
<1>2. AnchorOnPage' /\ anchor' \in Nat \cup {None}
      /\ holding \in BOOLEAN /\ holding' \in BOOLEAN
  BY <1>1 DEF IInv, TypeOK, AnchorOnPage, Throws
<1>3. CASE /\ ~Throws(anchor)
           /\ Becomes(UnselectExclusiveItems(Extend(Now, i, anchor)), holding)
  <2> DEFINE m == Extend(Now, i, anchor)
             l == UnselectExclusiveItems(m)
  <2>1. TypeOK /\ Fair(Now) /\ (InStep => Agree(Now, Rows)) /\ Agree(Now, {})
    BY NowFair DEF IInv, Settled, Agree
  <2>2. Fair(m) /\ Agree(m, {}) /\ (InStep => Agree(m, Rows))
    BY <1>3, <2>1, ExtendKeeps
  <2> HIDE DEF m
  <2>3. Fair(l) /\ (InStep => Agree(l, Rows)) /\ (InStep => Alone(l.sel))
    BY <2>1, <2>2, UnselectExclusiveItemsKeeps DEF InStep
  <2>4. Becomes(l, holding)
    BY <1>3 DEF m
  <2> HIDE DEF l
  <2>5. IInv' /\ \A j \in hidden : sel'[j] = sel[j]
    BY <1>1, <1>2, <2>3, <2>4, BecomesKeeps
  <2> QED BY <2>3, <2>4, <2>5 DEF Becomes, InStep
<1>4. CASE Throws(anchor) /\ BecomesSilently(Extend(Now, i, anchor))
  <2>1. stale
    BY <1>1, <1>4 DEF IInv, AnchorOnPage
  <2> QED BY <1>1, <1>2, <1>4, <2>1, ThrowingKeeps
<1> QED BY <1>3, <1>4 DEF KeyExtends

LEMMA KeyTogglesKeeps ==
  ASSUME IInv, NEW i, KeyToggles(i), UNCHANGED options
  PROVE  IInv' /\ \A j \in hidden : sel'[j] = sel[j]
<1>1. /\ MultiSelect /\ i \in Visible
      /\ Becomes(Toggled(i), holding)
      /\ UNCHANGED <<page, hidden, anchor, holding, stale>>
  BY DEF KeyToggles, Toggled
<1>2. Fair(Toggled(i)) /\ (InStep => Agree(Toggled(i), Rows))
  BY <1>1, ToggledKeeps DEF IInv, Settled, InStep
<1>3. AnchorOnPage' /\ anchor' \in Nat \cup {None} /\ holding \in BOOLEAN
  BY <1>1 DEF IInv, TypeOK, AnchorOnPage, Throws
<1> QED BY <1>1, <1>2, <1>3, BecomesKeeps

\* Shift pressed and released moves nothing but the anchor.
LEMMA ShiftKeeps ==
  ASSUME IInv, NEW i, ShiftDown(i) \/ ShiftUp, UNCHANGED options
  PROVE  IInv' /\ \A j \in hidden : sel'[j] = sel[j]
<1>1. UNCHANGED <<options, page, sel, row, hidden, holding, changed, told, stale>>
  BY DEF ShiftDown, ShiftUp
<1>2. anchor' = None \/ anchor' \in Rows
  BY DEF ShiftDown, ShiftUp, Visible
<1>3. anchor' \in Nat \cup {None} /\ AnchorOnPage'
  <2>1. CASE anchor' = None
    BY <2>1 DEF AnchorOnPage
  <2>2. CASE anchor' \in Rows
    BY <1>1, <2>2, Shape DEF IInv, AnchorOnPage, Throws
  <2> QED BY <1>2, <2>1, <2>2
<1>4. Settled(Now) /\ Now.sel = sel /\ Now.row = row
  BY NowFair DEF IInv
<1>5. Telling' /\ told' \subseteq Nat /\ changed' \in BOOLEAN /\ holding' \in BOOLEAN
  BY <1>1 DEF IInv, Telling, TypeOK, Selected
<1> QED BY <1>1, <1>3, <1>4, <1>5, PutsKeeps

LEMMA SelectsAllKeeps ==
  ASSUME IInv, SelectsAll, UNCHANGED options
  PROVE  /\ IInv'
         /\ \A j \in hidden : sel'[j] = sel[j]
         /\ InStep => Alone(sel')
<1> DEFINE m == SelectAllVisible(Now, TRUE, None)
           l == UnselectExclusiveItems(m)
<1>1. /\ MultiSelect /\ Becomes(l, FALSE)
      /\ UNCHANGED <<page, hidden, anchor, holding, stale>>
  BY DEF SelectsAll
<1>2. TypeOK /\ Fair(Now) /\ (InStep => Agree(Now, Rows)) /\ Agree(Now, {})
  BY NowFair DEF IInv, Settled, Agree
<1>3. Fair(m) /\ m = Marked(Now, Visible, Visible, TRUE)
  BY <1>2, SelectAllVisibleIs
<1>4. Agree(m, {}) /\ (InStep => Agree(m, Rows))
  <2>1. ASSUME InStep PROVE Agree(Marked(Now, Visible, Visible, TRUE), Rows)
    <3>1. Agree(Now, Rows \ Visible)
      BY <1>2, <2>1 DEF Agree
    <3> QED BY <3>1, MarkedAgrees
  <2>2. Agree(m, {})
    BY DEF Agree
  <2> HIDE DEF m
  <2> QED BY <1>3, <2>1, <2>2
<1> HIDE DEF m
<1>5. Fair(l) /\ (InStep => Agree(l, Rows)) /\ (InStep => Alone(l.sel))
  <2>1. Fair(l)
    <3>1. TypeOK /\ Fair(m) /\ Agree(m, {})
      BY <1>2, <1>3, <1>4
    <3> QED BY <3>1, UnselectExclusiveItemsKeeps
  <2>2. ASSUME InStep PROVE Agree(l, Rows) /\ Alone(l.sel)
    <3>1. Fair(m) /\ Agree(m, Rows) /\ hidden = {}
      BY <1>3, <1>4, <2>2 DEF InStep
    <3> QED BY <1>2, <3>1, UnselectExclusiveItemsKeeps
  <2> HIDE DEF l
  <2> QED BY <2>1, <2>2
<1> HIDE DEF l
<1>6. AnchorOnPage' /\ anchor' \in Nat \cup {None}
      /\ holding \in BOOLEAN /\ holding' \in BOOLEAN
  BY <1>1 DEF IInv, TypeOK, AnchorOnPage, Throws
<1>7. IInv' /\ \A j \in hidden : sel'[j] = sel[j]
  BY <1>1, <1>5, <1>6, BecomesKeeps
<1> QED BY <1>1, <1>5, <1>7 DEF Becomes

\* A call of the host page that puts a settled list.
LEMMA HostChangesKeeps ==
  ASSUME IInv, NEW l, Settled(l), HostChanges(l), UNCHANGED options
  PROVE  IInv'
<1>1. /\ sel' = l.sel /\ row' = l.row /\ told' = Selected(l.sel)
      /\ UNCHANGED <<page, hidden, anchor, holding, changed, stale>>
  BY DEF HostChanges
<1>2. AnchorOnPage' /\ anchor' \in Nat \cup {None}
      /\ holding' \in BOOLEAN /\ changed' \in BOOLEAN
  BY <1>1 DEF IInv, TypeOK, AnchorOnPage, Throws
<1>3. told' \subseteq Nat
  BY <1>1, SelectedType DEF IInv, Settled
<1>4. Telling'
  BY <1>1 DEF IInv, Telling, Selected
<1> QED BY <1>1, <1>2, <1>3, <1>4, PutsKeeps

\* Marking all rows settles a list.
LEMMA SelectAllSettles ==
  ASSUME IInv, NEW flag \in BOOLEAN
  PROVE  /\ Settled(SelectAll(Now, flag))
         /\ Agree(SelectAll(Now, flag), Rows)
         /\ SelectAll(Now, flag).sel = [i \in Rows |-> flag]
<1>1. SelectAll(Now, flag) = Marked(Now, Rows, Rows, flag)
  BY DEF SelectAll
<1>2. Marked(Now, Rows, Rows, flag) \in Lists
  BY NowFair, MarkedType DEF IInv, Fair
<1>3. Agree(Now, Rows \ Rows)
  BY DEF Agree
<1>4. Agree(Marked(Now, Rows, Rows, flag), Rows)
  BY <1>3, MarkedAgrees
<1>5. Marked(Now, Rows, Rows, flag).sel = [i \in Rows |-> flag]
  BY DEF Marked
<1>6. \A i \in hidden : i \in Rows
  BY DEF IInv, TypeOK
<1> QED BY <1>1, <1>2, <1>4, <1>5, <1>6 DEF Settled, Agree

\* select() without ids.
LEMMA SelectKeeps ==
  ASSUME IInv, Select, UNCHANGED options
  PROVE  IInv' /\ (~MultiSelect /\ PagingOn => Selected(sel') = {0})
<1>1. CASE MultiSelect
  <2> DEFINE m == SelectAll(Now, TRUE)
             l == UnselectExclusiveItems(m)
  <2>1. HostChanges(l)
    BY <1>1 DEF Select
  <2>2. m \in Lists /\ Agree(m, Rows) /\ m.sel = [i \in Rows |-> TRUE]
    BY SelectAllSettles DEF Settled
  <2>3. TypeOK /\ Visible \in SUBSET Rows /\ hidden \in SUBSET Rows
    BY DEF IInv, TypeOK, Visible
  <2> HIDE DEF m
  <2>4. Settled(l)
    <3>1. l \in Lists /\ Agree(l, Rows)
      BY <2>2, <2>3, UnselectExclusiveItemsIs
    <3> HIDE DEF l
    <3> QED BY <2>3, <3>1 DEF Settled, Agree
  <2> HIDE DEF l
  <2> QED BY <1>1, <2>1, <2>4, HostChangesKeeps
<1>2. CASE ~MultiSelect
  <2> DEFINE m == SelectAll(Now, FALSE)
             l == SelectOne(m, 0, TRUE)
  <2>1. HostChanges(l)
    BY <1>2 DEF Select
  <2>2. Settled(m) /\ Agree(m, Rows) /\ m.sel = [i \in Rows |-> FALSE]
    BY SelectAllSettles
  <2>3. 0 \in Rows
    BY Shape DEF IInv
  <2>4. l = Marked(m, {0}, {0}, TRUE)
    BY <2>2, <2>3 DEF SelectOne
  <2> HIDE DEF m, l
  <2>5. Marked(m, {0}, {0}, TRUE) \in Lists
    BY <2>2, MarkedType DEF Settled
  <2>6. Agree(Marked(m, {0}, {0}, TRUE), Rows)
    <3>1. Agree(m, Rows \ {0})
      BY <2>2 DEF Agree
    <3> QED BY <3>1, MarkedAgrees
  <2>7. Marked(m, {0}, {0}, TRUE).sel = [i \in Rows |-> IF i \in {0} THEN TRUE ELSE m.sel[i]]
    BY DEF Marked
  <2>8. Settled(l)
    BY <2>4, <2>5, <2>6 DEF Settled, Agree, IInv, TypeOK
  <2>9. Selected(l.sel) = {0}
    BY <2>2, <2>3, <2>4, <2>7 DEF Selected
  <2> QED BY <2>1, <2>8, <2>9, HostChangesKeeps DEF HostChanges
<1> QED BY <1>1, <1>2, Shape DEF IInv

\* unselect() without ids.
LEMMA UnselectKeeps ==
  ASSUME IInv, Unselect, UNCHANGED options
  PROVE  IInv' /\ Selected(sel') = {}
<1> DEFINE l == SelectAll(Now, FALSE)
<1>1. Settled(l) /\ l.sel = [i \in Rows |-> FALSE]
  BY SelectAllSettles
<1>2. HostChanges(l)
  BY DEF Unselect
<1> HIDE DEF l
<1>3. sel' = [i \in Rows |-> FALSE]
  BY <1>1, <1>2 DEF HostChanges
<1> QED BY <1>1, <1>2, <1>3, HostChangesKeeps DEF Selected

\* _applyClientFilter hides other rows: it unselects those that were visible,
\* so that every row shows its item.
LEMMA ApplyClientFilterKeeps ==
  ASSUME IInv, NEW visible \in SUBSET Rows, ApplyClientFilter(visible), UNCHANGED options
  PROVE  IInv'
<1> DEFINE l == SelectAllVisible(Now, FALSE, None)
<1>1. /\ ~PagingOn
      /\ Becomes(l, FALSE)
      /\ hidden' = Rows \ visible
      /\ UNCHANGED <<options, page, anchor, holding, stale>>
  BY DEF ApplyClientFilter
<1>2. TypeOK /\ Fair(Now) /\ Agree(Now, hidden)
  BY NowFair DEF IInv, Settled
<1>3. Fair(l) /\ l = Marked(Now, Visible, Visible, FALSE)
  BY <1>2, SelectAllVisibleIs
<1> HIDE DEF l
<1>4. Agree(l, Rows)
  <2>1. Agree(Now, Rows \ Visible)
    BY <1>2 DEF Agree, Visible
  <2>2. Agree(Marked(Now, Visible, Visible, FALSE), Rows)
    BY <2>1, MarkedAgrees
  <2> QED BY <1>3, <2>2
<1>5. /\ sel' = l.sel /\ row' = l.row
      /\ told' = IF l.changed THEN Selected(l.sel) ELSE told
      /\ changed' = changed
  <2>1. l.changed \in BOOLEAN /\ changed \in BOOLEAN
    BY <1>2, <1>3 DEF Fair, Lists, TypeOK
  <2> QED BY <1>1, <2>1 DEF Becomes
<1>6. Rows' = Rows /\ MultiSelect' = MultiSelect /\ PagingOn' = PagingOn /\ Pages' = Pages
  BY <1>1 DEF Rows, MultiSelect, PagingOn, Pages
<1>7. l \in Lists /\ told' \subseteq Nat
  BY <1>2, <1>3, <1>5, SelectedType DEF Fair, TypeOK
<1>8. TypeOK'
  BY <1>1, <1>2, <1>5, <1>6, <1>7 DEF TypeOK, Lists
<1>9. Hiding' /\ AnchorOnPage'
  BY <1>1, <1>6 DEF IInv, Hiding, AnchorOnPage, Throws
<1>10. Telling'
  <2>1. l.sel # sel => l.changed
    BY <1>3 DEF Fair
  <2> QED BY <1>1, <1>5, <2>1 DEF IInv, Telling, Selected
<1>11. Settled(Now)'
  <2>1. Now' \in Lists'
    BY <1>6, <1>8 DEF Now, TypeOK, Lists
  <2>2. Now.sel' = l.sel /\ Now.row' = l.row /\ \A i \in hidden' : i \in Rows
    BY <1>1, <1>5 DEF Now
  <2> QED BY <1>4, <1>6, <2>1, <2>2 DEF Settled, Agree
<1> QED BY <1>8, <1>9, <1>10, <1>11 DEF IInv

\* The flags a page comes with.
LEMMA FlagsType ==
  ASSUME NEW p
  PROVE  /\ Flags(p) \in [0 .. p.count - 1 -> BOOLEAN]
         /\ \A i \in 0 .. p.count - 1 : Flags(p)[i] <=> i \in p.selected
<1> DEFINE on(i) == i \in p.selected
           rows == 0 .. p.count - 1
           flags == [i \in rows |-> on(i)]
<1>1. Flags(p) = flags
  BY DEF Flags
<1>2. \A i \in rows : on(i) \in BOOLEAN
  OBVIOUS
<1>3. flags \in [rows -> BOOLEAN]
  <2> HIDE DEF on, rows
  <2> QED BY <1>2
<1>4. \A i \in rows : flags[i] <=> on(i)
  <2> HIDE DEF on, rows
  <2> QED BY Zenon
<1> QED BY <1>1, <1>3, <1>4

\* _renderData puts up another page: rows and items as they came, and an anchor
\* that is not on it makes the list stale.
LEMMA RenderDataKeeps ==
  ASSUME IInv, NEW p \in Pages, RenderData(p), UNCHANGED options
  PROVE  IInv' /\ Selected(sel') = p.selected
<1>1. /\ PagingOn
      /\ page' = p /\ sel' = Flags(p) /\ row' = Flags(p) /\ told' = p.selected
      /\ hidden' = {}
      /\ stale' = (anchor # None /\ anchor >= p.count)
      /\ UNCHANGED <<options, anchor, holding, changed>>
  BY DEF RenderData
<1>2. p.count \in Nat \ {0} /\ p.selected \subseteq 0 .. p.count - 1
  BY ListSelectionAssumption DEF IInv, TypeOK, Pages
<1>3. Rows' = 0 .. p.count - 1 /\ MultiSelect' = MultiSelect /\ PagingOn' = PagingOn
      /\ Pages' = Pages
  BY <1>1 DEF Rows, MultiSelect, PagingOn, Pages
<1>4. Flags(p) \in [0 .. p.count - 1 -> BOOLEAN]
      /\ \A i \in 0 .. p.count - 1 : Flags(p)[i] <=> i \in p.selected
  BY FlagsType
<1>5. Selected(sel') = p.selected
  BY <1>1, <1>2, <1>4 DEF Selected
<1>6. TypeOK'
  BY <1>1, <1>2, <1>3, <1>4 DEF IInv, TypeOK
<1>7. Hiding' /\ AnchorOnPage'
  BY <1>1, <1>3 DEF IInv, Hiding, AnchorOnPage, Throws
<1>8. Telling'
  BY <1>1, <1>5 DEF IInv, Telling, Selected
<1>9. Settled(Now)'
  <2>1. Now' \in Lists'
    BY <1>3, <1>6 DEF Now, TypeOK, Lists
  <2>2. Now.sel' = Flags(p) /\ Now.row' = Flags(p)
    BY <1>1 DEF Now
  <2> QED BY <2>1, <2>2 DEF Settled, Agree
<1> QED BY <1>5, <1>6, <1>7, <1>8, <1>9 DEF IInv

LEMMA InitIInv ==
  ASSUME Init
  PROVE  IInv /\ Selected(sel) = page.selected
<1>1. page.count \in Nat \ {0} /\ page.selected \subseteq 0 .. page.count - 1
  BY ListSelectionAssumption DEF Init, Pages
<1>2. /\ Flags(page) \in [Rows -> BOOLEAN]
      /\ \A i \in Rows : Flags(page)[i] <=> i \in page.selected
  BY FlagsType DEF Rows
<1>3. Selected(sel) = page.selected
  BY <1>1, <1>2 DEF Init, Selected, Rows
<1>4. TypeOK
  <2>1. sel \in [Rows -> BOOLEAN] /\ row \in [Rows -> BOOLEAN]
    BY <1>2 DEF Init
  <2>2. told \subseteq Nat
    BY <1>1 DEF Init
  <2> QED BY <2>1, <2>2 DEF Init, TypeOK
<1>5. Hiding /\ AnchorOnPage
  BY DEF Init, Hiding, AnchorOnPage
<1>6. Telling
  BY <1>3 DEF Init, Telling
<1>7. Settled(Now)
  <2>1. Now \in Lists /\ Now.sel = Flags(page) /\ Now.row = Flags(page)
    BY <1>2 DEF Init, Now, Lists
  <2> QED BY <2>1 DEF Settled, Agree
<1> QED BY <1>3, <1>4, <1>5, <1>6, <1>7 DEF IInv

LEMMA GestureKeeps ==
  ASSUME IInv, Gesture, UNCHANGED options
  PROVE  IInv' /\ \A j \in hidden : sel'[j] = sel[j]
<1>1. ASSUME NEW i \in Rows, Mouse(i)
      PROVE  IInv' /\ \A j \in hidden : sel'[j] = sel[j]
  BY <1>1, ItemMouseDownKeeps, ItemMouseEnterKeeps DEF Mouse
<1>2. ASSUME NEW i \in Rows, Keyboard(i)
      PROVE  IInv' /\ \A j \in hidden : sel'[j] = sel[j]
  BY <1>2, KeySelectsKeeps, KeyExtendsKeeps, KeyTogglesKeeps, ShiftKeeps DEF Keyboard
<1> QED BY <1>1, <1>2, FinishSelectionKeeps, ShiftKeeps, SelectsAllKeeps DEF Gesture

LEMMA NextIInv ==
  ASSUME IInv, [Next]_vars
  PROVE  IInv'
<1>1. CASE Next
  <2>1. UNCHANGED options
    BY <1>1 DEF Next
  <2>2. CASE Gesture
    BY <2>1, <2>2, GestureKeeps
  <2>3. CASE Select \/ Unselect
    BY <2>1, <2>3, SelectKeeps, UnselectKeeps
  <2>4. ASSUME NEW visible \in SUBSET Rows, ApplyClientFilter(visible) PROVE IInv'
    BY <2>1, <2>4, ApplyClientFilterKeeps
  <2>5. ASSUME NEW p \in Pages, RenderData(p) PROVE IInv'
    BY <2>1, <2>5, RenderDataKeeps
  <2> QED BY <1>1, <2>2, <2>3, <2>4, <2>5 DEF Next
<1>2. CASE UNCHANGED vars
  BY <1>2 DEF vars, IInv, TypeOK, Hiding, AnchorOnPage, Throws, Settled, Telling, Agree,
    InStep, Lists, Now, Rows, Pages, MultiSelect, PagingOn, Selected
<1> QED BY <1>1, <1>2

THEOREM Invariance == Spec => []IInv
<1>1. Init => IInv
  BY InitIInv
<1>2. IInv /\ [Next]_vars => IInv'
  BY NextIInv
<1> QED BY <1>1, <1>2, PTL DEF Spec

-----------------------------------------------------------------------------
(* What follows from it.                                                   *)

\* The variables keep their types: items and rows are those of the page shown,
\* whatever replaces it in the middle of a gesture.
THEOREM TypeCorrect == Spec => []TypeOK
<1>1. IInv => TypeOK
  BY DEF IInv
<1> QED BY <1>1, Invariance, PTL

\* The rows look selected as the configuration's items are, after any clicks,
\* drags, keys, calls, filters and pages: no handler marks one without the other,
\* though each uses its own selectors.
THEOREM RowsAreSelection == Spec => []RowsShowSelection
<1>1. IInv => RowsShowSelection
  <2> SUFFICES ASSUME IInv, ~stale, hidden = {}, NEW i \in Rows PROVE row[i] <=> sel[i]
    BY DEF RowsShowSelection
  <2>1. row[i] = sel[i]
    BY DEF IInv, Settled, InStep, Agree, Now
  <2> QED BY <2>1
<1> QED BY <1>1, Invariance, PTL

\* With the mouse button up the host page knows the selection: a pl-changed held
\* back during a drag is not forgotten.
THEOREM HostIsTold == Spec => []SelectionAnnounced
<1>1. IInv => SelectionAnnounced
  BY DEF IInv, Telling, SelectionAnnounced
<1> QED BY <1>1, Invariance, PTL

\* No click, drag or key changes an item that the client filter hides.
THEOREM HiddenStay == Spec => HiddenUntouched
<1>1. IInv /\ [Next]_vars => [Gesture => \A i \in hidden : sel'[i] = sel[i]]_vars
  <2> SUFFICES ASSUME IInv, [Next]_vars, Gesture, ~UNCHANGED vars
               PROVE  \A i \in hidden : sel'[i] = sel[i]
    OBVIOUS
  <2>1. UNCHANGED options
    BY DEF Next
  <2> QED BY <2>1, GestureKeeps
<1> QED BY <1>1, Invariance, PTL DEF Spec, HiddenUntouched

\* The end of a drag, an extension by keyboard and Ctrl+A leave an exclusive
\* item selected alone, from every selection that gestures, calls and pages can
\* lead to.
THEOREM ExclusiveLeftAlone == Spec => GesturesLeaveExclusiveAlone
<1>1. IInv /\ [Next]_vars =>
        [~stale /\ hidden = {} /\
         (FinishSelection \/ SelectsAll \/ \E i \in Rows : KeyExtends(i))
         => ExclusiveAlone']_vars
  <2> SUFFICES ASSUME IInv, [Next]_vars, ~UNCHANGED vars, ~stale, hidden = {},
                      FinishSelection \/ SelectsAll \/ \E i \in Rows : KeyExtends(i)
               PROVE  ExclusiveAlone'
    OBVIOUS
  <2>1. UNCHANGED <<options, page>>
    BY DEF Next, FinishSelection, SelectsAll, KeyExtends
  <2>2. Alone(sel')
    BY <2>1, FinishSelectionKeeps, SelectsAllKeeps, KeyExtendsKeeps DEF InStep
  <2> QED BY <2>1, <2>2 DEF Alone, ExclusiveAlone, Selected
<1> QED BY <1>1, Invariance, PTL DEF Spec, GesturesLeaveExclusiveAlone

\* A host page that sets up single selection sends pages with one item selected
\* or none.
SinglePages ==
  \A s \in Setups :
    ~s.multiSelect /\ s.pagingOn => \A p \in s.pages : Cardinality(p.selected) <= 1

OneSelected == ~MultiSelect /\ PagingOn => \A i, j \in Selected(sel) : i = j

\* Such a page has one item selected, or none.
LEMMA SinglePage ==
  ASSUME IInv, SinglePages, ~MultiSelect, PagingOn, NEW p \in Pages
  PROVE  \A i, j \in p.selected : i = j
<1>1. options \in Setups /\ ~options.multiSelect /\ options.pagingOn /\ p \in options.pages
  BY DEF IInv, TypeOK, MultiSelect, PagingOn, Pages
<1>2. p.count \in Nat \ {0} /\ p.selected \subseteq 0 .. p.count - 1
  BY <1>1, ListSelectionAssumption
<1>3. Cardinality(p.selected) <= 1
  BY <1>1 DEF SinglePages
<1>4. p.count - 1 \in Nat /\ p.selected \in SUBSET (0 .. p.count - 1)
  BY <1>2
<1> QED BY <1>3, <1>4, FewRows

\* The mouse and the keyboard select one row, releasing the button none.
LEMMA GestureSelectsOne ==
  ASSUME IInv, Gesture, ~MultiSelect, PagingOn
  PROVE  Selected(sel') \subseteq Selected(sel) \/ \E i : Selected(sel') = {i}
<1>1. hidden = {}
  BY DEF IInv, Hiding
<1>2. ASSUME NEW i \in Visible, NEW held, Becomes(SelectOnly(i), held)
      PROVE  Selected(sel') = {i}
  BY <1>1, <1>2, SelectOnlyKeeps DEF IInv, Becomes
<1>3. ASSUME NEW i \in Rows, Mouse(i) PROVE \E k : Selected(sel') = {k}
  <2>1. i \in Visible /\ Becomes(SelectOnly(i), TRUE)
    BY <1>3 DEF Mouse, ItemMouseDown, ItemMouseEnter, HandleSelectMouse
  <2> QED BY <1>2, <2>1
<1>4. ASSUME NEW i \in Rows, Keyboard(i)
      PROVE  sel' = sel \/ \E k : Selected(sel') = {k}
  <2>1. CASE KeySelects(i)
    BY <1>2, <2>1 DEF KeySelects
  <2>2. CASE ShiftDown(i)
    BY <2>2 DEF ShiftDown
  <2> QED BY <1>4, <2>1, <2>2 DEF Keyboard, KeyExtends, KeyToggles
<1>5. ASSUME FinishSelection PROVE Selected(sel') \subseteq Selected(sel)
  <2>1. sel' = UnselectExclusiveItems(Now).sel
    BY <1>5 DEF FinishSelection
  <2>2. Fair(Now) /\ Agree(Now, Rows) /\ Now.sel = sel
    BY <1>1, NowFair DEF IInv, Settled, InStep
  <2> QED BY <1>1, <2>1, <2>2, UnselectExclusiveItemsKeeps DEF IInv
<1>6. ASSUME ShiftUp PROVE sel' = sel
  BY <1>6 DEF ShiftUp
<1> QED BY <1>3, <1>4, <1>5, <1>6 DEF Gesture, SelectsAll

LEMMA NextOneSelected ==
  ASSUME IInv, SinglePages, OneSelected, [Next]_vars
  PROVE  OneSelected'
<1>1. CASE Next
  <2>1. UNCHANGED options /\ MultiSelect' = MultiSelect /\ PagingOn' = PagingOn
    BY <1>1 DEF Next, MultiSelect, PagingOn
  <2> SUFFICES ASSUME ~MultiSelect, PagingOn
               PROVE  \A i, j \in Selected(sel') : i = j
    BY <2>1 DEF OneSelected, Selected
  <2>2. \A i, j \in Selected(sel) : i = j
    BY DEF OneSelected
  <2>3. CASE Gesture
    BY <2>2, <2>3, GestureSelectsOne
  <2>4. CASE Select \/ Unselect
    <3>1. Selected(sel') = {0} \/ Selected(sel') = {}
      BY <2>1, <2>4, SelectKeeps, UnselectKeeps
    <3> QED BY <3>1
  <2>5. ASSUME NEW p \in Pages, RenderData(p)
        PROVE  \A i, j \in Selected(sel') : i = j
    BY <2>1, <2>5, RenderDataKeeps, SinglePage
  <2> QED BY <1>1, <2>3, <2>4, <2>5 DEF Next, ApplyClientFilter
<1>2. CASE UNCHANGED vars
  BY <1>2 DEF vars, OneSelected, MultiSelect, PagingOn, Selected
<1> QED BY <1>1, <1>2

\* In single selection mode, with pages from the server of which each comes with
\* one item selected at most, the configuration never has two selected items.
THEOREM OneItemAtMost == SinglePages => (Spec => []OneItemSelected)
<1> SUFFICES ASSUME SinglePages PROVE Spec => []OneItemSelected
  OBVIOUS
<1>1. Init => OneSelected
  <2> SUFFICES ASSUME Init, ~MultiSelect, PagingOn
               PROVE  \A i, j \in Selected(sel) : i = j
    BY DEF OneSelected
  <2>1. page \in Pages
    BY DEF Init
  <2> QED BY <2>1, InitIInv, SinglePage
<1>2. IInv /\ OneSelected /\ [Next]_vars => OneSelected'
  BY NextOneSelected
<1>3. IInv /\ OneSelected => OneItemSelected
  <2> SUFFICES ASSUME IInv, OneSelected, ~MultiSelect, PagingOn
               PROVE  Cardinality(Selected(sel)) <= 1
    BY DEF OneItemSelected
  <2>1. page.count - 1 \in Nat /\ Selected(sel) \in SUBSET (0 .. page.count - 1)
    BY Shape DEF IInv, TypeOK, Selected
  <2>2. \A i, j \in Selected(sel) : i = j
    BY DEF OneSelected
  <2> QED BY <2>1, <2>2, FewRows
<1> QED BY <1>1, <1>2, <1>3, Invariance, PTL DEF Spec

=============================================================================
