--------------------------- MODULE ListSelection ---------------------------
(***************************************************************************)
(* Selecting items in the paginal_list jQuery plugin with the mouse, the   *)
(* keyboard and the host page's calls, while pages are replaced (paging    *)
(* on) or rows are hidden by the client filter (paging off).               *)
(*                                                                         *)
(* The selection lives twice: in the configuration's items and in the CSS  *)
(* class of the rows.  Handlers change both, by different selectors.       *)
(***************************************************************************)
EXTENDS Integers, FiniteSets

CONSTANTS
  Setups,  \* the ways a host page sets the list up: multiSelect, pagingOn (pages
           \* come from the server; else rows are filtered here), and the pages
           \* shown: how many rows, which are exclusive, which come selected
  None

ASSUME ListSelectionAssumption ==
  /\ \A s \in Setups :
       /\ s.multiSelect \in BOOLEAN
       /\ s.pagingOn \in BOOLEAN
       /\ \A p \in s.pages :
            /\ p.count \in Nat \ {0}
            /\ p.exclusive \subseteq 0 .. p.count - 1
            /\ p.selected \subseteq 0 .. p.count - 1
  /\ None \notin Nat

VARIABLES
  options,   \* the setup of this list
  page,      \* the page shown
  sel,       \* config.items[i].selected
  row,       \* row i has the class list-item-selected
  hidden,    \* the rows hidden, whose items are notVisible
  anchor,    \* _startRowIndex
  holding,   \* _mouseHoldDown
  changed,   \* _selectionChanged
  told,      \* the selection as the host page knows it; history
  stale      \* a page was replaced while there was an anchor; history

vars == <<options, page, sel, row, hidden, anchor, holding, changed, told, stale>>

MultiSelect == options.multiSelect
PagingOn == options.pagingOn
Pages == options.pages

Rows == 0 .. page.count - 1

Visible == Rows \ hidden

Selected(s) == {i \in DOMAIN s : s[i]}

TypeOK ==
  /\ options \in Setups
  /\ page \in Pages
  /\ sel \in [Rows -> BOOLEAN]
  /\ row \in [Rows -> BOOLEAN]
  /\ hidden \subseteq Rows
  /\ anchor \in Nat \cup {None}
  /\ holding \in BOOLEAN
  /\ changed \in BOOLEAN
  /\ told \subseteq Nat
  /\ stale \in BOOLEAN

Flags(p) == [i \in 0 .. p.count - 1 |-> i \in p.selected]

Init ==
  /\ options \in Setups
  /\ page \in Pages
  /\ sel = Flags(page)
  /\ row = Flags(page)
  /\ hidden = {}
  /\ anchor = None
  /\ holding = FALSE
  /\ changed = FALSE
  /\ told = page.selected
  /\ stale = FALSE

-----------------------------------------------------------------------------
(* The helpers, as functions from the list before to the list after, with  *)
(* the answer whether they changed the configuration.                      *)

Now == [sel |-> sel, row |-> row, changed |-> FALSE]

\* Gives the items in configHit and the rows in rowHit the given flag.
Marked(l, configHit, rowHit, flag) ==
  [sel |-> [i \in Rows |-> IF i \in configHit THEN flag ELSE l.sel[i]],
   row |-> [i \in Rows |-> IF i \in rowHit THEN flag ELSE l.row[i]],
   changed |-> l.changed \/ \E i \in configHit : l.sel[i] # flag]

\* _selectOne: an item that already has the flag keeps its row as it is.
SelectOne(l, i, flag) ==
  IF l.sel[i] = flag THEN l ELSE Marked(l, {i}, {i}, flag)

\* _selectOne without a row.
SelectItem(l, i, flag) == Marked(l, {i}, {}, flag)

\* _toggleOne
ToggleOne(l, i) ==
  [sel |-> [l.sel EXCEPT ![i] = ~@],
   row |-> [l.row EXCEPT ![i] = ~@],
   changed |-> TRUE]

\* _selectAll
SelectAll(l, flag) == Marked(l, Rows, Rows, flag)

\* The k-th row, as :eq(k) counts the rows a selector has found so far.
Eq(rows, k) == {i \in rows : Cardinality({j \in rows : j < i}) = k}

\* Slip: hidden items are treated as the others.
SelectAllVisibleHiddenToo(l, flag, except) ==
  Marked(l, Rows \ {except}, Visible \ Eq(Visible, except), flag)

\* _selectAllVisible: item number except is spared in the configuration, and
\* row number except of the visible rows.
SelectAllVisible(l, flag, except) ==
  Marked(l, Visible \ {except}, Visible \ Eq(Visible, except), flag)

\* The three _selectVisibleRange calls that select from row i to row a and
\* unselect the rest.  An anchor a beyond the last row makes the second call
\* throw, after it has changed the items and before the rows.
Throws(a) == a >= page.count

\* Slip: slice(from, to) where slice(from, to + 1) is meant.
ExtendShort(l, i, a) ==
  LET lo == IF i <= a THEN i ELSE a
      hi == IF i <= a THEN a ELSE i
      inside == {j \in Visible : lo <= j /\ j <= hi}
      outside == Visible \ inside
  IN Marked(Marked(l, outside, outside, FALSE), inside, inside \ {hi}, TRUE)

Extend(l, i, a) ==
  LET lo == IF i <= a THEN i ELSE a
      hi == IF i <= a THEN a ELSE i
      inside == {j \in Visible : lo <= j /\ j <= hi}
      below == {j \in Visible : j < lo}
      above == {j \in Visible : j > hi}
  IN IF Throws(a)
     THEN Marked(Marked(l, below, below, FALSE), inside, {}, TRUE)
     ELSE Marked(Marked(l, below \cup above, below \cup above, FALSE),
                 inside, inside, TRUE)

\* _unselectExclusiveItems: if an exclusive row is selected with others, only
\* the first exclusive one stays.
UnselectExclusiveItems(l) ==
  LET chosen == {i \in Visible : l.row[i]}
      exclusive == chosen \cap page.exclusive
      first == CHOOSE i \in exclusive : \A j \in exclusive : i <= j
      \* _selectOne(i, false) of every chosen row
      off == {i \in chosen : l.sel[i]}
      cleared == Marked(l, off, off, FALSE)
  IN IF exclusive # {} /\ Cardinality(chosen) > 1
     THEN [SelectOne(cleared, first, TRUE) EXCEPT !.changed = TRUE]
     ELSE l

-----------------------------------------------------------------------------
(* How a handler ends.                                                     *)

\* Slip: the flag of an earlier change is overwritten.
BecomesForgetful(l, held) ==
  /\ sel' = l.sel
  /\ row' = l.row
  /\ told' = IF l.changed /\ ~held THEN Selected(l.sel) ELSE told
  /\ changed' = (l.changed /\ held)

\* The list becomes l; pl-changed is fired at once, or if the mouse button is
\* down when it is released.
Becomes(l, held) ==
  /\ sel' = l.sel
  /\ row' = l.row
  /\ told' = IF l.changed /\ ~held THEN Selected(l.sel) ELSE told
  /\ changed' = (changed \/ (l.changed /\ held))

\* A handler that threw has changed the list and told nobody.
BecomesSilently(l) ==
  /\ sel' = l.sel
  /\ row' = l.row
  /\ UNCHANGED <<told, changed>>

\* Slip: the other items keep their flags, as in multiple selection.
SelectOneMore(i) == SelectOne(Now, i, TRUE)

\* What mouse and keyboard share: only row i is selected.
SelectOnly(i) == SelectOne(SelectAllVisible(Now, FALSE, i), i, TRUE)

-----------------------------------------------------------------------------
(* The mouse.                                                              *)

\* _handleSelectMouse with _startRowIndex a
HandleSelectMouse(i, ctrl, a, held) ==
  \/ MultiSelect /\ ctrl /\ Becomes(ToggleOne(Now, i), held)
  \/ MultiSelect /\ ~ctrl /\ a # None /\ ~Throws(a) /\ Becomes(Extend(Now, i, a), held)
  \/ MultiSelect /\ ~ctrl /\ a # None /\ Throws(a) /\ BecomesSilently(Extend(Now, i, a))
  \/ MultiSelect /\ ~ctrl /\ a = None /\ UNCHANGED <<sel, row, told, changed>>
  \/ ~MultiSelect /\ Becomes(SelectOnly(i), held)

\* Shift and click extend from the selected row that is farthest from i.
AnchorFor(i) ==
  LET chosen == {j \in Visible \ {i} : row[j]}
      Distance(j) == IF j < i THEN i - j ELSE j - i
      farthest == {j \in chosen : \A k \in chosen : Distance(k) <= Distance(j)}
  IN IF chosen = {} THEN i
     ELSE CHOOSE j \in farthest : \A k \in farthest : k <= j

ItemMouseDown(i, shift, ctrl) ==
  /\ i \in Visible
  /\ holding' = TRUE
  /\ anchor' = IF shift THEN AnchorFor(i) ELSE i
  /\ HandleSelectMouse(i, ctrl, anchor', TRUE)
  /\ UNCHANGED <<page, hidden, stale>>

\* The pointer enters a row, or the autoscroll timer moves on to the next one.
ItemMouseEnter(i, ctrl) ==
  /\ holding
  /\ i \in Visible
  /\ HandleSelectMouse(i, ctrl, anchor, TRUE)
  /\ UNCHANGED <<page, hidden, anchor, holding, stale>>

\* Slip: exclusive items are looked after only if the drag changed something.
FinishSelectionUnchanged ==
  /\ holding
  /\ LET l == IF changed THEN UnselectExclusiveItems(Now) ELSE Now
     IN /\ sel' = l.sel
        /\ row' = l.row
        /\ told' = IF changed \/ l.changed THEN Selected(l.sel) ELSE told
  /\ holding' = FALSE
  /\ anchor' = None
  /\ changed' = FALSE
  /\ UNCHANGED <<page, hidden, stale>>

\* _finishSelection
FinishSelection ==
  /\ holding
  /\ LET l == UnselectExclusiveItems(Now)
     IN /\ sel' = l.sel
        /\ row' = l.row
        /\ told' = IF changed \/ l.changed THEN Selected(l.sel) ELSE told
  /\ holding' = FALSE
  /\ anchor' = None
  /\ changed' = FALSE
  /\ UNCHANGED <<page, hidden, stale>>

-----------------------------------------------------------------------------
(* The keyboard.  The row i an arrow, Home, End or Space is about is any   *)
(* visible one: the focus may be on each of them.                          *)

\* Without a modifier that counts.
KeySelects(i) ==
  /\ i \in Visible
  /\ Becomes(SelectOnly(i), holding)
  /\ UNCHANGED <<page, hidden, anchor, holding, stale>>

\* With Shift held down.
KeyExtends(i) ==
  /\ MultiSelect
  /\ i \in Visible
  /\ anchor # None
  /\ \/ /\ ~Throws(anchor)
        /\ Becomes(UnselectExclusiveItems(Extend(Now, i, anchor)), holding)
     \/ /\ Throws(anchor)
        /\ BecomesSilently(Extend(Now, i, anchor))
  /\ UNCHANGED <<page, hidden, anchor, holding, stale>>

\* Ctrl and Space toggle the row's class first and write it into the item last.
KeyToggles(i) ==
  /\ MultiSelect
  /\ i \in Visible
  /\ LET toggled == [Now EXCEPT !.row[i] = ~@]
         alone == IF i \in page.exclusive
                  THEN SelectAllVisible(toggled, FALSE, i)
                  ELSE UnselectExclusiveItems(toggled)
     IN Becomes(SelectItem(alone, i, alone.row[i]), holding)
  /\ UNCHANGED <<page, hidden, anchor, holding, stale>>

ShiftDown(i) ==
  /\ i \in Visible
  /\ anchor = None
  /\ anchor' = i
  /\ UNCHANGED <<page, sel, row, hidden, holding, changed, told, stale>>

\* Shift released on a row; released elsewhere it goes unnoticed.
ShiftUp ==
  /\ anchor # None
  /\ anchor' = None
  /\ UNCHANGED <<page, sel, row, hidden, holding, changed, told, stale>>

\* Ctrl and A: pl-changed is not deferred.
SelectsAll ==
  /\ MultiSelect
  /\ Becomes(UnselectExclusiveItems(SelectAllVisible(Now, TRUE, None)), FALSE)
  /\ UNCHANGED <<page, hidden, anchor, holding, stale>>

-----------------------------------------------------------------------------
(* The host page and the server.                                           *)

HostChanges(l) ==
  /\ sel' = l.sel
  /\ row' = l.row
  /\ told' = Selected(l.sel)
  /\ UNCHANGED <<page, hidden, anchor, holding, changed, stale>>

\* select() without ids.
Select ==
  HostChanges(IF MultiSelect
              THEN UnselectExclusiveItems(SelectAll(Now, TRUE))
              ELSE SelectOne(SelectAll(Now, FALSE), 0, TRUE))

\* unselect() without ids.
Unselect == HostChanges(SelectAll(Now, FALSE))

\* _applyClientFilter: the rows in visible match.
ApplyClientFilter(visible) ==
  /\ ~PagingOn
  /\ Becomes(SelectAllVisible(Now, FALSE, None), FALSE)
  /\ hidden' = Rows \ visible
  /\ UNCHANGED <<page, anchor, holding, stale>>

\* An answer arrives and _renderData puts up its page; the anchor and the
\* mouse button are left as they are.
RenderData(p) ==
  /\ PagingOn
  /\ page' = p
  /\ sel' = Flags(p)
  /\ row' = Flags(p)
  /\ told' = p.selected
  /\ hidden' = {}
  /\ stale' = (anchor # None /\ anchor >= p.count)
  /\ UNCHANGED <<anchor, holding, changed>>

-----------------------------------------------------------------------------

Mouse(i) ==
  \/ \E shift, ctrl \in BOOLEAN : ItemMouseDown(i, shift, ctrl)
  \/ \E ctrl \in BOOLEAN : ItemMouseEnter(i, ctrl)

Keyboard(i) == KeySelects(i) \/ KeyExtends(i) \/ KeyToggles(i) \/ ShiftDown(i)

Gesture ==
  \/ \E i \in Rows : Mouse(i) \/ Keyboard(i)
  \/ FinishSelection \/ ShiftUp \/ SelectsAll

Next ==
  /\ \/ Gesture
     \/ Select \/ Unselect
     \/ \E visible \in SUBSET Rows : ApplyClientFilter(visible)
     \/ \E p \in Pages : RenderData(p)
  /\ UNCHANGED options

Spec == Init /\ [][Next]_vars

-----------------------------------------------------------------------------
(* Properties.                                                             *)

\* The rows show the selection the configuration has, unless a shorter page
\* replaced one on which a drag or a Shift extension had begun, or a client
\* filter hides rows.
RowsShowSelection ==
  ~stale /\ hidden = {} => \A i \in Rows : row[i] <=> sel[i]

\* When the mouse button is up the host page has been told of the selection.
SelectionAnnounced == ~holding /\ ~stale => told = Selected(sel)

ExclusiveAlone ==
  \A i \in Selected(sel) \cap page.exclusive : Selected(sel) = {i}

\* Releasing the mouse button, extending by keyboard and Ctrl+A leave an
\* exclusive item selected alone, in whatever order the user clicked, dragged
\* and toggled before.
GesturesLeaveExclusiveAlone ==
  [][~stale /\ hidden = {} /\
     (FinishSelection \/ SelectsAll \/ \E i \in Rows : KeyExtends(i))
     => ExclusiveAlone']_vars

\* No gesture changes an item the client filter hides.
HiddenUntouched ==
  [][Gesture => \A i \in hidden : sel'[i] = sel[i]]_vars

\* exclusiveItemIds: "Items, which can't be selected with other items".
\* Refuted: Ctrl and Space toggle a row before its item.
ExclusiveNeverShared == ~holding => ExclusiveAlone

\* In single selection mode no sequence of clicks, drags, keys and calls leaves
\* two items selected in the configuration, while no row is hidden.
OneItemSelected ==
  ~MultiSelect /\ PagingOn => Cardinality(Selected(sel)) <= 1

\* In single selection mode at most one visible row looks selected, as in a
\* select element.  Refuted once rows are hidden.
OneRowSelected == ~MultiSelect => Cardinality({i \in Visible : row[i]}) <= 1
=============================================================================
