-------------------------- MODULE OptionSelection --------------------------
(***************************************************************************)
(* Selecting items in the paginal_list_option jQuery plugin.  The browser  *)
(* keeps the selection of its select element, the plugin that of the       *)
(* configuration's items; an option remembers the index of its item.       *)
(***************************************************************************)
EXTENDS Integers, FiniteSets

CONSTANT
  Setups  \* the ways a host page sets the list up: multiSelect, pagingOn (pages
          \* come from the server; else options are filtered here), useAnimation,
          \* and the pages shown: how many items, which are exclusive, which
          \* come selected

ASSUME OptionSelectionAssumption ==
  \A s \in Setups :
    /\ {s.multiSelect, s.pagingOn, s.useAnimation} \subseteq BOOLEAN
    /\ \A p \in s.pages :
         /\ p.count \in Nat \ {0}
         /\ p.exclusive \subseteq 0 .. p.count - 1
         /\ p.selected \subseteq 0 .. p.count - 1

VARIABLES
  options,  \* the setup of this list
  page,     \* the page the configuration has
  sel,      \* the indices of its selected items
  view,     \* the page whose options the select element has
  shown,    \* the data-index of the options, in this order
  ui,       \* the selected options
  fading,   \* the items were replaced, their options are not there yet
  holding,  \* _mouseHoldDown
  scroll,   \* _mouseScrollTimer: off, on, or on for options that are gone
  behind,   \* options were selected without a change event; history
  told,     \* the selection the host page knows; history
  quiet,    \* the selection was changed without an event; history
  crossed   \* options of one page acted on the items of another; history

uiVars == <<view, shown, ui, fading>>
mouseVars == <<holding, scroll, behind>>
vars == <<options, page, sel, uiVars, mouseVars, told, quiet, crossed>>

MultiSelect == options.multiSelect
PagingOn == options.pagingOn
Animated == options.useAnimation
Pages == options.pages

Items == 0 .. page.count - 1

TypeOK ==
  /\ options \in Setups
  /\ page \in Pages /\ view \in Pages
  /\ sel \subseteq Items
  /\ shown \subseteq 0 .. view.count - 1
  /\ ui \subseteq shown
  /\ scroll \in {"off", "on", "stale"}
  /\ {fading, holding, behind, quiet, crossed} \subseteq BOOLEAN
  /\ told \subseteq Nat

Least(S) == CHOOSE i \in S : \A j \in S : i <= j
Greatest(S) == CHOOSE i \in S : \A j \in S : j <= i

\* What a select element makes of options that come selected.
Chosen(S) == IF MultiSelect \/ S = {} THEN S ELSE {Greatest(S)}

\* option.selected = true: without multiple it is the only one.
Pick(S, i) == IF MultiSelect THEN S \cup {i} ELSE {i}

Init ==
  /\ options \in Setups
  /\ page \in Pages
  /\ sel = page.selected
  /\ view = page
  /\ shown = Items
  /\ ui = Chosen(page.selected)
  /\ fading = FALSE
  /\ holding = FALSE
  /\ scroll = "off"
  /\ behind = FALSE
  /\ told = page.selected
  /\ quiet = FALSE
  /\ crossed = FALSE

-----------------------------------------------------------------------------
(* The helpers, as functions from a selection to the one they leave.       *)

Now == [sel |-> sel, ui |-> ui]

\* Exclusive items chosen along with others.
Shared(l) == l.ui \cap view.exclusive # {} /\ Cardinality(l.ui) > 1

\* An option of a longer page that fades out has no item: the loop throws there.
Throws(l) == Shared(l) /\ ~(l.ui \subseteq Items)

\* _unselectExclusiveItems
UnselectExclusive(l) ==
  LET first == Least(l.ui \cap view.exclusive)
  IN IF Throws(l) THEN [sel |-> l.sel \ l.ui, ui |-> l.ui \ Items]
     ELSE IF Shared(l) THEN [sel |-> (l.sel \ l.ui) \cup {first}, ui |-> {first}]
     ELSE l

\* Slip: an item that was selected stays so.
ReadUIAdds(l) == [l EXCEPT !.sel = @ \cup (l.ui \cap Items)]

\* _readSelectionFromUI: items without an option keep their flag.
ReadUI(l) == [l EXCEPT !.sel = (@ \ shown) \cup (l.ui \cap Items)]

Announce(l, changed) ==
  /\ told' = IF changed THEN l.sel ELSE told
  /\ quiet' = (quiet /\ ~changed)

Becomes(l) == sel' = l.sel /\ ui' = l.ui

-----------------------------------------------------------------------------
(* The user.                                                               *)

\* The selections a gesture in the select element can leave.
Gestures == {S \in SUBSET shown : MultiSelect \/ Cardinality(S) <= 1}

\* Slip: nobody is told when only an exclusive item took the others away.
SelectionChangeReadOnly(S) ==
  LET chosen == [sel |-> sel, ui |-> S]
      exclusive == UnselectExclusive(chosen)
      l == IF Throws(chosen) THEN exclusive ELSE ReadUI(exclusive)
  IN /\ Becomes(l)
     /\ Announce(l, shown \subseteq Items /\ l.sel # exclusive.sel)
     /\ behind' = FALSE
     /\ crossed' = (crossed \/ fading)
     /\ UNCHANGED <<page, view, shown, fading, holding, scroll>>

\* _selectionChange, on the select element's change event.  Either loop throws
\* at the first option that has no item.
SelectionChange(S) ==
  LET chosen == [sel |-> sel, ui |-> S]
      exclusive == UnselectExclusive(chosen)
      l == IF Throws(chosen) THEN exclusive ELSE ReadUI(exclusive)
  IN /\ Becomes(l)
     /\ Announce(l, shown \subseteq Items /\ (Shared(chosen) \/ l.sel # exclusive.sel))
     /\ behind' = FALSE
     /\ crossed' = (crossed \/ fading)
     /\ UNCHANGED <<page, view, shown, fading, holding, scroll>>

ListMouseDown ==
  /\ holding' = TRUE
  /\ UNCHANGED <<page, sel, uiVars, scroll, behind, told, quiet, crossed>>

\* While the button is down the browser changes the selection without an event.
Drag(S) ==
  /\ holding
  /\ ui' = S
  /\ behind' = TRUE
  /\ UNCHANGED <<page, sel, view, shown, fading, holding, scroll, told, quiet, crossed>>

DocMouseUp ==
  /\ holding' = FALSE
  /\ scroll' = "off"
  /\ UNCHANGED <<page, sel, uiVars, behind, told, quiet, crossed>>

\* _docMouseMove finds the mouse outside: _containerMouseLeave; or inside again.
MouseLeave ==
  /\ holding
  /\ scroll' = "on"
  /\ UNCHANGED <<page, sel, uiVars, holding, behind, told, quiet, crossed>>

MouseEnter ==
  /\ scroll' = "off"
  /\ UNCHANGED <<page, sel, uiVars, holding, behind, told, quiet, crossed>>

\* autoScroll: the option before the first selected one, or after the last.
AutoScroll ==
  /\ scroll = "on" /\ holding
  /\ ui # {}
  /\ \/ \E i \in shown : i < Least(ui) /\ (\A j \in shown : j < Least(ui) => j <= i)
                         /\ ui' = Pick(ui, i)
     \/ \E i \in shown : i > Greatest(ui) /\ (\A j \in shown : j > Greatest(ui) => i <= j)
                         /\ ui' = Pick(ui, i)
  /\ behind' = TRUE
  /\ UNCHANGED <<page, sel, view, shown, fading, holding, scroll, told, quiet, crossed>>

\* Ctrl and A: _selectAllVisible, then the exclusive items.
SelectsAll ==
  LET all == [sel |-> IF PagingOn THEN Items ELSE sel \cup shown, ui |-> shown]
      l == UnselectExclusive(all)
  IN /\ MultiSelect
     /\ Becomes(l)
     /\ Announce(l, ~Throws(all) /\ (all.sel # sel \/ Shared(all)))
     /\ behind' = FALSE
     /\ crossed' = (crossed \/ fading)
     /\ UNCHANGED <<page, view, shown, fading, holding, scroll>>

-----------------------------------------------------------------------------
(* The host page.  It may ask for pl-changed or not.                       *)

HostChanges(l, fireEvent, changed) ==
  /\ Becomes(l)
  /\ told' = IF fireEvent /\ changed THEN l.sel ELSE told
  /\ quiet' = IF fireEvent /\ changed THEN FALSE ELSE quiet \/ l.sel # sel
  /\ crossed' = (crossed \/ fading)
  /\ UNCHANGED <<page, view, shown, fading, holding, scroll>>

\* Slip: what was selected is not unselected first.
SelectMore(ids, fireEvent) ==
  /\ MultiSelect \/ Cardinality(ids) = 1
  /\ HostChanges([sel |-> sel \cup ids, ui |-> Chosen(ids \cap shown)], fireEvent, TRUE)
  /\ behind' = FALSE

\* select(ids) finds an option by its data-index.
Select(ids, fireEvent) ==
  /\ MultiSelect \/ Cardinality(ids) = 1
  /\ HostChanges([sel |-> ids, ui |-> ids \cap shown], fireEvent, TRUE)
  /\ behind' = FALSE

\* The option that is k-th in the list: $items.eq(k).
Eq(k) == {i \in shown : Cardinality({j \in shown : j < i}) = k}

\* select() without ids.
SelectAll(fireEvent) ==
  LET all == [sel |-> Items, ui |-> shown]
  IN /\ \/ MultiSelect /\ HostChanges(UnselectExclusive(all), fireEvent /\ ~Throws(all),
                                     sel # Items \/ Shared(all))
        \/ ~MultiSelect /\ HostChanges([sel |-> {0}, ui |-> Eq(0)], fireEvent, TRUE)
     /\ behind' = FALSE

\* unselect() without ids.
UnselectAll(fireEvent) ==
  /\ HostChanges([sel |-> {}, ui |-> {}], fireEvent, sel # {})
  /\ behind' = FALSE

\* unselect(id) takes the option at the item's index.
Unselect(k, fireEvent) ==
  /\ HostChanges([sel |-> sel \ {k}, ui |-> ui \ Eq(k)], fireEvent,
                 k \in sel \/ ui \cap Eq(k) # {} \/ Eq(k) = {})
  /\ UNCHANGED behind

\* _applyClientFilter: the items in match get an option again.
ApplyClientFilter(match) ==
  LET l == sel \ shown
  IN /\ ~PagingOn
     /\ sel' = l
     /\ shown' = match
     /\ ui' = Chosen(l \cap match)
     /\ Announce([sel |-> l], sel \cap shown # {})
     /\ behind' = FALSE
     /\ scroll' = IF scroll = "on" THEN "stale" ELSE scroll
     /\ UNCHANGED <<page, view, fading, holding, crossed>>

-----------------------------------------------------------------------------
(* The server.                                                             *)

PopulateData(p) ==
  /\ view' = p
  /\ shown' = 0 .. p.count - 1
  /\ behind' = FALSE
  /\ scroll' = IF scroll = "on" THEN "stale" ELSE scroll

\* _loadPage.success: the items are replaced; with the animation their options
\* are when the old ones have faded out.
Success(p) ==
  /\ PagingOn
  /\ page' = p
  /\ sel' = p.selected
  /\ told' = p.selected
  /\ quiet' = FALSE
  /\ fading' = Animated
  /\ IF Animated THEN UNCHANGED <<view, shown, ui, behind, scroll>>
                 ELSE PopulateData(p) /\ ui' = Chosen(p.selected)
  /\ UNCHANGED <<holding, crossed>>

\* Slip: options come as the page had them selected.
FadedOutAsLoaded ==
  /\ fading
  /\ fading' = FALSE
  /\ PopulateData(page)
  /\ ui' = Chosen(page.selected)
  /\ UNCHANGED <<page, sel, holding, told, quiet, crossed>>

\* The callback of fadeTo.
FadedOut ==
  /\ fading
  /\ fading' = FALSE
  /\ PopulateData(page)
  /\ ui' = Chosen(sel)
  /\ UNCHANGED <<page, sel, holding, told, quiet, crossed>>

Changes == \E S \in Gestures : SelectionChange(S)

Next ==
  /\ \/ Changes \/ \E S \in Gestures : Drag(S)
     \/ ListMouseDown \/ DocMouseUp \/ MouseLeave \/ MouseEnter \/ AutoScroll \/ SelectsAll
     \/ \E fireEvent \in BOOLEAN :
          \/ \E ids \in SUBSET Items \ {{}} : Select(ids, fireEvent)
          \/ \E k \in Items : Unselect(k, fireEvent)
          \/ SelectAll(fireEvent) \/ UnselectAll(fireEvent)
     \/ \E match \in SUBSET Items : ApplyClientFilter(match)
     \/ \E p \in Pages : Success(p)
     \/ FadedOut
  /\ UNCHANGED options

Spec == Init /\ [][Next]_vars

-----------------------------------------------------------------------------
(* Properties.                                                             *)

\* With the options of all items in the list, the selection the user sees is
\* the one the configuration has, as soon as the browser has sent the change
\* event of a drag, whatever clicks, calls and pages came before.  In single
\* selection mode a pick on a page that was fading out may have left two items.
UiIsConfig ==
  PagingOn /\ ~fading /\ ~behind /\ (MultiSelect \/ ~crossed) => ui = Chosen(sel)

\* The host page knows the selection, unless it asked not to be told or the
\* user acted on a page that was fading out.
SelectionAnnounced == ~quiet /\ ~crossed => told = sel

\* The user's changes leave an exclusive item alone among those in the list.
ChangesLeaveExclusiveAlone ==
  [][Changes /\ ~fading =>
       LET l == sel' \cap shown IN l \cap page.exclusive # {} => Cardinality(l) = 1]_vars

\* "Deselects items by one ID or by an array of ids": such an item is not shown
\* selected afterwards.  Refuted under a client filter, where the index of an
\* item and the place of its option differ.
UnselectDeselects ==
  [][\A k \in Items, f \in BOOLEAN : Unselect(k, f) => k \notin ui']_vars

\* "Returns an array of the selected items' ids": an item becomes selected by
\* the user only if it was its own option that was selected.  Refuted while a
\* page fades out.
UserSelectsWhatIsShown ==
  [][Changes => \A k \in sel' \ sel : view = page /\ k \in shown]_vars

\* In single selection mode one item at most is selected, as long as every item
\* has its option in the list: no sequence of clicks, calls and pages changes
\* that, unless the user acted on a page that was fading out.
OneItemSelected == ~MultiSelect /\ PagingOn /\ ~crossed => Cardinality(sel) <= 1
=============================================================================
