------------------------------ MODULE ListPage ------------------------------
(***************************************************************************)
(* Several paginal_list plugins on one page, each with its toolbox and all *)
(* with one document and one mouse.  A drag starts on a row of one list;   *)
(* it ends there by the row's own handler or anywhere by the handlers that *)
(* every list binds to the document, in the one namespace they share.      *)
(***************************************************************************)
EXTENDS Integers, FiniteSets

CONSTANTS
  Last,     \* the lists are numbered in document order, as their toolboxes
  Nowhere   \* the mouse is over no list

ASSUME ListPageAssumption ==
  /\ Last \in Nat \ {0}
  /\ Nowhere \notin 1 .. Last

Lists == 1 .. Last

VARIABLES
  alive, active, listening, heard, threw,  \* the toolboxes: see ToolboxMgr
  docBound,   \* lists whose mouseup and mousemove are bound to the document
  pressed,    \* the left button is down
  over,       \* the list the mouse is over
  dragging,   \* _mouseHoldDown
  scrolling,  \* _mouseScrollTimer is set
  zombie,     \* a scroll timer outlived its instance
  pending,    \* _selectionChanged
  unannounced \* the selection differs from the one last announced; history

tbVars == <<alive, active, listening, heard, threw>>
mouseVars == <<pressed, over>>
dragVars == <<dragging, scrolling, zombie, pending, unannounced>>
vars == <<tbVars, docBound, mouseVars, dragVars>>

Tb == INSTANCE ToolboxMgr

TypeOK ==
  /\ Tb!TypeOK
  /\ docBound \subseteq Lists
  /\ pressed \in BOOLEAN
  /\ over \in Lists \cup {Nowhere}
  /\ dragging \subseteq alive
  /\ scrolling \subseteq alive
  /\ zombie \subseteq Lists
  /\ pending \subseteq alive
  /\ unannounced \subseteq alive

Init ==
  /\ Tb!Init
  /\ docBound = {}
  /\ pressed = FALSE
  /\ over = Nowhere
  /\ dragging = {}
  /\ scrolling = {}
  /\ zombie = {}
  /\ pending = {}
  /\ unannounced = {}

-----------------------------------------------------------------------------
(* Lifecycle.                                                              *)

\* _init: handlers and toolbox.  Bound of the model: the element of a list
\* is not used again while a timer of its former instance runs.
Create(l) ==
  /\ l \notin zombie
  /\ Tb!Create(l)
  /\ docBound' = docBound \cup {l}
  /\ UNCHANGED <<mouseVars, dragVars>>

\* _teardown: the scroll timer is not cancelled; $(document).off(scope) takes
\* the document handlers of every list.
Destroy(l) ==
  /\ Tb!Destroy(l)
  /\ docBound' = {}
  /\ dragging' = dragging \ {l}
  /\ scrolling' = scrolling \ {l}
  /\ zombie' = IF l \in scrolling THEN zombie \cup {l} ELSE zombie
  /\ pending' = pending \ {l}
  /\ unannounced' = unannounced \ {l}
  /\ UNCHANGED mouseVars

\* The toolboxes' own events.
ToolboxEvent ==
  /\ Tb!DocumentEvent \/ \E l \in Lists : Tb!ClickOpen(l) \/ Tb!ClickOK(l) \/ Tb!ClickCancel(l)
  /\ UNCHANGED <<docBound, mouseVars, dragVars>>

-----------------------------------------------------------------------------
(* The mouse.                                                              *)

\* The tail of _handleSelectMouse and _handleSelectKeyboard: while the list
\* holds the mouse a change of the selection waits for the drag's end.
Select(l, holds) ==
  \/ UNCHANGED <<pending, unannounced>>
  \/ /\ pending' = IF l \in holds THEN pending \cup {l} ELSE pending
     /\ unannounced' = IF l \in holds THEN unannounced \cup {l} ELSE unannounced \ {l}

\* _itemMouseDown
Press(l) ==
  /\ l \in alive /\ over = l /\ ~pressed
  /\ pressed' = TRUE
  /\ dragging' = dragging \cup {l}
  /\ Select(l, dragging')
  /\ UNCHANGED <<tbVars, docBound, over, scrolling, zombie>>

\* _containerMouseLeave of the list the mouse was over, _containerMouseEnter
\* and _itemMouseEnter of the one it gets to.
Move(to) ==
  /\ over' = to
  /\ scrolling' = (scrolling \cup ({over} \cap dragging)) \ {to}
  /\ IF to \in dragging THEN Select(to, dragging) ELSE UNCHANGED <<pending, unannounced>>
  /\ UNCHANGED <<tbVars, docBound, pressed, dragging, zombie>>

\* Slip: the flag is reset before it is looked at.
FinishSilently(S) ==
  /\ dragging' = dragging \ S
  /\ scrolling' = scrolling \ (S \cap dragging)
  /\ pending' = pending \ S
  /\ UNCHANGED <<zombie, unannounced>>

\* _finishSelection of the lists S.
Finish(S) ==
  /\ dragging' = dragging \ S
  /\ scrolling' = scrolling \ (S \cap dragging)
  /\ pending' = pending \ (S \cap dragging)
  /\ unannounced' = unannounced \ (S \cap dragging \cap pending)
  /\ UNCHANGED zombie

\* Slip: only the row's handler ends a drag.
ReleaseOverRow ==
  /\ pressed
  /\ pressed' = FALSE
  /\ Finish({over} \cap alive)
  /\ UNCHANGED <<tbVars, docBound, over>>

\* The button goes up: _itemMouseUp of the list under the mouse, _docMouseUp
\* of every list that is bound to the document.
Release ==
  /\ pressed
  /\ pressed' = FALSE
  /\ Finish(({over} \cap alive) \cup docBound)
  /\ UNCHANGED <<tbVars, docBound, over>>

\* The timer's autoScroll: the mouse is out of the list that holds it; the
\* selection grows by a row, or not, and the timer is set again.
AutoScroll(l) ==
  /\ l \in scrolling \cap dragging
  /\ Select(l, dragging)
  /\ UNCHANGED <<tbVars, docBound, mouseVars, dragging, scrolling, zombie>>

\* The same of an instance that was destroyed: in multiple selection it throws
\* at the first row it is to select; until then, and in single selection for
\* ever, it sets its timer again and does nothing else.
ZombieThrows(l) ==
  /\ l \in zombie
  /\ zombie' = zombie \ {l}
  /\ UNCHANGED <<tbVars, docBound, mouseVars, dragging, scrolling, pending, unannounced>>

\* _itemKeyDown
Key(l) ==
  /\ l \in alive
  /\ Select(l, dragging)
  /\ UNCHANGED <<tbVars, docBound, mouseVars, dragging, scrolling, zombie>>

Next ==
  \/ \E l \in Lists : Create(l) \/ Destroy(l) \/ Press(l) \/ AutoScroll(l)
                      \/ ZombieThrows(l) \/ Key(l)
  \/ \E to \in Lists \cup {Nowhere} : Move(to)
  \/ Release \/ ToolboxEvent

Spec == Init /\ [][Next]_vars

-----------------------------------------------------------------------------
(* Properties.                                                             *)

\* What ToolboxMgr says of the toolboxes holds of those that lists create and
\* take along when they are destroyed.
AtMostOneShown == Tb!AtMostOneShown
HostKnows == Tb!HostKnows

\* A drag goes on without the button only in a list that lost its document
\* handlers to the destroy() of another, and rows are selected by a timer only
\* while their list is dragged from.
DragNeedsButton ==
  /\ dragging \cap docBound # {} => pressed
  /\ scrolling \subseteq dragging

\* What the user selected is announced by the end of the drag: a change that
\* waits belongs to a drag, and an unannounced selection to a change that waits.
AnnouncedByTheEnd == unannounced \subseteq pending /\ pending \subseteq dragging

\* "precisely mimics keyborad and mouse selection behaviour of HTML
\* select/option": letting the button go ends every drag.  Refuted once another
\* list was destroyed.
ReleaseEndsDrag == [][pressed /\ ~pressed' => dragging' = {}]_vars
=============================================================================
