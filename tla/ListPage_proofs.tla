--------------------------- MODULE ListPage_proofs ---------------------------
(***************************************************************************)
(* Proofs about ListPage and the toolboxes it composes, for every number   *)
(* of lists on the page.                                                   *)
(***************************************************************************)
EXTENDS ListPage, TLAPS, FiniteSetTheorems

\* The steps of the toolboxes alone: what a list's Create and Destroy and the
\* toolboxes' own events do to tbVars.
ToolboxStep ==
  \/ Tb!DocumentEvent
  \/ \E l \in Lists : Tb!Create(l) \/ Tb!Destroy(l) \/ Tb!ClickOpen(l)
                      \/ Tb!ClickOK(l) \/ Tb!ClickCancel(l)

\* The invariant that implies the one on the number of shown toolboxes.
OneShown == \A t, u \in active : t = u

-----------------------------------------------------------------------------
(* What the operations of a toolbox do.                                    *)

\* open(), called of a toolbox that is not shown: it is shown alone, or an
\* orphan among the others was met and fewer are shown than before.
LEMMA OpenAlone ==
  ASSUME NEW t \in Lists, Tb!Open(t), active \subseteq Lists, t \notin active
  PROVE  \/ active' = {t} /\ Tb!Reached(t) = active
         \/ active' = active \ Tb!Reached(t) /\ threw'
<1>1. CASE active \ {t} \subseteq alive
  <2>1. Tb!Reached(t) = active
    BY <1>1 DEF Tb!Reached
  <2>2. active' = {t}
    BY <1>1, <2>1 DEF Tb!Open
  <2> QED BY <2>1, <2>2
<1>2. CASE ~(active \ {t} \subseteq alive)
  BY <1>2 DEF Tb!Open
<1> QED BY <1>1, <1>2

\* No step of a toolbox breaks its type, shows a second toolbox or leaves a
\* host with the wrong idea.
LEMMA ToolboxesKeep ==
  ASSUME Tb!TypeOK, OneShown, HostKnows, ToolboxStep
  PROVE  Tb!TypeOK' /\ OneShown' /\ HostKnows'
<1> USE DEF Lists, Tb!Toolboxes, Tb!TypeOK, Tb!Heard, OneShown, HostKnows, Tb!HostKnows
<1>1. ASSUME NEW closed \in SUBSET Lists, NEW event \in {"closed", "accepted"},
             Tb!Close(closed, event)
      PROVE  Tb!TypeOK' /\ OneShown' /\ HostKnows'
  BY <1>1 DEF Tb!Close
<1>2. CASE Tb!DocumentEvent
  <2>1. Tb!Close(listening \cap active, "closed")
    BY <1>2 DEF Tb!DocumentEvent
  <2> QED BY <1>1, <2>1
<1>3. ASSUME NEW l \in Lists, Tb!Create(l) PROVE Tb!TypeOK' /\ OneShown' /\ HostKnows'
  BY <1>3 DEF Tb!Create
<1>4. ASSUME NEW l \in Lists, Tb!Destroy(l) PROVE Tb!TypeOK' /\ OneShown' /\ HostKnows'
  BY <1>4 DEF Tb!Destroy
<1>5. ASSUME NEW l \in Lists, Tb!ClickOpen(l) PROVE Tb!TypeOK' /\ OneShown' /\ HostKnows'
  <2>1. CASE l \in active
    <3>1. Tb!Close({l}, "closed")
      BY <1>5, <2>1 DEF Tb!ClickOpen
    <3> QED BY <1>1, <3>1
  <2>2. CASE l \notin active
    <3>1. Tb!Open(l)
      BY <1>5, <2>2 DEF Tb!ClickOpen
    <3>2. Tb!Reached(l) \subseteq active
      BY DEF Tb!Reached
    <3>3. heard' = [u \in Lists |-> IF u = l THEN "opened"
                                    ELSE IF u \in Tb!Reached(l) THEN "closed" ELSE heard[u]]
      BY <3>1 DEF Tb!Open
    <3>4. UNCHANGED <<alive, listening>> /\ threw' \in BOOLEAN /\ (threw => threw')
      BY <3>1 DEF Tb!Open
    <3>5. CASE active' = {l} /\ Tb!Reached(l) = active
      BY <3>3, <3>4, <3>5
    <3>6. CASE active' = active \ Tb!Reached(l) /\ threw'
      BY <2>2, <3>3, <3>4, <3>6
    <3> QED BY <2>2, <3>1, <3>5, <3>6, OpenAlone
  <2> QED BY <2>1, <2>2
<1>6. ASSUME NEW l \in Lists, Tb!ClickOK(l) PROVE Tb!TypeOK' /\ OneShown' /\ HostKnows'
  BY <1>1, <1>6 DEF Tb!ClickOK
<1>7. ASSUME NEW l \in Lists, Tb!ClickCancel(l) PROVE Tb!TypeOK' /\ OneShown' /\ HostKnows'
  BY <1>1, <1>7 DEF Tb!ClickCancel
<1> QED BY <1>2, <1>3, <1>4, <1>5, <1>6, <1>7 DEF ToolboxStep

-----------------------------------------------------------------------------
(* The inductive invariant.                                                *)

\* Only a list that has an instance is bound to the document: a new list
\* finds no drag of its own under way when it is bound.
IInv ==
  /\ TypeOK
  /\ OneShown
  /\ HostKnows
  /\ docBound \subseteq alive
  /\ DragNeedsButton
  /\ AnnouncedByTheEnd

LEMMA InitInv == Init => IInv
<1> SUFFICES ASSUME Init PROVE IInv
  OBVIOUS
<1>1. TypeOK
  BY DEF Init, TypeOK, Tb!Init, Tb!TypeOK, Tb!Heard
<1> QED
  BY <1>1 DEF Init, IInv, OneShown, HostKnows, Tb!Init, Tb!HostKnows, DragNeedsButton,
              AnnouncedByTheEnd

\* A step that leaves the toolboxes alone keeps what is said of them.
LEMMA ToolboxesRest ==
  ASSUME IInv, UNCHANGED tbVars
  PROVE  Tb!TypeOK' /\ OneShown' /\ HostKnows'
BY DEF IInv, TypeOK, tbVars, Tb!TypeOK, OneShown, HostKnows, Tb!HostKnows

\* A selection that changes in a list keeps what waits within the drags, the
\* list's own among them while it holds the mouse.
LEMMA SelectKeeps ==
  ASSUME NEW l, NEW holds, Select(l, holds), AnnouncedByTheEnd, dragging \subseteq holds
  PROVE  unannounced' \subseteq pending' /\ pending' \subseteq holds
BY DEF Select, AnnouncedByTheEnd

LEMMA NextInv == IInv /\ [Next]_vars => IInv'
<1> SUFFICES ASSUME IInv, [Next]_vars PROVE IInv'
  OBVIOUS
<1> USE DEF IInv, TypeOK, DragNeedsButton, AnnouncedByTheEnd
<1>a. UNCHANGED tbVars => Tb!TypeOK' /\ OneShown' /\ HostKnows' /\ alive' = alive
  BY ToolboxesRest DEF tbVars
<1>b. ToolboxStep => Tb!TypeOK' /\ OneShown' /\ HostKnows'
  BY ToolboxesKeep
<1>1. ASSUME NEW l \in Lists, Create(l) PROVE IInv'
  <2>1. Tb!TypeOK' /\ OneShown' /\ HostKnows'
    BY <1>b, <1>1 DEF Create, ToolboxStep
  <2>2. l \notin alive /\ alive' = alive \cup {l}
    BY <1>1 DEF Create, Tb!Create
  <2> QED BY <1>1, <2>1, <2>2 DEF Create, mouseVars, dragVars
<1>2. ASSUME NEW l \in Lists, Destroy(l) PROVE IInv'
  <2>1. Tb!TypeOK' /\ OneShown' /\ HostKnows'
    BY <1>b, <1>2 DEF Destroy, ToolboxStep
  <2>2. alive' = alive \ {l}
    BY <1>2 DEF Destroy, Tb!Destroy
  <2> QED BY <1>2, <2>1, <2>2 DEF Destroy, mouseVars
<1>3. ASSUME NEW l \in Lists, Press(l) PROVE IInv'
  <2>1. unannounced' \subseteq pending' /\ pending' \subseteq dragging'
    BY <1>3, SelectKeeps DEF Press
  <2> QED BY <1>a, <1>3, <2>1 DEF Press
<1>4. ASSUME NEW l \in Lists, AutoScroll(l) PROVE IInv'
  <2>1. unannounced' \subseteq pending' /\ pending' \subseteq dragging
    BY <1>4, SelectKeeps DEF AutoScroll
  <2> QED BY <1>a, <1>4, <2>1 DEF AutoScroll, mouseVars
<1>5. ASSUME NEW l \in Lists, ZombieThrows(l) PROVE IInv'
  BY <1>a, <1>5 DEF ZombieThrows, mouseVars
<1>6. ASSUME NEW l \in Lists, Key(l) PROVE IInv'
  <2>1. unannounced' \subseteq pending' /\ pending' \subseteq dragging
    BY <1>6, SelectKeeps DEF Key
  <2> QED BY <1>a, <1>6, <2>1 DEF Key, mouseVars
<1>7. ASSUME NEW to \in Lists \cup {Nowhere}, Move(to) PROVE IInv'
  <2>1. unannounced' \subseteq pending' /\ pending' \subseteq dragging
    BY <1>7, SelectKeeps DEF Move
  <2> QED BY <1>a, <1>7, <2>1 DEF Move
<1>8. CASE Release
  BY <1>a, <1>8 DEF Release, Finish
<1>9. CASE ToolboxEvent
  <2>1. Tb!TypeOK' /\ OneShown' /\ HostKnows'
    BY <1>b, <1>9 DEF ToolboxEvent, ToolboxStep
  <2>2. alive' = alive
    BY <1>9 DEF ToolboxEvent, Tb!DocumentEvent, Tb!ClickOpen, Tb!ClickOK, Tb!ClickCancel,
                Tb!Open, Tb!Close
  <2> QED BY <1>9, <2>1, <2>2 DEF ToolboxEvent, mouseVars, dragVars
<1>10. CASE UNCHANGED vars
  BY <1>a, <1>10 DEF vars, mouseVars, dragVars
<1> QED
  BY <1>1, <1>2, <1>3, <1>4, <1>5, <1>6, <1>7, <1>8, <1>9, <1>10 DEF Next

LEMMA Invariance == Spec => []IInv
<1> QED BY InitInv, NextInv, PTL DEF Spec

-----------------------------------------------------------------------------
(* The theorems.                                                           *)

\* Every state of every behaviour has the types of TypeOK: what a list drags,
\* scrolls or has to announce, it does with an instance.
THEOREM TypeCorrect == Spec => []TypeOK
<1>1. IInv => TypeOK
  BY DEF IInv
<1> QED BY Invariance, <1>1, PTL

\* However many lists are created, destroyed and opened, in whatever order, no
\* two toolboxes of the page are shown at once.
THEOREM AtMostOneShownHolds == Spec => []AtMostOneShown
<1>1. IInv => AtMostOneShown
  <2>a. Tb!Cardinality(active) = Cardinality(active)
    BY DEF Tb!Cardinality, Cardinality
  <2> SUFFICES ASSUME OneShown PROVE Cardinality(active) <= 1
    BY <2>a DEF IInv, AtMostOneShown, Tb!AtMostOneShown
  <2>1. CASE active = {}
    BY <2>1, FS_EmptySet
  <2>2. CASE active # {}
    <3>1. PICK t \in active : active = {t}
      BY <2>2 DEF OneShown
    <3> QED BY <3>1, FS_Singleton
  <2> QED BY <2>1, <2>2
<1> QED BY Invariance, <1>1, PTL

\* The host of a toolbox knows whether it is shown, as long as no handler threw.
THEOREM HostKnowsHolds == Spec => []HostKnows
<1>1. IInv => HostKnows
  BY DEF IInv
<1> QED BY Invariance, <1>1, PTL

\* A drag outlives the button only in a list that lost its document handlers,
\* and the scroll timer runs only during a drag.
THEOREM DragNeedsButtonHolds == Spec => []DragNeedsButton
<1>1. IInv => DragNeedsButton
  BY DEF IInv
<1> QED BY Invariance, <1>1, PTL

\* No list ends a drag with a selection its host was not told of.
THEOREM AnnouncedByTheEndHolds == Spec => []AnnouncedByTheEnd
<1>1. IInv => AnnouncedByTheEnd
  BY DEF IInv
<1> QED BY Invariance, <1>1, PTL
=============================================================================
