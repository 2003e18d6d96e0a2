----------------------------- MODULE ToolboxMgr -----------------------------
(***************************************************************************)
(* The toolbox_mgr jQuery plugin: the pop-up toolboxes of one page.  Every *)
(* instance binds its own button, OK and Cancel, and two handlers on the   *)
(* document, all in the one event namespace the instances share.           *)
(***************************************************************************)
EXTENDS Integers, FiniteSets

CONSTANT Last    \* a positive number: the toolboxes are numbered in document order

Toolboxes == 1 .. Last

VARIABLES
  alive,      \* the toolboxes that have an instance
  active,     \* the ones shown: they have the class active
  listening,  \* instances whose click and keyup are bound to the document
  heard,      \* the last event of the toolbox its host got; history
  threw       \* some handler has thrown; history

tbVars == <<alive, active, listening, heard, threw>>

Heard == {"nothing", "opened", "closed", "accepted"}

TypeOK ==
  /\ alive \subseteq Toolboxes
  /\ active \subseteq Toolboxes
  /\ listening \subseteq Toolboxes
  /\ heard \in [Toolboxes -> Heard]
  /\ threw \in BOOLEAN

Init ==
  /\ alive = {}
  /\ active = {}
  /\ listening = {}
  /\ heard = [t \in Toolboxes |-> "nothing"]
  /\ threw = FALSE

-----------------------------------------------------------------------------
\* $(element).toolbox_mgr(options), on an element that has no instance yet.
Create(t) ==
  /\ t \notin alive
  /\ alive' = alive \cup {t}
  /\ listening' = listening \cup {t}
  /\ UNCHANGED <<active, heard, threw>>

\* close(): the event, then the class.
Close(closed, event) ==
  /\ active' = active \ closed
  /\ heard' = [t \in Toolboxes |-> IF t \in closed THEN event ELSE heard[t]]
  /\ UNCHANGED <<alive, listening, threw>>

\* The toolboxes open() gets to close before it meets one that is shown and
\* has no instance any more: .data(PLUGIN) is undefined there.
Reached(t) ==
  {u \in active \ {t} : \A v \in active \ {t} : v <= u => v \in alive}

\* Slip: only the toolbox itself is excluded, the ones after it are forgotten.
OpenEarlierOnly(t) ==
  /\ active' = {u \in active : u > t} \cup {t}
  /\ heard' = [u \in Toolboxes |->
                 IF u = t THEN "opened" ELSE IF u \in active /\ u < t THEN "closed" ELSE heard[u]]
  /\ UNCHANGED <<alive, listening, threw>>

\* Slip: the event is triggered by close only.
OpenSilently(t) ==
  /\ active' = (active \ Reached(t)) \cup {t}
  /\ heard' = [u \in Toolboxes |-> IF u \in Reached(t) THEN "closed" ELSE heard[u]]
  /\ UNCHANGED <<alive, listening, threw>>

\* open(): tells the host, closes the others in document order, shows itself.
Open(t) ==
  LET complete == active \ {t} \subseteq alive
  IN /\ active' = (active \ Reached(t)) \cup (IF complete THEN {t} ELSE {})
     /\ heard' = [u \in Toolboxes |->
                    IF u = t THEN "opened"
                    ELSE IF u \in Reached(t) THEN "closed" ELSE heard[u]]
     /\ threw' = (threw \/ ~complete)
     /\ UNCHANGED <<alive, listening>>

\* _clickOpen
ClickOpen(t) ==
  /\ t \in alive
  /\ IF t \in active THEN Close({t}, "closed") ELSE Open(t)

\* _clickClose of OK or Enter, and of Cancel; close(ok) called by the host.
ClickOK(t) == t \in alive \cap active /\ Close({t}, "accepted")
ClickCancel(t) == t \in alive \cap active /\ Close({t}, "closed")

\* _docClick outside of all toolboxes and _docKeyPress with Escape: every
\* instance that still listens closes itself.
DocumentEvent ==
  /\ listening \cap active # {}
  /\ Close(listening \cap active, "closed")

\* destroy(): $(document).off(scope) unbinds the handlers of all instances,
\* and the class active stays.
Destroy(t) ==
  /\ t \in alive
  /\ alive' = alive \ {t}
  /\ listening' = {}
  /\ UNCHANGED <<active, heard, threw>>

Next ==
  \/ \E t \in Toolboxes :
       Create(t) \/ ClickOpen(t) \/ ClickOK(t) \/ ClickCancel(t) \/ Destroy(t)
  \/ DocumentEvent

Spec == Init /\ [][Next]_tbVars

-----------------------------------------------------------------------------
(* Properties.                                                             *)

\* Two toolboxes are never shown at once, although a toolbox that lost its
\* instance while it was shown can be closed by nobody: the attempt to open
\* another one then fails before that one is shown.
AtMostOneShown == Cardinality(active) <= 1

\* The host of a toolbox that is shown was told so, whatever handlers threw;
\* as long as none threw, the host of one that is not shown knows that too.
HostKnows ==
  \A t \in Toolboxes :
    /\ t \in active => heard[t] = "opened"
    /\ ~threw /\ heard[t] = "opened" => t \in active

\* open() closes the other toolboxes: when a click on its button opens a
\* toolbox, that one is the only one shown.  Refuted once a list was destroyed
\* with its toolbox open.
OpensAlone ==
  [][\A t \in Toolboxes :
       ClickOpen(t) /\ heard'[t] = "opened" /\ heard[t] # "opened"
         => active' = {t}]_tbVars
=============================================================================
