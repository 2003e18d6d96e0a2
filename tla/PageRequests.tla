---------------------------- MODULE PageRequests ----------------------------
(***************************************************************************)
(* What an asynchronous paged list promises, whatever its controls do:     *)
(*                                                                         *)
(*   - a request asks for the text that is typed at that moment;           *)
(*   - the page taken over is the answer to a request that is in flight,   *)
(*     a request is answered at most once, in any order or not at all;     *)
(*   - the rows on the screen change only into those of the page taken     *)
(*     over last, at once or later, and never back;                        *)
(*   - a closed list neither asks nor takes an answer, and its rows at     *)
(*     most disappear.                                                     *)
(***************************************************************************)
CONSTANTS Slots, Requests, Texts, None

VARIABLES
  text,         \* the text to search for, as typed so far
  outstanding,  \* outstanding[slot]: the request in flight in that slot
  taken,        \* the request whose answer the list has taken over last
  rows,         \* the request whose answer is on the screen
  closed        \* the list has been destroyed

vars == <<text, outstanding, taken, rows, closed>>

Init ==
  /\ text \in Texts
  /\ outstanding \in [Slots -> Requests \cup {None}]
  /\ taken \in Requests \cup {None}
  /\ rows \in {taken, None}
  /\ closed = FALSE

Type ==
  /\ ~closed
  /\ text' \in Texts
  /\ UNCHANGED <<outstanding, taken, rows, closed>>

Ask(slot) ==
  /\ ~closed
  /\ outstanding[slot] = None
  /\ outstanding'[slot] \in Requests
  /\ outstanding'[slot].filter = text
  /\ outstanding' = [outstanding EXCEPT ![slot] = outstanding'[slot]]
  /\ UNCHANGED <<text, taken, rows, closed>>

Answered(slot) ==
  /\ outstanding[slot] # None
  /\ outstanding' = [outstanding EXCEPT ![slot] = None]

Take(slot) ==
  /\ ~closed
  /\ Answered(slot)
  /\ taken' = outstanding[slot]
  /\ rows' \in {rows, taken'}
  /\ UNCHANGED <<text, closed>>

GiveUp(slot) ==
  /\ Answered(slot)
  /\ UNCHANGED <<text, taken, rows, closed>>

Show ==
  /\ rows' = IF closed THEN None ELSE taken
  /\ UNCHANGED <<text, outstanding, taken, closed>>

Close ==
  /\ ~closed
  /\ closed' = TRUE
  /\ UNCHANGED <<text, outstanding, taken, rows>>

Next ==
  \/ Type \/ Show \/ Close
  \/ \E slot \in Slots : Ask(slot) \/ Take(slot) \/ GiveUp(slot)

Spec == Init /\ [][Next]_vars
=============================================================================
