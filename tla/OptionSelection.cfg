\* Single and multiple selection, with pages that fade or appear at once, and
\* with a client filter.
CONSTANTS
  Setups <- AllSetups
SPECIFICATION Spec
INVARIANTS UiIsConfig SelectionAnnounced OneItemSelected
PROPERTIES ChangesLeaveExclusiveAlone
