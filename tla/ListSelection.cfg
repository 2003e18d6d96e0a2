\* Single and multiple selection, with pages and with a client filter.
SPECIFICATION Spec
CONSTANTS
  Setups <- AllSetups
  None = None
CHECK_DEADLOCK FALSE
INVARIANTS
  RowsShowSelection
  SelectionAnnounced
  OneItemSelected
PROPERTIES
  GesturesLeaveExclusiveAlone
  HiddenUntouched
