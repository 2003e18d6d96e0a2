\* A client filter.
CONSTANTS
  Setups <- Hiding
SPECIFICATION Spec
PROPERTY UnselectDeselects
