CONSTANTS
  Last = 2
  Nowhere = Nowhere
SPECIFICATION Spec
PROPERTIES ReleaseEndsDrag
