\* Three lists on the page.
CONSTANTS
  Last = 3
  Nowhere = Nowhere
SPECIFICATION Spec
INVARIANTS AtMostOneShown HostKnows DragNeedsButton AnnouncedByTheEnd
