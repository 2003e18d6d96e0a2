SPECIFICATION Spec
CONSTANTS
  NoText = NoText
  Short = Short
  Hit = Hit
  Miss = Miss
  None = None
  Texts <- SearchTexts
  Searchable <- SearchSearchable
  Records <- SearchRecords
  Sizes = {2, 3}
  HostSizes = {2}
  HostPages = {3}
  MarkupMax = 2
  Slots = {x1, x2}
  EnableLoaderIcon = TRUE
  UseAnimation = FALSE
CHECK_DEADLOCK FALSE
SYMMETRY SlotSymmetry
INVARIANTS
  TypeOK
  IdleControlsAgree
  NoSearchLost
  FreshPageIsCoherent
  RequestsValidPage
