SPECIFICATION Spec
CONSTANTS
  NoText = NoText
  Short = Short
  Hit = Hit
  Miss = Miss
  None = None
  Texts <- SearchTexts
  Searchable <- SearchSearchable
  Records <- SearchRecords
  Sizes = {2}
  HostSizes = {3}
  HostPages = {1}
  MarkupMax = 2
  Slots = {x1, x2}
  EnableLoaderIcon = TRUE
  UseAnimation = FALSE
CHECK_DEADLOCK FALSE
INVARIANT FilteredAsTyped
