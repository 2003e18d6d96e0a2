SPECIFICATION Spec
CONSTANTS
  NoText = NoText
  Short = Short
  Hit = Hit
  Miss = Miss
  None = None
  Texts <- PagerTexts
  Searchable <- PagerSearchable
  Records <- EmptyRecords
  Sizes = {2}
  HostSizes = {3}
  HostPages = {1}
  MarkupMax = 2
  Slots = {x1, x2}
  EnableLoaderIcon = TRUE
  UseAnimation = TRUE
CHECK_DEADLOCK FALSE
INVARIANT RequestsValidPage
