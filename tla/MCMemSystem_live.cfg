CONSTANTS
  Ways = 1
  Index = {0}
  Tag = {0, 1, 2}
  Word = {0, 1}
  Lane = {0}
  Byte = {0, 1}
  WordsPerBeat = 1
  MaxCount = 1
  DELAY_MEM = 2
  DELAY_PAGE_HIT = 1
  InstTag = {1, 2}
  StoreTag = {0}
  Images <- MCImages
SPECIFICATION Spec
PROPERTIES ImplementsL1Cache PipelineAdvances
CHECK_DEADLOCK TRUE
