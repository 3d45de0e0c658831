SPECIFICATION Spec
CONSTANTS
  t1 = t1
  t2 = t2
  t3 = t3
  Threads <- MCThreads
  Rounds = 3
  Messages <- MCMessages
  CheckEvery = 2
  CheckStride = 1
  Stride = 4
  Vectors <- MCVectors
  Formats <- MCFormats
  Numbers <- MCNumbers
  Doubles <- MCDoubles
  Strings <- MCStrings
  Chars <- MCChars
  Addresses <- MCAddresses
  Stars <- MCStars
  Layouts <- MCLayouts
INVARIANTS ProgramsSucceed FirstMismatch NobodyAhead PrintsRight BlocksApart
PROPERTY BarrierPassed
CHECK_DEADLOCK FALSE
