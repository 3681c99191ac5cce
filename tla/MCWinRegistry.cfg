CONSTANTS
  a = a
  b = b
  long = long
  Names = {a, b, long}
  Size <- MCSize
  MaxNames <- MCMaxNames
  MaxSize = 4
  Contents <- MCContents
  DwordSize = 2
  QwordSize = 3
  Doubles <- MCDoubles
  Wrap = 16
  Nothing = Nothing
  Faults = {"info", "memory"}
SPECIFICATION CallSpec
SYMMETRY MCSymmetry
INVARIANTS NoNameTwice CompleteIsExact OnlyChangesFail AnswerIsExact
CHECK_DEADLOCK FALSE
