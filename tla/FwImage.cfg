SPECIFICATION LoadSpec
CONSTANTS
  MaxSize = 5
  Word = 16
  Linear = 4
  Segment = 2
  Addresses = {0, 1, 3}
  Bases = {0, 1, 3}
  Contents <- MCContents
  MaxLines = 5
INVARIANTS
  NothingBeyond
  ImageIsTheFile
CHECK_DEADLOCK FALSE
