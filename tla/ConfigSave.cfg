SPECIFICATION SaveSpec
CONSTANTS
  Savers = {worker, fuse}
  Chunks = 2
  MaxVersion = 3
INVARIANTS
  NeverBroken
  SavedStays
PROPERTIES
  StoreSpec
