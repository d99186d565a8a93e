SPECIFICATION FairSpec
CONSTANTS
  imgA = imgA
  imgB = imgB
  Images = {imgA, imgB}
  Old = Old
  PageCount <- MCPageCount
  MaxPage = 2
  Tries = 2
  Users = {u1, u2}
  NoUser = NoUser
INVARIANTS
  BootableIsWhole
  DoneIsWhole
  JoinNeverBlocks
PROPERTIES
  OneThread
  UpdateEnds
  UserReturns
