CONSTANTS
  BufferSize = 17
  Word = 2
  Sizes <- MCSizes
  WrapMarker = WrapMarker
  Unwritten = Unwritten
SPECIFICATION Spec
INVARIANTS
  TypeOK
  AllocatedIsLive
  PopsFindEveryBlock
  BlocksAreDisjoint
  RefusedOnlyWithoutRoom
  ValidAllocation
