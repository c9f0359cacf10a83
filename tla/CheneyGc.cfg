CONSTANTS
  Ids = {o1, o2, o3}
  Slots = {"a"}
  Globals = {"g"}
  CVars = {}
  CShapes <- Cells
  MaxFramesInC = 1
  Shapes <- MixedOnly
  Raw <- FirstBlock
  MaxFrames = 1
  InitialWords = 15
  PageWords = 2
  MaxWords = 27
SPECIFICATION FairSpec
INVARIANTS
  TypeOK
  NoStaleReference
  ExactlyReachableKept
PROPERTIES
  CollectionInvisible
  FollowsSizing
  CollectionEnds
CHECK_DEADLOCK FALSE
