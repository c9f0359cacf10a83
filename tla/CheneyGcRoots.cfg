CONSTANTS
  Ids = {o1, o2}
  Slots = {"a"}
  Globals = {}
  CVars = {"c", "d"}
  CShapes <- String
  MaxFramesInC = 1
  Shapes <- Several
  Raw <- FirstBlock
  MaxFrames = 2
  InitialWords = 7
  PageWords = 2
  MaxWords = 16
SYMMETRY Names
SPECIFICATION Spec
PROPERTIES
  CollectionInvisible
CHECK_DEADLOCK FALSE
