SPECIFICATION MCSpec
CHECK_DEADLOCK FALSE
CONSTANTS
  Items <- MCItems
  Rank <- MCRank
  None = None
  Null = Null
  Pointers = {a, b}
  Room = 3
  Cameras = {c1, c2}
  NoBlock = NoBlock
  Blocks = {s1, s2}
SYMMETRY Interchangeable
INVARIANTS SentencesAgree LastValueHolds CameraIsServed
PROPERTIES IsRankedSet IsListOfPointers
