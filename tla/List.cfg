\* A small tree in every buffer of up to 390 bytes, small trees with awkward
\* strings and all arguments, and the largest trees in 64 kB.
SPECIFICATION MCSpec
CONSTANTS
  Infos <- MCInfos
  Arguments <- MCArguments
  Buffers <- MCBuffers
  Words <- MCWords
  Rank <- MCRank
  NodeSize = 32
INVARIANTS BlocksDisjoint OutputFaithful RoomForAll
\* The program ends.
CHECK_DEADLOCK FALSE
