CONSTANTS
  Blocks <- MCBlocks
  Paths <- MCPaths
  Below <- MCBelow
  Bodies <- MCBodies
  Steps = 27
SPECIFICATION MovesSpec
INVARIANTS UseAfterMoveReported
\* a body is checked once
CHECK_DEADLOCK FALSE
