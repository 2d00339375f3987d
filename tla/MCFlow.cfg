CONSTANTS
  None = None
  Node <- Nodes
  Graph <- Graphs
  MaxNodes = 18
  MaxLaps = 3
SPECIFICATION Spec
INVARIANTS TypeOK NothingSpins CallsAreFresh FollowsGraph
PROPERTIES StopWins StopEnds EndsOrWaits
CHECK_DEADLOCK FALSE
