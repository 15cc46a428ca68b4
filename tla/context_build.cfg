SPECIFICATION Spec
CHECK_DEADLOCK FALSE
CONSTANTS
  Nothing = Nothing
  Key <- MCKey
  Rank <- MCRank
  Content <- MCContent
  Cost <- MCCost
  PathCost <- MCPathCost
  Requests <- MCRequests
  Follows <- MCFollows
  TurnFile <- MCTurnFile
  Worlds <- MCWorlds
INVARIANTS TypeOK Accounted Blinded Unrepeated NothingMoreFits GreedyByPriority CacheablePrefix NeverBarred
