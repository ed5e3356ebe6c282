SPECIFICATION Spec
CONSTANTS
  Fluents <- MCFluents
  Actions <- MCActions
  Pre <- MCPre
  Add <- MCAdd
  Del <- MCDel
  CondEffects <- MCCondEffects
  ActionCost <- MCActionCost
  Init0 <- MCInit0
  Goal <- MCGoal
  None = None
INVARIANT StatesAreRestored
INVARIANT NoveltyTablesAreExact
INVARIANT CountsFollowPaths
INVARIANT KeptNodesAreBounded
INVARIANT DeadEndsAreReal
INVARIANT DuplicatesAreCovered
