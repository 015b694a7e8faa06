\* A split of a second turn.
SPECIFICATION LoopSpec
CONSTANTS
  Tool = {"bash", "subagent"}
  ParallelSafe = {"subagent"}
  MaxTurns = 2
  MaxRounds <- TwoEach
  LaterRounds = 2
  MaxCalls = 1
  Compaction = {TRUE}
  HistoryLimit = 0
  QueuedSends = FALSE
  Faults = {}
INVARIANTS
  NothingForgotten
