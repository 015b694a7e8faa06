\* A long first turn, or three short ones, compacted or cut to the last rows.
SPECIFICATION FairLoopSpec
CONSTANTS
  Tool = {"bash", "subagent"}
  ParallelSafe = {"subagent"}
  MaxTurns = 3
  MaxRounds <- ThreeOneNone
  LaterRounds = 1
  MaxCalls = 2
  Compaction = {TRUE, FALSE}
  HistoryLimit = 3
  QueuedSends = FALSE
  Faults = {"llm", "persist", "backstop"}
INVARIANTS
  SentClosed
  NothingForgotten
  SeenIsDurable
  AnsweredTurnsClosed
PROPERTIES
  NoLlmCallAfterAbort
  NoPersistAfterAbort
  LoopSettles
