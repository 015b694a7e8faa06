\* Two workers racing for one turn, of the tool loop or direct.
SPECIFICATION TurnSpec
CONSTANTS
  Message = {1, 2}
  c1 = c1
  Conversation = {c1}
  ConversationOf <- SameConversation
  Worker = {w1, w2}
  NoWorker = NoWorker
  NoMessage = NoMessage
  MaxClaimAttempts = 2
  AttemptBound = 2
  Direct = {2}
  MaxIter = 1
SYMMETRY WorkerSymmetry
CONSTRAINT OneTurn
INVARIANTS
  DoneIsAnswered
  MutationAtMostOnce
PROPERTIES
  ImplementsQueue
  ImplementsPromise
