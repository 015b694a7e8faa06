\* The conversation gate with two workers.
SPECIFICATION QueueSpec
CONSTANTS
  Message = {1, 2}
  c1 = c1
  Conversation = {c1}
  ConversationOf <- OneConversation
  Worker = {w1, w2}
  NoWorker = NoWorker
  NoMessage = NoMessage
  MaxClaimAttempts = 2
  AttemptBound = 3
INVARIANTS
  OneLiveTurnPerConversation
