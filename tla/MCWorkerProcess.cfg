\* One worker process, a turn of the tool loop.
SPECIFICATION FairProcessSpec
CONSTANTS
  Message = {1}
  c1 = c1
  Conversation = {c1}
  ConversationOf <- SameConversation
  Worker = {w1}
  NoWorker = NoWorker
  NoMessage = NoMessage
  MaxClaimAttempts = 2
  AttemptBound = 3
  Direct = {}
  MaxIter = 2
INVARIANTS
  TranscriptClosed
  NoResumePastUnknown
  EffectIsRequested
PROPERTIES
  ClaimsAfterSignal
  ShutdownEnds
