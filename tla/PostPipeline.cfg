SPECIFICATION FairPipelineSpec
CONSTANTS
  r1 = r1
  r2 = r2
  Channels = {c1}
  NoChannel = NoChannel
  Requests <- MCRequests
  Messages <- MCMessages
  Integrations = {barsukas}
  Streams = {s1}
  Cap = 1
INVARIANTS
  OnlyCommittedBroadcast
  BroadcastOnce
  ReplyFollowsTrigger
  QuestionBeforeAnswer
  AcknowledgedIsPublished
CHECK_DEADLOCK FALSE
PROPERTY PostTerminates
