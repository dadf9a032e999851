SPECIFICATION FairSpec
CONSTANTS
  Modes = {"grpc", "grpcBroadcast", "stream", "tcp", "tcpBroadcast"}
  NumSenders = 2
  NumMessages = 2
  NumReceivers = 2
  MsgSize = 3
  Buffer = 2
  MaxEntries = 4
  AllowFailures = TRUE
INVARIANTS MessagingInv RoundsInStep AnswersFollowBatch
PROPERTIES MessagingClientEnds
