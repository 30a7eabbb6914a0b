CONSTANTS
  InitialSize = 2
  Pieces = {0, 1, 3, 9}
  MaxReply = 17
  Requests <- MCRequests
  Retries = 2
  Lines <- MCLines
  MaxLines = 4
  Listings <- MCListings
SPECIFICATION RequestSpec
INVARIANTS
  TypeOK
  RoomForNul
  TextIsReply
  SignedIsSent
  BodyAnnounced
  ReplyReleased
  Addressed
  ResultIsReply
