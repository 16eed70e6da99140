SPECIFICATION FairSpec
CONSTANTS
  PACKET_SIZE = 60
  BASE_DATA = 10
  RESPONSE_DATA = 3
  MaxId = 2147483647
  GATEWAY_ID <- Gw
  IndexValues = 4
  Requests <- Polls
  Answers <- Responses
  NodeLists <- Lists
INVARIANTS
  DownExact
  UpExact
  SenderFound
PROPERTIES
  OnlyRepeatsDropped
  SearchEnds
