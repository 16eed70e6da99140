SPECIFICATION FairSpec
CONSTANTS
  f = f
  g = g
  p = p
  Frames = {f, g, p}
  Packets = {p}
  Empty = empty
  TX_TIME_OUT = 2
  Restarts = TRUE
INVARIANTS
  TypeOK
  FlagHandled
  Listening
  SentWhole
  Received
PROPERTIES
  DeliverySpec
  TransmitEnds
CONSTRAINT NotCrossed
