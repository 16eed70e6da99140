SPECIFICATION FairSpec
CONSTANTS
  a = a
  b = b
  max_X = 2
  max_Y = 2
  Chars = {a, b}
  Blank = blank
  Picture = picture
  Unknown = unknown
  NoRow = norow
  WorkLines <- Info
  AppLines <- NodeInfo
  Texts <- SomeTexts
  MaySkip = {0}
  NeedsFile = {0}
  WALL_TIME = 1
  Title <- LoRaGateway
  Wait <- PleaseWait
  GoodBye <- Bye
INVARIANTS
  RowsExact
  NothingLeft
PROPERTIES
  Refreshed
