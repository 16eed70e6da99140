SPECIFICATION FairSpec
CONSTANTS
  a = a
  b = b
  c = c
  s1 = s1
  Ids = {a, b}
  ZeroId = zero
  Junk = junk
  Schedules = {s1}
  NoSchedule = none
  Commands <- AddB
  Rude = FALSE
  Interrupts = FALSE
  SCAN_DURATION = 2
  GATEWAY_ID = gw
  Frames <- None
  NoFrame = noframe
  BootLists <- OneA
  MaxCursor = 3
  MaxJunk = 0
PROPERTIES
  PollsRegistered
  RoundRobin
