SPECIFICATION Spec
CONSTANTS
  a = a
  b = b
  c = c
  s1 = s1
  Ids = {a}
  ZeroId = zero
  Junk = junk
  Schedules = {s1}
  NoSchedule = none
  Commands <- AddRemoveA
  Rude = TRUE
  Interrupts = TRUE
  SCAN_DURATION = 2
  GATEWAY_ID = gw
  Frames <- None
  NoFrame = noframe
  BootLists <- Empty0
  MaxCursor = 3
  MaxJunk = 0
INVARIANTS
  ReplyTruthful
  RegistryUnique
  ExactlyOnce
  ClientInStep
