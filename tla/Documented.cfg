SPECIFICATION Spec
CONSTANTS
  a = a
  b = b
  c = c
  s1 = s1
  Ids = {a}
  ZeroId = zero
  Junk = junk
  Schedules = {s1}
  NoSchedule = none
  Commands <- None
  Rude = TRUE
  Interrupts = FALSE
  SCAN_DURATION = 2
  GATEWAY_ID = gw
  Frames <- FourFields
  NoFrame = noframe
  BootLists <- OneA
  MaxCursor = 3
  MaxJunk = 0
INVARIANTS
  DocumentedResponseAnswers
