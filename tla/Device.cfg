SPECIFICATION Spec
INVARIANTS
  HeldExact
  UsesLive
  ReleasedOnce
  Quiet
