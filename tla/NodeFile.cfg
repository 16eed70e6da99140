SPECIFICATION Spec
CONSTANTS
  a = a
  b = b
  c = c
  stray = stray
  Ids = {a, b, c, stray}
  NoFile = nofile
  FirstFiles <- Files
  Tight = {2}
  Stray = stray
INVARIANTS
  TypeOK
  RestartExact
  FileInStep
