SPECIFICATION Spec
CONSTANTS
  Processes = {p1, p2}
  Commands <- AllCommands
  Frequencies = {433, 470}
  SFs = {6, 11, 12}
  bandwidth_t = {7, 9}
  codingrate_t = {1, 4}
  power_t = {246}
  SyncWords = {52}
  lora_mode_t = {2, 5}
  Garbage = {0, 139}
SYMMETRY Symmetry
CONSTRAINT OneKind
INVARIANTS
  RestKept
  SettingsExact
  LowDataRateFits
