CONSTANTS
  c1 = c1 c2 = c2 c3 = c3 k1 = k1 k2 = k2 long = long
  Client = {c1, c2, c3}
  Status = {c3}
  Key = {k1, k2}
  KeyOf <- KeysAsked
  Wants <- SettingsAsked
  NoKey = NoKey
  Nobody = Nobody
  ForkFails = TRUE
  Overlap = FALSE
  MaxPid = 3
  MaxInterrupts = 1
SPECIFICATION ToolSpec
INVARIANTS ToolTypeOK Adopted   StatusTrue
PROPERTY ToolsEnd
CHECK_DEADLOCK FALSE
