CONSTANTS
  c1 = c1 c2 = c2 k1 = k1 k2 = k2
  Client = {c1, c2}
  Status = {}
  Key = {k1, k2}
  KeyOf <- KeysAsked
  Wants <- SettingsAsked
  NoKey = NoKey
  Nobody = Nobody
  ForkFails = TRUE
  Overlap = TRUE
  MaxPid = 2
SPECIFICATION Spec
INVARIANT ConfiguredWhole
CHECK_DEADLOCK FALSE
