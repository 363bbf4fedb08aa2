CONSTANTS
  ByteBits = 1
  Rounds = 16
  InitialP <- PBox
  InitialS <- SBox
  Text <- Texts
  IV <- Vectors
  Key <- Keys
  Junk <- Memory
  NoKey = NoKey
SPECIFICATION Spec
INVARIANT RoundTrip
CHECK_DEADLOCK FALSE
