CONSTANTS
  MaxRetries = 2
  Header = 2
  MaxPayload = 4
  MaxAccum = 6
  MaxChunk = 6
  FrameLens = {3, 4, 8}
  MaxFrames = 4
SPECIFICATION PtySpec
INVARIANTS NothingHeldBack DropsOnlyWhenBehind
PROPERTY ConnectSettles
CHECK_DEADLOCK FALSE
