CONSTANTS
  MaxRetries = 1
  Header = 1
  MaxPayload = 8
  MaxAccum = 4
  MaxChunk = 4
  FrameLens = {2, 3}
  MaxFrames = 2
  MaxReloads = 2
  MaxKeys = 1
SPECIFICATION Spec
INVARIANT FallbackAlways
CHECK_DEADLOCK FALSE
