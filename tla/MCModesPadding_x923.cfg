\* ANSI X9.23 unpadding over every 3-byte block.
CONSTANTS
  BlockSize = 3
  Schemes = {"X923"}
  BlockBytes = {0, 1, 2, 3, 4, 128}
SPECIFICATION PadSpec
INVARIANT UnpadOnlyPadded
CHECK_DEADLOCK FALSE
