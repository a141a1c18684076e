\* ISO/IEC 7816-4 and PKCS#7 unpadding over every 3-byte block.
CONSTANTS
  BlockSize = 3
  Schemes = {"ISO7816", "PKCS7"}
  BlockBytes = {0, 1, 2, 3, 4, 128}
SPECIFICATION PadSpec
INVARIANT UnpadOnlyPadded
CHECK_DEADLOCK FALSE
