\* CRYPT_CTRL_REINIT_STATUS mid-stream or after Final: MODES_SetIv resets
\* the offset but not the cached block.
CONSTANTS
  Ctxs = {c1}
  BlockSize = 2
  InBytes <- MCInBytes
  Paddings = {"NONE", "PKCS7"}
  MaxChunk = 3
  MaxStream = 3
  CipherKey = 3
  LenBits = 4
SPECIFICATION Spec
INVARIANT StreamConsistency
