CONSTANTS
  BlockSize = 2
  ByteBits = 2
  CipherIds = {"AES128_CFB", "SM4_CFB", "DES_CFB"}
  Ivs <- MCIvs
  InBytes <- MCInBytes
  MaxChunk = 3
  MaxStream = 4
  LenBits = 2
SPECIFICATION Spec
PROPERTIES
  CfbRefinement
\* The caller stops once it has freed the context.
CHECK_DEADLOCK FALSE
