CONSTANTS
  BlockSize = 2
  ByteBits = 2
  CipherIds = {"AES128_CFB", "SM4_CFB", "DES_CFB"}
  Ivs <- MCIvs
  InBytes <- MCInBytes
  MaxChunk = 3
  MaxStream = 4
  LenBits = 3
SPECIFICATION Spec
INVARIANTS
  TypeOK
  CfbMixedInvertible
PROPERTIES
  CfbRefinement
\* The caller stops once it has freed the context, so a state with no
\* successor is not an error.
CHECK_DEADLOCK FALSE
