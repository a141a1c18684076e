\* Two-byte blocks of 2-bit bytes; chunks of up to 3 bytes resume a block
\* at offset 1 and cross into the next block; a message spans 2 blocks.
CONSTANTS
  BlockSize = 2
  ByteBits = 2
  Ivs <- MCIvs
  InBytes <- MCInBytes
  MaxChunk = 3
  MaxStream = 4
SPECIFICATION Spec
PROPERTIES
  OfbRefinement
