\* Decrypting Final under ZEROS padding: Mode_BlockUnPadding leaves
\* *outLen at the caller's capacity.
CONSTANTS
  Ctxs = {c1}
  BlockSize = 2
  InBytes <- MCInBytes
  Paddings = {"ZEROS"}
  MaxChunk = 2
  MaxStream = 2
  CipherKey = 3
  LenBits = 4
SPECIFICATION Spec
INVARIANT OutLenWithinWritten
