\* One context driven through the whole lifecycle, including Reinit,
\* DeInit and Free, with every padding scheme except ZEROS.  The uint32_t
\* lengths are scaled to 2 bits, so that an Update of 3 bytes on a cache
\* of 1 or 2 makes inLen + cacheLen wrap, as inLen near 2^32 does in the
\* code; capacities are kept within the width as well.
CONSTANTS
  Ctxs = {c1}
  BlockSize = 2
  InBytes <- MCInBytes
  Paddings = {"NONE", "ISO7816", "X923", "PKCS7"}
  MaxChunk = 3
  MaxStream = 4
  CipherKey = 3
  LenBits = 2
SPECIFICATION Spec
INVARIANT TypeOK
INVARIANT NoOutputOverrun
INVARIANT OutLenWithinWritten
