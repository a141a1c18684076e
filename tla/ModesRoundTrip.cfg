\* Sender and receiver with padding NONE, ISO7816, X9.23 and PKCS7.  The
\* caller stops once both Finals are done, so deadlock is not an error.
CONSTANTS
  Ctxs = {ce, cd}
  EncCtx = ce
  DecCtx = cd
  BlockSize = 2
  InBytes = {0, 1}
  Paddings = {"NONE", "ISO7816", "X923", "PKCS7"}
  MaxChunk = 3
  MaxStream = 4
  CipherKey = 3
  LenBits = 4
SPECIFICATION RTSpec
INVARIANT RoundTrip
INVARIANT StreamConsistency
CHECK_DEADLOCK FALSE
