\* Two-byte blocks, a 2-bit low counter word and 2 upper bits: one Update
\* of up to 4 blocks crosses a low-word wrap, a message of 8 blocks can
\* wrap the low word twice and the whole counter once.
CONSTANTS
  BlockSize = 2
  HiBits = 2
  LoBits = 2
  MaxChunk = 9
  MaxStream = 16
SPECIFICATION Spec
INVARIANT TypeOK
PROPERTY CtrRefinement
