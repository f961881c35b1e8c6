\* Six blocks of four bytes and a 6-bit word; requests of 1, 2, 3, 4 and 7
\* blocks, of which the last never fits.
CONSTANTS
  Total = 6
  BlockSize = 4
  Saddr = 8
  WordMod = 64
  Sizes = {1, 8, 9, 16, 26}
SPECIFICATION Spec
INVARIANT EnoughBlocks
