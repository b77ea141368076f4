SPECIFICATION EditSpec
CONSTANTS
  Typed <- MCTyped
  Chars <- MCChars
  Whitespace <- MCWhitespace
  SizeOf <- MCSizeOf
  MaxLength = 4
  MaxPaste = 4
INVARIANTS
  MovesAreRight
  PasteIsClean
