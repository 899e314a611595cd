SPECIFICATION LibrarySpec
CONSTANTS
  Parts = {"map", "small", "parse", "items", "list", "alone", "tree", "shared", "copy", "user", "asm", "string", "number", "print", "decimal"}
  W = 4
  NBits = 6
  Operands <- FewOperands
  MaxOrder = 2
  ChunkBits = 2
  Chars = {"0", "1", ",", " ", "x", "NUL"}
  MaxLen = 6
  List = FALSE
  h1 = h1
  h2 = h2
  e1 = e1
  e2 = e2
  e3 = e3
  Poison1 = Poison1
  Poison2 = Poison2
  NoNode = NoNode
INVARIANTS
  TextExact
PROPERTIES
  ContainersHold
CHECK_DEADLOCK FALSE
