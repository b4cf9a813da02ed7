SPECIFICATION Spec
CONSTANTS
  MemSize = 192
  Texts <- MCTexts
  Numbers = {0, 1}
  MaxLen = 2
  MaxLoads = 2
INVARIANTS ArgumentsArrive ResultArrives WritesStayInBlocks FlatFormsFit
