SPECIFICATION Spec
CONSTANT MaxFrame = 2
INVARIANTS
  DimensionsAfterOpen
