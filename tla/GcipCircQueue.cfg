SPECIFICATION Spec
CONSTANTS
  Size = 3
  WrapBit = 4
  Values = {1, 2}
INVARIANTS
  TypeOK
  OccupancyExact
PROPERTY ImplementsFifo
