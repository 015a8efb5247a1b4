SPECIFICATION Spec
CONSTANTS
  Values = {v1, v2}
  Raw = raw
  NoElement = none
  Words = 16
  FirstOffset = 4
  MinCapacity = 2
  MaxCapacity = 4
PROPERTY ImplementsDeque
CHECK_DEADLOCK FALSE
