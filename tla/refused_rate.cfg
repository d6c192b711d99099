SPECIFICATION Spec
CONSTANTS
  Ceiling = 16
  Floor = 2
  MinStep = 1
  BudgetFloor = 8
  Links = {1, 10, 60}
  Contents = {0, 1, 3, 4}
  MaxMoves = 1
PROPERTIES
  RefusalKeepsBudget
CHECK_DEADLOCK FALSE
