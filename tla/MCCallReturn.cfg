SPECIFICATION MCCallSpec
CONSTANTS
  Code = {8, 12, 24, 28, 32, 34, 36, 38, 40}
  Targets = {32, 34}
  MaxDepth = 3
  ReturnForms = {"halfword"}
PROPERTIES CallsReturn
