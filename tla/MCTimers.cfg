SPECIFICATION Spec
CONSTANTS
  Programmed = {0, 1, 2}
  Modulus = 2
  Divisors <- MCDivisors
  Reloads = {1}
  Controls <- MCControls
  MaxTick = 3
  MaxCycle = 4
  MaxWrites = 3
INVARIANTS RestoreIsTransparent SlicingIsInvisible HorizonStopsAtOverflow LoopsMatchClosedForm
CHECK_DEADLOCK FALSE
