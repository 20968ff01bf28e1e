SPECIFICATION Spec
CONSTANTS
  Programs <- Contaminated
  Steps = 40
  MaxUnits = 6
  MaxDepth = 6
  MaxDigits = 19
INVARIANT InstancesDoNotContaminate
